---------------------------- MODULE HistoryProofs ----------------------------
(***************************************************************************)
(* What the graph keeps of the past and tells of itself, for any nodes,    *)
(* any caps and any number of commits: the commit log and its readers,     *)
(* snapshots, the reads it watches and the lives of its nodes.             *)
(***************************************************************************)
EXTENDS MCHistory, RetentionProofs, FiniteSetTheorems, SequenceTheorems

-----------------------------------------------------------------------------
(* The commit log.  The ring and what its readers have got, through a      *)
(* frame: the clock a frame may be taken back to is beforeNow.             *)

\* What holds rows of the commits up to t.
RowsTo(t) == Seq(1..t)

LogShapes ==
  /\ now \in 0..MaxTime /\ beforeNow \in 0..MaxTime
  /\ phase \in {"idle", "run", "compute", "metadata", "dispatch", "failed"}
  /\ mode \in {"commit", "simulate"}
  /\ reading \subseteq Plain /\ subs \subseteq Handle
  /\ metadata \in Seq(Metadata) /\ source \in [Metadata -> Metadata \cup {Log}]
  /\ log \in [value : RowsTo(now), time : 0..MaxTime]
  /\ logAtEntry \in LogEntry
  /\ seen \in [Reader -> RowsTo(now)]
  /\ DOMAIN undo \subseteq Plain \cup Metadata
  /\ queue \in Seq(Metadata) /\ todo \subseteq Plain \cup Metadata

\* Only so many nodes have read, subscribed or been recomputed.
Finitely == IsFiniteSet(reading) /\ IsFiniteSet(subs) /\ IsFiniteSet(DOMAIN undo)

\* A frame is one tick ahead of what it may be taken back to.
OneTickAhead == /\ phase = "run" => now = beforeNow
                /\ phase \in {"compute", "metadata"} => now = beforeNow + 1
                /\ phase = "failed" => now >= beforeNow

\* The ring, and what of it Phase F has put aside.
RingKept ==
  /\ phase \in {"idle", "dispatch", "metadata"} => history = RingOf(now)
  /\ phase \in {"run", "compute"} => history = RingOf(beforeNow)
  /\ phase = "failed" /\ saved = {} => history = RingOf(beforeNow)
  /\ phase = "metadata" => saved = IF metadata = <<>> THEN {} ELSE {RingOf(beforeNow)}
  /\ phase = "failed" => saved \in {{}, {RingOf(beforeNow)}}
  /\ phase \in {"idle", "run", "compute", "dispatch"} => saved = {}
  /\ phase = "metadata" \/ saved # {} => mode = "commit"

\* What a reader goes back to: it knows of no commit that has not happened.
Restored(r) == IF r \in DOMAIN undo THEN undo[r].seen ELSE seen[r]

NothingAhead ==
  /\ phase \in {"idle", "run", "dispatch"} => DOMAIN undo = {}
  /\ phase \in {"run", "compute", "metadata", "failed"} =>
       /\ logAtEntry.value \in RowsTo(beforeNow)
       /\ \A r \in Reader : Restored(r) \in RowsTo(beforeNow)
  /\ phase \in {"run", "compute"} \/ (phase = "failed" /\ saved = {}) =>
       log.value \in RowsTo(beforeNow)

\* A metadata node reads the log or a node registered before it.
SourcesBefore ==
  \A i \in 1..Len(metadata) :
    source[metadata[i]] # Log =>
      \E j \in 1..Len(metadata) : j < i /\ metadata[j] = source[metadata[i]]

\* After k steps of Phase F.5 the rest of the nodes is queued, and those before
\* it have the ring with the new row.
DoneUpTo(k) ==
  /\ Len(queue) = Len(metadata) - k
  /\ \A j \in 1..Len(queue) : queue[j] = metadata[k + j]
  /\ \A j \in 1..k : seen[metadata[j]] = history

LogRebuilt ==
  phase = "metadata" =>
    /\ consumers > 0 => log = [value |-> history, time |-> now]
    /\ \E k \in 0..Len(metadata) : DoneUpTo(k)

LogInv == /\ LogShapes /\ Finitely /\ ConsumersCounted /\ OneTickAhead /\ RingKept
          /\ NothingAhead /\ SourcesBefore /\ LogRebuilt

-----------------------------------------------------------------------------

LEMMA RowsGrow ==
  ASSUME NEW t \in Nat, NEW u \in Nat, t <= u, NEW s \in RowsTo(t) PROVE s \in RowsTo(u)
<1>1. 1..t \subseteq 1..u
  OBVIOUS
<1>2. s \in [1..Len(s) -> 1..u] /\ Len(s) \in Nat
  BY <1>1 DEF RowsTo
<1> QED
  BY <1>2 DEF RowsTo

LEMMA RowsElements ==
  ASSUME NEW t \in Nat, NEW s \in RowsTo(t) PROVE ToSet(s) \subseteq 1..t
  BY DEF RowsTo, ToSet

LEMMA RingParts ==
  ASSUME NEW t \in Nat
  PROVE  \E n \in Nat : /\ n = (IF t < Cap THEN t ELSE Cap) /\ n <= t
                        /\ RingOf(t) = [k \in 1..n |-> t - n + k]
                        /\ RingOf(t) \in [1..n -> 1..t] /\ Len(RingOf(t)) = n
<1> DEFINE n == IF t < Cap THEN t ELSE Cap
<1>1. n \in Nat /\ n <= t
  BY CapAssumption
<1>2. RingOf(t) = [k \in 1..n |-> t - n + k]
  BY DEF RingOf
<1> HIDE DEF n
<1>3. \A k \in 1..n : t - n + k \in 1..t
  BY <1>1
<1>4. RingOf(t) \in [1..n -> 1..t]
  BY <1>2, <1>3
<1>5. Len(RingOf(t)) = n
  BY <1>1, <1>4
<1> QED
  BY <1>1, <1>2, <1>4, <1>5 DEF n

LEMMA RingIn == ASSUME NEW t \in Nat PROVE RingOf(t) \in RowsTo(t)
<1>1. PICK n \in Nat : RingOf(t) \in [1..n -> 1..t]
  BY RingParts
<1> QED
  BY <1>1 DEF RowsTo

\* Phase F appends the row of the present and drops the oldest over the cap.
LEMMA RingNext ==
  ASSUME NEW t \in Nat PROVE Trimmed(Append(RingOf(t), t + 1)) = RingOf(t + 1)
<1>1. PICK n \in Nat : /\ n = (IF t < Cap THEN t ELSE Cap) /\ n <= t
                       /\ RingOf(t) = [k \in 1..n |-> t - n + k]
                       /\ RingOf(t) \in [1..n -> 1..t] /\ Len(RingOf(t)) = n
  BY RingParts
<1>2. PICK m \in Nat : /\ m = (IF t + 1 < Cap THEN t + 1 ELSE Cap) /\ m <= t + 1
                       /\ RingOf(t + 1) = [k \in 1..m |-> t + 1 - m + k]
  BY RingParts
<1> DEFINE h == Append(RingOf(t), t + 1)
<1>3. RingOf(t) \in Seq(Nat)
  BY <1>1
<1>4. /\ h \in Seq(Nat) /\ Len(h) = n + 1 /\ h[n + 1] = t + 1
      /\ \A k \in 1..n : h[k] = t - n + k
  BY <1>1, <1>3, AppendProperties
<1> HIDE DEF h
<1>5. CASE t < Cap
  <2>1. n = t /\ m = t + 1 /\ ~(Len(h) > Cap)
    BY <1>1, <1>2, <1>4, <1>5, CapAssumption
  <2>2. h = [k \in 1..m |-> t + 1 - m + k]
    <3>1. h = [k \in 1..Len(h) |-> h[k]]
      BY <1>4
    <3>2. \A k \in 1..m : h[k] = t + 1 - m + k
      BY <1>4, <2>1
    <3> QED
      BY <1>4, <2>1, <3>1, <3>2
  <2> QED
    BY <1>2, <2>1, <2>2 DEF Trimmed, h
<1>6. CASE ~(t < Cap)
  <2>1. n = Cap /\ m = Cap /\ Len(h) > Cap /\ Cap \in Nat /\ Cap > 0
    BY <1>1, <1>2, <1>4, <1>6, CapAssumption
  <2>2. /\ Tail(h) \in Seq(Nat) /\ Len(Tail(h)) = m
        /\ \A k \in 1..m : Tail(h)[k] = h[k + 1]
    BY <1>4, <2>1
  <2>3. \A k \in 1..m : Tail(h)[k] = t + 1 - m + k
    <3> SUFFICES ASSUME NEW k \in 1..m PROVE h[k + 1] = t + 1 - m + k
      BY <2>2
    <3>1. CASE k + 1 \in 1..n
      BY <1>4, <2>1, <3>1
    <3>2. CASE k + 1 = n + 1
      BY <1>4, <2>1, <3>2
    <3> QED
      BY <2>1, <3>1, <3>2
  <2>4. Tail(h) = [k \in 1..m |-> Tail(h)[k]]
    <3>1. ASSUME NEW s \in Seq(Nat) PROVE s = [k \in 1..Len(s) |-> s[k]]
      OBVIOUS
    <3> QED
      BY <2>2, <3>1
  <2>5. Tail(h) = RingOf(t + 1)
    BY <1>2, <2>3, <2>4
  <2> QED
    BY <2>1, <2>5 DEF Trimmed, h
<1> QED
  BY <1>5, <1>6

LEMMA LogInitHolds == Init => LogInv
<1> SUFFICES ASSUME Init PROVE LogInv
  OBVIOUS
<1> USE DEF Init, NoUndo
<1>1. 0 \in Nat /\ 0 \in 0..MaxTime
  BY MaxTimeAssumption
<1>2. <<>> \in RowsTo(0)
  BY DEF RowsTo
<1>3. RingOf(0) = <<>>
  <2>1. PICK n \in Nat : n <= 0 /\ RingOf(0) = [k \in 1..n |-> 0 - n + k]
    BY RingParts
  <2> QED
    BY <2>1
<1>4. <<>> \in Ring
  BY DEF Ring
<1>5. LogShapes
  BY <1>1, <1>2, <1>4 DEF LogShapes, LogEntry
<1>6. Finitely /\ ConsumersCounted
  <2>1. IsFiniteSet({}) /\ Cardinality({}) = 0
    BY FS_EmptySet
  <2> QED
    BY <2>1 DEF Finitely, ConsumersCounted
<1>7. OneTickAhead /\ RingKept /\ NothingAhead /\ LogRebuilt
  BY <1>1, <1>2, <1>3 DEF OneTickAhead, RingKept, NothingAhead, LogRebuilt
<1>8. SourcesBefore
  BY DEF SourcesBefore
<1> QED
  BY <1>5, <1>6, <1>7, <1>8 DEF LogInv

\* The entry, rebuilt or not, while the ring is that of the clock a frame may be
\* taken back to, or of the present.
LEMMA LogFacts ==
  ASSUME LogInv
  PROVE  /\ now \in Nat /\ beforeNow \in Nat
         /\ phase \in {"idle", "run", "dispatch", "metadata"} => history \in RowsTo(now)
         /\ phase \in {"run", "compute"} =>
              history \in RowsTo(beforeNow) /\ history \in RowsTo(now)
         /\ history \in RowsTo(now) => Refreshed \in [value : RowsTo(now), time : 0..MaxTime]
         /\ history \in RowsTo(now) => Refreshed.value \in RowsTo(now)
         /\ phase \in {"run", "compute"} => Refreshed.value \in RowsTo(beforeNow)
<1>1. now \in Nat /\ beforeNow \in Nat
  BY MaxTimeAssumption DEF LogInv, LogShapes
<1>2. RingOf(now) \in RowsTo(now) /\ RingOf(beforeNow) \in RowsTo(beforeNow)
  BY <1>1, RingIn
<1>3. phase \in {"idle", "dispatch", "metadata"} => history \in RowsTo(now)
  BY <1>2 DEF LogInv, RingKept
<1>4. phase \in {"run", "compute"} =>
        history \in RowsTo(beforeNow) /\ history \in RowsTo(now)
  <2>1. phase \in {"run", "compute"} => beforeNow <= now
    BY <1>1 DEF LogInv, OneTickAhead
  <2> QED
    BY <1>1, <1>2, <2>1, RowsGrow DEF LogInv, RingKept
<1>5. history \in RowsTo(now) => Refreshed \in [value : RowsTo(now), time : 0..MaxTime]
  BY DEF Refreshed, LogInv, LogShapes
<1>6. phase \in {"run", "compute"} => Refreshed.value \in RowsTo(beforeNow)
  BY <1>4 DEF Refreshed, LogInv, NothingAhead
<1> QED
  BY <1>1, <1>3, <1>4, <1>5, <1>6

LEMMA Counts ==
  ASSUME LogInv
  PROVE  /\ Cardinality(reading) \in Nat /\ Cardinality(subs) \in Nat
         /\ Len(metadata) \in Nat /\ consumers \in Nat
         /\ consumers > 0 <=> (subs # {} \/ metadata # <<>> \/ reading # {})
<1>1. Cardinality(reading) \in Nat /\ Cardinality(subs) \in Nat
  BY FS_CardinalityType DEF LogInv, Finitely
<1>2. /\ Cardinality(reading) = 0 <=> reading = {}
      /\ Cardinality(subs) = 0 <=> subs = {}
  BY FS_EmptySet DEF LogInv, Finitely
<1>3. Len(metadata) \in Nat /\ (Len(metadata) = 0 <=> metadata = <<>>)
  BY DEF LogInv, LogShapes
<1>4. consumers = Cardinality(subs) + Len(metadata) + Cardinality(reading)
  BY DEF LogInv, ConsumersCounted
<1>5. ASSUME NEW a \in Nat, NEW b \in Nat, NEW c \in Nat, NEW d, d = a + b + c
      PROVE  d \in Nat /\ (d > 0 <=> (a # 0 \/ b # 0 \/ c # 0))
  BY <1>5
<1> QED
  BY <1>1, <1>2, <1>3, <1>4, <1>5

LEMMA JoinCounts ==
  ASSUME NEW S, IsFiniteSet(S), NEW x
  PROVE  /\ IsFiniteSet(S \cup {x}) /\ IsFiniteSet(S \ {x})
         /\ x \notin S => Cardinality(S \cup {x}) = Cardinality(S) + 1
         /\ x \in S => Cardinality(S \ {x}) = Cardinality(S) - 1
<1>1. /\ IsFiniteSet(S \cup {x})
      /\ x \notin S => Cardinality(S \cup {x}) = Cardinality(S) + 1
  BY FS_AddElement
<1>2. /\ IsFiniteSet(S \ {x})
      /\ x \in S => Cardinality(S \ {x}) = Cardinality(S) - 1
  BY FS_RemoveElement
<1> QED
  BY <1>1, <1>2

\* setDeps moves the counter with the membership.
LEMMA SetReadsCounts ==
  ASSUME LogInv, NEW n \in Plain, NEW q \in BOOLEAN, SetReads(n, q),
         UNCHANGED <<subs, metadata>>
  PROVE  reading' \subseteq Plain /\ IsFiniteSet(reading') /\ ConsumersCounted'
<1>1. IsFiniteSet(reading) /\ reading \subseteq Plain
  BY DEF LogInv, Finitely, LogShapes
<1>2. reading' = IF q THEN reading \cup {n} ELSE reading \ {n}
  BY DEF SetReads
<1>3. reading' \subseteq Plain /\ IsFiniteSet(reading')
  BY <1>1, <1>2, JoinCounts
<1>4. consumers' = Cardinality(subs) + Len(metadata) + Cardinality(reading')
  <2>1. /\ Cardinality(reading) \in Nat /\ Cardinality(subs) \in Nat /\ Len(metadata) \in Nat
        /\ consumers = Cardinality(subs) + Len(metadata) + Cardinality(reading)
    BY Counts DEF LogInv, ConsumersCounted
  <2>2. CASE q /\ n \notin reading
    <3>1. consumers' = consumers + 1 /\ Cardinality(reading') = Cardinality(reading) + 1
      BY <1>1, <1>2, <2>2, JoinCounts DEF SetReads
    <3> QED
      BY <2>1, <3>1
  <2>3. CASE ~q /\ n \in reading
    <3>1. consumers' = consumers + (-1) /\ Cardinality(reading') = Cardinality(reading) - 1
      BY <1>1, <1>2, <2>3, JoinCounts DEF SetReads
    <3> QED
      BY <2>1, <3>1
  <2>4. CASE ~(q /\ n \notin reading) /\ ~(~q /\ n \in reading)
    <3>1. consumers' = consumers + 0 /\ reading' = reading
      BY <1>2, <2>4 DEF SetReads
    <3> QED
      BY <2>1, <3>1
  <2> QED
    BY <2>2, <2>3, <2>4
<1>5. ConsumersCounted'
  BY <1>4 DEF ConsumersCounted
<1> QED
  BY <1>3, <1>5

-----------------------------------------------------------------------------
(* Between frames, in tx bodies and in observers.                          *)

LEMMA OpenKeeps ==
  ASSUME LogInv, phase \in Open, UNCHANGED <<now, history, phase, frame, saved, undo>>,
         log' \in {log, Refreshed}, seen' \in [Reader -> RowsTo(now)],
         reading' \subseteq Plain, IsFiniteSet(reading'), subs' \subseteq Handle,
         IsFiniteSet(subs'), metadata' \in Seq(Metadata),
         source' \in [Metadata -> Metadata \cup {Log}], ConsumersCounted', SourcesBefore'
  PROVE  LogInv'
<1> USE DEF frame, Open
<1>1. log' \in [value : RowsTo(now), time : 0..MaxTime] /\ log'.value \in RowsTo(now)
  BY LogFacts DEF LogInv, LogShapes
<1>2. LogShapes'
  BY <1>1 DEF LogInv, LogShapes
<1>3. Finitely'
  BY DEF LogInv, Finitely
<1>4. OneTickAhead' /\ RingKept' /\ LogRebuilt'
  BY DEF LogInv, OneTickAhead, RingKept, LogRebuilt
<1>5. NothingAhead'
  <2>1. DOMAIN undo = {} /\ (phase = "run" => now = beforeNow)
    BY DEF LogInv, NothingAhead, OneTickAhead
  <2>2. \A r \in Reader : Restored(r)' \in RowsTo(now)
    BY <2>1 DEF Restored
  <2> QED
    BY <1>1, <2>1, <2>2 DEF LogInv, NothingAhead
<1> QED
  BY <1>2, <1>3, <1>4, <1>5 DEF LogInv

\* What the actions of these phases have in common.
LEMMA OpenFacts ==
  ASSUME LogInv, phase \in Open
  PROVE  /\ Refreshed.value \in RowsTo(now) /\ log.value \in RowsTo(now)
         /\ <<>> \in RowsTo(now) /\ seen \in [Reader -> RowsTo(now)]
         /\ reading \subseteq Plain /\ IsFiniteSet(reading)
         /\ subs \subseteq Handle /\ IsFiniteSet(subs)
         /\ metadata \in Seq(Metadata) /\ source \in [Metadata -> Metadata \cup {Log}]
<1>1. <<>> \in RowsTo(now)
  BY DEF RowsTo
<1> QED
  BY <1>1, LogFacts DEF Open, LogInv, LogShapes, Finitely

LEMMA ReadKeeps == ASSUME LogInv, Read PROVE LogInv'
<1>1. ConsumersCounted' /\ SourcesBefore'
  BY DEF Read, nodes, LogInv, ConsumersCounted, SourcesBefore
<1> QED
  BY <1>1, OpenFacts, OpenKeeps DEF Read, ReadLog, nodes

LEMMA SubscribeLogKeeps == ASSUME LogInv, NEW h \in Handle, Subscribe(h) PROVE LogInv'
<1> USE DEF Subscribe, ReadLog, nodes
<1>1. seen' \in [Reader -> RowsTo(now)] /\ subs' \subseteq Handle /\ IsFiniteSet(subs')
  BY OpenFacts, JoinCounts DEF Reader
<1>2. ConsumersCounted'
  <2>1. Cardinality(subs') = Cardinality(subs) + 1 /\ consumers' = consumers + 1
    BY OpenFacts, JoinCounts
  <2>2. consumers' = Cardinality(subs') + Len(metadata) + Cardinality(reading)
    BY <2>1, Counts DEF LogInv, ConsumersCounted
  <2> QED
    BY <2>2 DEF ConsumersCounted
<1>3. SourcesBefore'
  BY DEF LogInv, SourcesBefore
<1> QED
  BY <1>1, <1>2, <1>3, OpenFacts, OpenKeeps

LEMMA UnsubscribeLogKeeps == ASSUME LogInv, NEW h \in Handle, Unsubscribe(h) PROVE LogInv'
<1> USE DEF Unsubscribe, nodes
<1>1. seen' \in [Reader -> RowsTo(now)] /\ subs' \subseteq Handle /\ IsFiniteSet(subs')
  BY OpenFacts, JoinCounts DEF Reader
<1>2. ConsumersCounted'
  <2>1. Cardinality(subs') = Cardinality(subs) - 1 /\ consumers' = consumers - 1
    BY OpenFacts, JoinCounts
  <2>2. consumers' = Cardinality(subs') + Len(metadata) + Cardinality(reading)
    BY <2>1, Counts DEF LogInv, ConsumersCounted
  <2> QED
    BY <2>2 DEF ConsumersCounted
<1>3. SourcesBefore'
  BY DEF LogInv, SourcesBefore
<1> QED
  BY <1>1, <1>2, <1>3, OpenFacts, OpenKeeps

LEMMA RegisterPlainKeeps == ASSUME LogInv, NEW n \in Plain, RegisterPlain(n) PROVE LogInv'
<1> USE DEF RegisterPlain, ReadLog
<1>1. seen' \in [Reader -> RowsTo(now)]
  BY OpenFacts DEF Reader
<1>2. reading' \subseteq Plain /\ IsFiniteSet(reading') /\ ConsumersCounted'
  BY SetReadsCounts
<1>3. SourcesBefore'
  BY DEF LogInv, SourcesBefore
<1> QED
  BY <1>1, <1>2, <1>3, OpenFacts, OpenKeeps

LEMMA DisposePlainKeeps == ASSUME LogInv, NEW n \in Plain, DisposePlain(n) PROVE LogInv'
<1> USE DEF DisposePlain
<1>0. phase \in Open
  BY DEF Open
<1>1. seen' \in [Reader -> RowsTo(now)] /\ reading' \subseteq Plain /\ IsFiniteSet(reading')
  BY <1>0, OpenFacts, JoinCounts DEF Reader
<1>2. ConsumersCounted'
  <2>1. Cardinality(reading') = Cardinality(reading) - 1 /\ consumers' = consumers - 1
    BY <1>0, OpenFacts, JoinCounts
  <2>2. consumers' = Cardinality(subs) + Len(metadata) + Cardinality(reading')
    BY <2>1, Counts DEF LogInv, ConsumersCounted
  <2> QED
    BY <2>2 DEF ConsumersCounted
<1>3. SourcesBefore'
  BY DEF LogInv, SourcesBefore
<1> QED
  BY <1>0, <1>1, <1>2, <1>3, OpenFacts, OpenKeeps

LEMMA RemoveAtParts ==
  ASSUME NEW S, NEW s \in Seq(S), NEW i \in 1..Len(s)
  PROVE  /\ RemoveAt(s, i) \in Seq(S) /\ Len(RemoveAt(s, i)) = Len(s) - 1
         /\ \A k \in 1..Len(s) - 1 : k < i => RemoveAt(s, i)[k] = s[k]
         /\ \A k \in 1..Len(s) - 1 : k >= i => RemoveAt(s, i)[k] = s[k + 1]
<1> DEFINE f == SubSeq(s, 1, i - 1)
           g == SubSeq(s, i + 1, Len(s))
<1>1. /\ f \in Seq(S) /\ Len(f) = i - 1
      /\ \A k \in 1..i - 1 : f[k] = s[k]
  OBVIOUS
<1>2. PICK l \in Nat : l = Len(s)
  OBVIOUS
<1>3. /\ g \in Seq(S) /\ Len(g) = l - i
      /\ \A k \in 1..l - i : g[k] = s[k + i]
  BY <1>2
<1>4. RemoveAt(s, i) = f \o g
  BY DEF RemoveAt
<1> HIDE DEF f, g
<1>5. /\ f \o g \in Seq(S) /\ Len(f \o g) = l - 1
      /\ \A k \in 1..l - 1 : (f \o g)[k] = IF k <= i - 1 THEN f[k] ELSE g[k - (i - 1)]
  BY <1>1, <1>2, <1>3, ConcatProperties
<1>6. ASSUME NEW k \in 1..l - 1, k < i PROVE (f \o g)[k] = s[k]
  BY <1>1, <1>2, <1>5, <1>6
<1>7. ASSUME NEW k \in 1..l - 1, k >= i PROVE (f \o g)[k] = s[k + 1]
  <2>1. (f \o g)[k] = g[k - (i - 1)] /\ k - (i - 1) \in 1..l - i
    BY <1>2, <1>5, <1>7
  <2>2. g[k - (i - 1)] = s[k - (i - 1) + i] /\ k - (i - 1) + i = k + 1
    BY <1>2, <1>3, <2>1
  <2> QED
    BY <2>1, <2>2
<1> QED
  BY <1>2, <1>4, <1>5, <1>6, <1>7

LEMMA RegisterMetadataKeeps ==
  ASSUME LogInv, NEW m \in Metadata, NEW s \in Metadata \cup {Log}, RegisterMetadata(m, s)
  PROVE  LogInv'
<1> DEFINE l == Len(metadata)
<1>0. phase \in Open /\ m \notin Registered /\ s \in Registered \cup {Log}
  BY DEF RegisterMetadata
<1>1. /\ metadata' \in Seq(Metadata) /\ Len(metadata') = l + 1 /\ metadata'[l + 1] = m
      /\ \A i \in 1..l : metadata'[i] = metadata[i] /\ metadata[i] # m
  BY <1>0, OpenFacts, AppendProperties DEF RegisterMetadata, Registered, ToSet
<1>2. log' \in {log, Refreshed} /\ seen' \in [Reader -> RowsTo(now)]
  BY <1>0, OpenFacts DEF RegisterMetadata, Gets, ReadLog, Reader, Registered
<1>3. source' \in [Metadata -> Metadata \cup {Log}]
  BY <1>0, OpenFacts DEF RegisterMetadata
<1>4. ConsumersCounted'
  <2>1. consumers' = Cardinality(subs) + Len(metadata') + Cardinality(reading)
    BY <1>1, Counts DEF RegisterMetadata, LogInv, ConsumersCounted
  <2> QED
    BY <2>1 DEF RegisterMetadata, ConsumersCounted
<1>5. SourcesBefore'
  <2>1. l \in Nat
    BY <1>0, OpenFacts
  <2>2. ASSUME NEW i \in 1..l, source'[metadata'[i]] # Log
        PROVE  \E j \in 1..l + 1 : j < i /\ metadata'[j] = source'[metadata'[i]]
    <3>1. source'[metadata'[i]] = source[metadata[i]]
      BY <1>0, <1>1, OpenFacts DEF RegisterMetadata
    <3>2. PICK j \in 1..l : j < i /\ metadata[j] = source[metadata[i]]
      BY <2>2, <3>1 DEF LogInv, SourcesBefore
    <3> QED
      BY <1>1, <2>1, <3>1, <3>2
  <2>3. ASSUME source'[m] # Log
        PROVE  \E j \in 1..l + 1 : j < l + 1 /\ metadata'[j] = source'[m]
    <3>1. source'[m] = s /\ s \in Registered
      BY <1>0, <2>3, OpenFacts DEF RegisterMetadata
    <3>2. PICK j \in 1..l : metadata[j] = s
      BY <3>1, <1>0, OpenFacts DEF Registered, ToSet
    <3> QED
      BY <1>1, <2>1, <3>1, <3>2
  <2>4. \A i \in 1..l + 1 : i \in 1..l \/ (i = l + 1 /\ metadata'[i] = m)
    BY <1>1, <2>1
  <2> HIDE DEF l
  <2> QED
    BY <1>1, <2>2, <2>3, <2>4 DEF SourcesBefore
<1> QED
  BY <1>0, <1>1, <1>2, <1>3, <1>4, <1>5, OpenFacts, OpenKeeps DEF RegisterMetadata

LEMMA DisposeMetadataKeeps ==
  ASSUME LogInv, NEW m \in Metadata, DisposeMetadata(m) PROVE LogInv'
<1>0. phase \in Open /\ \A k \in Registered : source[k] # m
  BY DEF DisposeMetadata, Open
<1>1. PICK i \in DOMAIN metadata : metadata[i] = m /\ metadata' = RemoveAt(metadata, i)
  BY DEF DisposeMetadata
<1>2. PICK l \in Nat : l = Len(metadata)
  BY <1>0, OpenFacts
<1>3. i \in 1..l /\ metadata \in Seq(Metadata)
  BY <1>0, <1>2, OpenFacts
<1>4. /\ metadata' \in Seq(Metadata) /\ Len(metadata') = l - 1
      /\ \A k \in 1..l - 1 : k < i => metadata'[k] = metadata[k]
      /\ \A k \in 1..l - 1 : k >= i => metadata'[k] = metadata[k + 1]
  <2>1. /\ RemoveAt(metadata, i) \in Seq(Metadata) /\ Len(RemoveAt(metadata, i)) = l - 1
        /\ \A k \in 1..l - 1 : k < i => RemoveAt(metadata, i)[k] = metadata[k]
        /\ \A k \in 1..l - 1 : k >= i => RemoveAt(metadata, i)[k] = metadata[k + 1]
    BY <1>2, <1>3, RemoveAtParts
  <2> QED
    BY <1>1, <2>1
<1>5. /\ seen' \in [Reader -> RowsTo(now)]
      /\ source' \in [Metadata -> Metadata \cup {Log}]
  BY <1>0, OpenFacts DEF DisposeMetadata, Reader
<1>6. ConsumersCounted'
  <2>1. consumers' = Cardinality(subs) + Len(metadata') + Cardinality(reading)
    <3>1. consumers' = consumers - 1 /\ consumers = Cardinality(subs) + l + Cardinality(reading)
      BY <1>2 DEF DisposeMetadata, LogInv, ConsumersCounted
    <3>2. Cardinality(subs) \in Nat /\ Cardinality(reading) \in Nat
      BY Counts
    <3> QED
      BY <1>4, <3>1, <3>2
  <2> QED
    BY <2>1 DEF DisposeMetadata, ConsumersCounted
<1>7. ASSUME NEW p \in 1..l - 1, source'[metadata'[p]] # Log
      PROVE  \E j \in 1..l - 1 : j < p /\ metadata'[j] = source'[metadata'[p]]
  <2>1. PICK q \in 1..l : metadata'[p] = metadata[q] /\ q = (IF p < i THEN p ELSE p + 1)
    <3>1. CASE p < i
      BY <1>4, <3>1
    <3>2. CASE ~(p < i)
      BY <1>3, <1>4, <3>2
    <3> QED
      BY <3>1, <3>2
  <2>2. metadata[q] \in Metadata /\ metadata[q] \in Registered
    BY <1>2, <1>3 DEF Registered, ToSet
  <2>3. metadata[q] # m /\ source'[metadata'[p]] = source[metadata[q]]
    BY <1>0, <1>7, <2>1, <2>2, OpenFacts DEF DisposeMetadata
  <2>4. PICK k \in 1..l : k < q /\ metadata[k] = source[metadata[q]]
    BY <1>2, <1>7, <2>3 DEF LogInv, SourcesBefore
  <2>5. k # i
    BY <1>0, <1>1, <2>2, <2>4
  <2>6. CASE k < i
    <3>1. k \in 1..l - 1 /\ k < p /\ metadata'[k] = metadata[k]
      BY <1>3, <1>4, <2>1, <2>4, <2>6
    <3> QED
      BY <2>3, <2>4, <3>1
  <2>7. CASE ~(k < i)
    <3>1. k - 1 \in 1..l - 1 /\ k - 1 < p /\ k - 1 >= i /\ k - 1 + 1 = k
      BY <1>3, <2>1, <2>4, <2>5, <2>7
    <3>2. metadata'[k - 1] = metadata[k]
      BY <1>4, <3>1
    <3> QED
      BY <2>3, <2>4, <3>1, <3>2
  <2> QED
    BY <2>6, <2>7
<1>8. SourcesBefore'
  BY <1>4, <1>7 DEF SourcesBefore
<1> QED
  BY <1>0, <1>4, <1>5, <1>6, <1>8, OpenFacts, OpenKeeps DEF DisposeMetadata

-----------------------------------------------------------------------------
(* The frame.                                                              *)

LEMMA SameSources == ASSUME LogInv, UNCHANGED nodes, UNCHANGED <<consumers, subs>>
                     PROVE  ConsumersCounted' /\ SourcesBefore'
  BY DEF LogInv, ConsumersCounted, SourcesBefore, nodes

LEMMA BeginLogKeeps == ASSUME LogInv, NEW m \in {"commit", "simulate"}, Begin(m) PROVE LogInv'
<1> USE DEF Begin, nodes
<1>1. LogShapes' /\ Finitely'
  <2>1. log \in LogEntry
    <3>1. log.value \in Ring
      BY LogFacts, RowsGrow, MaxTimeAssumption DEF LogInv, LogShapes, Ring, RowsTo
    <3> QED
      BY <3>1 DEF LogInv, LogShapes, LogEntry
  <2> QED
    BY <2>1 DEF LogInv, LogShapes, Finitely
<1>2. OneTickAhead' /\ RingKept' /\ LogRebuilt'
  BY DEF LogInv, OneTickAhead, RingKept, LogRebuilt
<1>3. NothingAhead'
  <2>1. DOMAIN undo = {}
    BY DEF LogInv, NothingAhead
  <2>2. \A r \in Reader : Restored(r)' \in RowsTo(now)
    BY <2>1 DEF Restored, LogInv, LogShapes
  <2> QED
    BY <2>1, <2>2 DEF LogInv, LogShapes, NothingAhead
<1> QED
  BY <1>1, <1>2, <1>3, SameSources DEF LogInv

LEMMA RunThrowsKeeps == ASSUME LogInv, RunThrows PROVE LogInv'
<1> USE DEF RunThrows, nodes, frame
<1>1. LogShapes' /\ Finitely'
  BY DEF LogInv, LogShapes, Finitely
<1>2. OneTickAhead' /\ RingKept' /\ LogRebuilt'
  BY LogFacts DEF LogInv, OneTickAhead, RingKept, LogRebuilt
<1>3. NothingAhead'
  BY DEF LogInv, NothingAhead, Restored
<1> QED
  BY <1>1, <1>2, <1>3, SameSources DEF LogInv

LEMMA AdvanceClockKeeps == ASSUME LogInv, AdvanceClock PROVE LogInv'
<1> USE DEF AdvanceClock, Tick, nodes
<1>1. LogShapes' /\ Finitely'
  <2>1. now' \in 0..MaxTime /\ now \in Nat /\ now' \in Nat /\ now <= now'
    BY LogFacts, MaxTimeAssumption
  <2>2. log \in [value : RowsTo(now'), time : 0..MaxTime]
    BY <2>1, RowsGrow DEF LogInv, LogShapes
  <2>3. seen \in [Reader -> RowsTo(now')]
    BY <2>1, RowsGrow DEF LogInv, LogShapes
  <2>4. todo' \subseteq Plain \cup Metadata
    BY DEF LogInv, LogShapes, Registered, ToSet
  <2> QED
    BY <2>1, <2>2, <2>3, <2>4 DEF LogInv, LogShapes, Finitely
<1>2. OneTickAhead' /\ RingKept' /\ LogRebuilt'
  BY LogFacts DEF LogInv, OneTickAhead, RingKept, LogRebuilt
<1>3. NothingAhead'
  BY DEF LogInv, NothingAhead, Restored
<1> QED
  BY <1>1, <1>2, <1>3, SameSources DEF LogInv

\* The first capture counts: what a node goes back to stays through the frame.
LEMMA RecordedParts ==
  ASSUME NEW n
  PROVE  /\ DOMAIN Recorded(n) = DOMAIN undo \cup {n}
         /\ \A r \in DOMAIN undo : Recorded(n)[r] = undo[r]
         /\ n \notin DOMAIN undo => Recorded(n)[n].seen = seen[n]
  BY DEF Recorded

LEMMA RestoredStays ==
  ASSUME NEW n, undo' = Recorded(n), \A r \in Reader \ {n} : seen'[r] = seen[r]
  PROVE  \A r \in Reader : Restored(r)' = Restored(r)
<1> SUFFICES ASSUME NEW r \in Reader PROVE Restored(r)' = Restored(r)
  OBVIOUS
<1>1. CASE r \in DOMAIN undo
  BY <1>1, RecordedParts DEF Restored
<1>2. CASE r \notin DOMAIN undo /\ r = n
  BY <1>2, RecordedParts DEF Restored
<1>3. CASE r \notin DOMAIN undo /\ r # n
  BY <1>3, RecordedParts DEF Restored
<1> QED
  BY <1>1, <1>2, <1>3

\* A compute of Phase D, whether it throws or not.
LEMMA ComputedKeeps ==
  ASSUME LogInv, phase = "compute", NEW n \in Plain \cup Metadata, undo' = Recorded(n),
         log' \in {log, Refreshed}, seen' \in [Reader -> RowsTo(now)],
         \A r \in Reader \ {n} : seen'[r] = seen[r],
         phase' \in {"compute", "failed"}, todo' \subseteq todo,
         reading' \subseteq Plain, IsFiniteSet(reading'), ConsumersCounted',
         UNCHANGED <<now, history, metadata, source, subs, mode, beforeNow,
                     logAtEntry, queue, saved>>
  PROVE  LogInv'
<1>1. /\ log' \in [value : RowsTo(now), time : 0..MaxTime]
      /\ log'.value \in RowsTo(beforeNow)
  BY LogFacts DEF LogInv, LogShapes, NothingAhead
<1>2. DOMAIN undo' = DOMAIN undo \cup {n}
  BY RecordedParts
<1>3. LogShapes'
  <2>1. LogShapes
    BY DEF LogInv
  <2>2. DOMAIN undo' \subseteq Plain \cup Metadata /\ todo' \subseteq Plain \cup Metadata
    BY <1>2, <2>1 DEF LogShapes
  <2>3. log' \in [value : RowsTo(now'), time : 0..MaxTime] /\ seen' \in [Reader -> RowsTo(now')]
    BY <1>1
  <2>4. /\ now' = now /\ metadata' = metadata /\ source' = source /\ subs' = subs
        /\ mode' = mode /\ beforeNow' = beforeNow /\ logAtEntry' = logAtEntry
        /\ queue' = queue
    OBVIOUS
  <2>5. phase' \in {"idle", "run", "compute", "metadata", "dispatch", "failed"}
    OBVIOUS
  <2> QED
    BY <2>1, <2>2, <2>3, <2>4, <2>5 DEF LogShapes
<1>4. Finitely'
  <2>1. IsFiniteSet(DOMAIN undo) /\ IsFiniteSet(subs)
    BY DEF LogInv, Finitely
  <2>2. IsFiniteSet(DOMAIN undo \cup {n})
    BY <2>1, JoinCounts
  <2>3. IsFiniteSet(DOMAIN undo')
    BY <1>2, <2>2
  <2> QED
    BY <2>1, <2>3 DEF Finitely
<1>5. OneTickAhead' /\ RingKept' /\ LogRebuilt'
  BY LogFacts DEF LogInv, OneTickAhead, RingKept, LogRebuilt
<1>6. NothingAhead'
  BY <1>1, RestoredStays DEF LogInv, NothingAhead
<1>7. SourcesBefore'
  BY DEF LogInv, SourcesBefore
<1> QED
  BY <1>3, <1>4, <1>5, <1>6, <1>7 DEF LogInv

LEMMA ComputePlainKeeps ==
  ASSUME LogInv, NEW n \in Plain, NEW q \in BOOLEAN, ComputePlain(n, q) PROVE LogInv'
<1> USE DEF ComputePlain, ReadLog
<1>1. reading' \subseteq Plain /\ IsFiniteSet(reading') /\ ConsumersCounted'
  BY SetReadsCounts
<1>2. log' \in {log, Refreshed} /\ log'.value \in RowsTo(now) /\ <<>> \in RowsTo(now)
  BY LogFacts DEF LogInv, LogShapes, RowsTo
<1>3. seen' \in [Reader -> RowsTo(now)] /\ \A r \in Reader \ {n} : seen'[r] = seen[r]
  BY <1>2 DEF LogInv, LogShapes
<1> QED
  BY <1>1, <1>2, <1>3, ComputedKeeps

LEMMA ComputeMetadataKeeps ==
  ASSUME LogInv, NEW m \in Metadata, ComputeMetadata(m) PROVE LogInv'
<1> USE DEF ComputeMetadata, Gets, ReadLog, nodes
<1>1. reading' \subseteq Plain /\ IsFiniteSet(reading') /\ ConsumersCounted'
  BY SameSources DEF LogInv, LogShapes, Finitely
<1>2. log' \in {log, Refreshed} /\ log'.value \in RowsTo(now)
  BY LogFacts DEF LogInv, LogShapes
<1>3. seen' \in [Reader -> RowsTo(now)] /\ \A r \in Reader \ {m} : seen'[r] = seen[r]
  BY <1>2 DEF LogInv, LogShapes, Reader
<1> QED
  BY <1>1, <1>2, <1>3, ComputedKeeps

LEMMA ComputeThrowsLogKeeps ==
  ASSUME LogInv, NEW n \in Plain \cup Metadata, ComputeThrows(n) PROVE LogInv'
<1> USE DEF ComputeThrows, nodes, frame
<1>1. reading' \subseteq Plain /\ IsFiniteSet(reading') /\ ConsumersCounted'
  BY SameSources DEF LogInv, LogShapes, Finitely
<1>2. log' \in {log, Refreshed}
  BY DEF MayHaveRead
<1>3. seen' \in [Reader -> RowsTo(now)] /\ \A r \in Reader \ {n} : seen'[r] = seen[r]
  BY DEF LogInv, LogShapes
<1> QED
  BY <1>1, <1>2, <1>3, ComputedKeeps

LEMMA AppendRowKeeps == ASSUME LogInv, AppendRow PROVE LogInv'
<1> USE DEF AppendRow, nodes
<1>1. history' = RingOf(now) /\ history' \in RowsTo(now) /\ history = RingOf(beforeNow)
  BY LogFacts, RingNext, RingIn DEF LogInv, RingKept, OneTickAhead
<1>2. log' \in [value : RowsTo(now), time : 0..MaxTime]
  BY <1>1 DEF LogInv, LogShapes
<1>3. LogShapes' /\ Finitely'
  BY <1>2 DEF LogInv, LogShapes, Finitely
<1>4. OneTickAhead' /\ RingKept'
  BY <1>1 DEF LogInv, OneTickAhead, RingKept
<1>5. NothingAhead'
  BY DEF LogInv, NothingAhead, Restored
<1>6. LogRebuilt'
  <2>1. PICK l \in Nat : l = Len(metadata)
    BY DEF LogInv, LogShapes
  <2>2. Len(queue') = Len(metadata') - 0 /\ 0 \in 0..Len(metadata')
    BY <2>1
  <2>3. \A j \in 1..Len(queue') : queue'[j] = metadata'[0 + j]
    BY <2>1
  <2>4. DoneUpTo(0)'
    BY <2>2, <2>3 DEF DoneUpTo
  <2> QED
    BY <2>2, <2>4 DEF LogRebuilt
<1> QED
  BY <1>3, <1>4, <1>5, <1>6, SameSources DEF LogInv

\* In Phase F.5 the entry is that of the new row: no compute rebuilds it.
LEMMA QueueFacts ==
  ASSUME LogInv, phase = "metadata", queue # <<>>
  PROVE  /\ Head(queue) \in Registered /\ Head(queue) \in Metadata
         /\ log = [value |-> history, time |-> now] /\ Refreshed = log
         /\ \E k \in 0..Len(metadata) :
              /\ DoneUpTo(k) /\ k + 1 \in 1..Len(metadata) /\ metadata[k + 1] = Head(queue)
<1>1. PICK l \in Nat : l = Len(metadata)
  BY DEF LogInv, LogShapes
<1>2. PICK k \in 0..l : DoneUpTo(k)
  BY <1>1 DEF LogInv, LogRebuilt
<1>3. PICK q \in Nat : q = Len(queue) /\ q > 0
  BY DEF LogInv, LogShapes
<1>4. k + 1 \in 1..l /\ 1 \in 1..q
  BY <1>1, <1>2, <1>3 DEF DoneUpTo
<1>5. metadata[k + 1] = Head(queue)
  <2>1. Head(queue) = queue[1]
    BY DEF LogInv, LogShapes
  <2> QED
    BY <1>2, <1>3, <1>4, <2>1 DEF DoneUpTo
<1>6. Head(queue) \in Registered /\ Head(queue) \in Metadata
  BY <1>1, <1>4, <1>5 DEF LogInv, LogShapes, Registered, ToSet
<1>7. consumers > 0
  <2>1. metadata # <<>>
    BY <1>1, <1>4
  <2> QED
    BY <2>1, Counts
<1>8. log = [value |-> history, time |-> now]
  BY <1>7 DEF LogInv, LogRebuilt
<1>9. Refreshed = log
  <2>1. ~(log.time < now)
    BY <1>8, LogFacts
  <2> QED
    BY <2>1 DEF Refreshed
<1> QED
  BY <1>1, <1>2, <1>4, <1>5, <1>6, <1>8, <1>9

LEMMA RecomputeMetadataKeeps == ASSUME LogInv, RecomputeCommitMetadata PROVE LogInv'
<1> USE DEF nodes
<1> DEFINE m == Head(queue)
<1>1. /\ phase = "metadata" /\ queue # <<>> /\ Gets(m, source[m]) /\ undo' = Recorded(m)
      /\ queue' = Tail(queue)
      /\ UNCHANGED <<now, history, consumers, nodes, subs, phase, mode, beforeNow,
                     logAtEntry, todo, saved>>
  BY DEF RecomputeCommitMetadata
<1>2. PICK l \in Nat : l = Len(metadata)
  BY DEF LogInv, LogShapes
<1>3. PICK k \in 0..l : DoneUpTo(k) /\ k + 1 \in 1..l /\ metadata[k + 1] = m
  BY <1>1, <1>2, QueueFacts
<1>4. m \in Metadata /\ m \in Reader /\ log.value = history /\ log.time = now /\ Refreshed = log
  BY <1>1, QueueFacts DEF Reader
<1>5. /\ seen' = [seen EXCEPT ![m] = history] /\ log' = log
      /\ history \in RowsTo(now)
  <2>1. CASE source[m] = Log
    BY <1>1, <1>4, <2>1, LogFacts DEF Gets, ReadLog
  <2>2. CASE source[m] # Log
    <3>1. PICK j \in 1..l : j < k + 1 /\ metadata[j] = source[m]
      BY <1>2, <1>3, <2>2 DEF LogInv, SourcesBefore
    <3>2. j \in 1..k
      BY <3>1
    <3>3. seen[source[m]] = history
      BY <1>3, <3>1, <3>2 DEF DoneUpTo
    <3> QED
      BY <1>1, <2>2, <3>3, LogFacts DEF Gets
  <2> QED
    BY <2>1, <2>2
<1>6. /\ seen' \in [Reader -> RowsTo(now)] /\ seen'[m] = history
      /\ \A r \in Reader \ {m} : seen'[r] = seen[r]
  BY <1>4, <1>5 DEF LogInv, LogShapes
<1>7. DOMAIN undo' = DOMAIN undo \cup {m}
  BY <1>1, RecordedParts
<1> HIDE DEF m
<1>8. LogShapes'
  <2>1. queue' \in Seq(Metadata)
    BY <1>1 DEF LogInv, LogShapes
  <2> QED
    BY <1>1, <1>4, <1>5, <1>6, <1>7, <2>1 DEF LogInv, LogShapes
<1>9. Finitely'
  <2>1. IsFiniteSet(DOMAIN undo \cup {m})
    BY JoinCounts DEF LogInv, Finitely
  <2> QED
    BY <1>1, <1>7, <2>1 DEF LogInv, Finitely
<1>10. OneTickAhead' /\ RingKept'
  BY <1>1 DEF LogInv, OneTickAhead, RingKept
<1>11. NothingAhead'
  BY <1>1, <1>6, RestoredStays DEF LogInv, NothingAhead
<1>12. LogRebuilt'
  <2>1. PICK q \in Nat : q = Len(queue) /\ q = l - k
    <3>1. Len(queue) \in Nat
      BY DEF LogInv, LogShapes
    <3>2. Len(queue) = l - k
      BY <1>2, <1>3 DEF DoneUpTo
    <3> QED
      BY <3>1, <3>2
  <2>2. /\ Len(Tail(queue)) = q - 1
        /\ \A j \in 1..q - 1 : Tail(queue)[j] = queue[j + 1]
    <3>1. queue \in Seq(Metadata) /\ queue # <<>>
      BY <1>1 DEF LogInv, LogShapes
    <3>2. /\ Len(Tail(queue)) = Len(queue) - 1
          /\ \A j \in 1..Len(Tail(queue)) : Tail(queue)[j] = queue[j + 1]
      BY <3>1, HeadTailProperties
    <3> QED
      BY <2>1, <3>2
  <2>3. Len(queue') = Len(metadata') - (k + 1) /\ k + 1 \in 0..Len(metadata')
    <3>1. metadata' = metadata /\ queue' = Tail(queue)
      BY <1>1
    <3>2. q - 1 = l - (k + 1) /\ k + 1 \in 0..l
      BY <1>3, <2>1
    <3> QED
      BY <1>2, <2>2, <3>1, <3>2
  <2>4. ASSUME NEW j \in 1..Len(queue') PROVE queue'[j] = metadata'[(k + 1) + j]
    <3>1. j \in 1..q - 1 /\ j + 1 \in 1..q /\ k + (j + 1) = (k + 1) + j
      BY <1>1, <2>1, <2>2
    <3>2. queue'[j] = queue[j + 1]
      BY <1>1, <2>2, <3>1
    <3>3. queue[j + 1] = metadata[k + (j + 1)]
      BY <1>3, <2>1, <3>1 DEF DoneUpTo
    <3> QED
      BY <1>1, <3>1, <3>2, <3>3
  <2>5. ASSUME NEW j \in 1..k + 1 PROVE seen'[metadata'[j]] = history'
    <3>1. CASE j = k + 1
      BY <1>1, <1>3, <1>6, <3>1
    <3>2. CASE j # k + 1
      <4>1. j \in 1..k /\ j \in 1..l
        BY <1>3, <3>2
      <4>2. seen[metadata[j]] = history
        BY <1>3, <4>1 DEF DoneUpTo
      <4>3. metadata[j] \in Reader
        BY <1>2, <4>1 DEF LogInv, LogShapes, Reader
      <4> QED
        BY <1>1, <1>6, <4>2, <4>3
    <3> QED
      BY <3>1, <3>2
  <2>6. DoneUpTo(k + 1)'
    BY <2>3, <2>4, <2>5 DEF DoneUpTo
  <2>7. log' = [value |-> history', time |-> now']
    <3>1. log = [value |-> history, time |-> now]
      BY <1>1, QueueFacts
    <3> QED
      BY <1>1, <1>5, <3>1
  <2> QED
    BY <2>3, <2>6, <2>7 DEF LogRebuilt
<1> QED
  BY <1>1, <1>8, <1>9, <1>10, <1>11, <1>12, SameSources DEF LogInv

LEMMA CommitMetadataThrowsKeeps == ASSUME LogInv, CommitMetadataThrows PROVE LogInv'
<1> USE DEF nodes, frame
<1> DEFINE m == Head(queue)
<1>1. /\ phase = "metadata" /\ queue # <<>> /\ undo' = Recorded(m) /\ phase' = "failed"
      /\ UNCHANGED <<now, history, consumers, nodes, seen, subs, frame, saved>>
  BY DEF CommitMetadataThrows
<1>2. m \in Metadata /\ log' = log /\ metadata # <<>>
  BY <1>1, QueueFacts DEF CommitMetadataThrows, MayHaveRead, Registered, ToSet
<1>3. DOMAIN undo' = DOMAIN undo \cup {m} /\ IsFiniteSet(DOMAIN undo \cup {m})
  BY <1>1, RecordedParts, JoinCounts DEF LogInv, Finitely
<1>4. \A r \in Reader : Restored(r)' = Restored(r)
  BY <1>1, RestoredStays
<1> HIDE DEF m
<1>5. LogShapes' /\ Finitely'
  BY <1>1, <1>2, <1>3 DEF LogInv, LogShapes, Finitely
<1>6. OneTickAhead' /\ RingKept' /\ LogRebuilt'
  <2>1. now >= beforeNow
    BY <1>1, LogFacts DEF LogInv, OneTickAhead
  <2> QED
    BY <1>1, <1>2, <2>1 DEF LogInv, OneTickAhead, RingKept, LogRebuilt
<1>7. NothingAhead'
  BY <1>1, <1>2, <1>4 DEF LogInv, NothingAhead, RingKept
<1> QED
  BY <1>1, <1>5, <1>6, <1>7, SameSources DEF LogInv

LEMMA PublishLogKeeps == ASSUME LogInv, Publish PROVE LogInv'
<1> USE DEF Publish, nodes, frame, NoUndo
<1>1. LogShapes'
  <2>1. seen' \in [Reader -> RowsTo(now)]
    BY DEF LogInv, LogShapes
  <2> QED
    BY <2>1 DEF LogInv, LogShapes
<1>2. Finitely'
  BY FS_EmptySet DEF LogInv, Finitely
<1>3. OneTickAhead' /\ RingKept' /\ LogRebuilt' /\ NothingAhead'
  BY DEF LogInv, OneTickAhead, RingKept, LogRebuilt, NothingAhead
<1> QED
  BY <1>1, <1>2, <1>3, SameSources DEF LogInv

LEMMA FinishKeeps == ASSUME LogInv, Finish PROVE LogInv'
<1> USE DEF Finish, nodes, frame
<1>1. LogShapes' /\ Finitely'
  BY DEF LogInv, LogShapes, Finitely
<1>2. OneTickAhead' /\ RingKept' /\ LogRebuilt' /\ NothingAhead'
  BY DEF LogInv, OneTickAhead, RingKept, LogRebuilt, NothingAhead
<1> QED
  BY <1>1, <1>2, SameSources DEF LogInv

\* What both arms that take a frame back do, to the graph as they find it.
LEMMA TakenBackKeeps ==
  ASSUME LogInv, phase \in {"compute", "failed"}, RestoreNodes, FrameOver,
         history' = RingOf(beforeNow), log' \in [value : RowsTo(beforeNow), time : 0..MaxTime]
  PROVE  LogInv'
<1> USE DEF FrameOver, NoUndo
<1>1. \A r \in Reader : Restored(r) \in RowsTo(beforeNow)
  BY DEF LogInv, NothingAhead
<1>2. seen' \in [Reader -> RowsTo(beforeNow)]
  <2>1. seen' = [r \in Reader |-> Restored(r)]
    BY DEF RestoreNodes, Restored
  <2> QED
    BY <1>1, <2>1
<1>3. reading' \subseteq Plain /\ IsFiniteSet(reading')
  <2>1. reading' \subseteq reading \cup DOMAIN undo /\ reading' \subseteq Plain
    BY DEF RestoreNodes, LogInv, LogShapes
  <2>2. IsFiniteSet(reading \cup DOMAIN undo)
    BY FS_Union DEF LogInv, Finitely
  <2> QED
    BY <2>1, <2>2, FS_Subset
<1>4. ConsumersCounted'
  <2>1. Cardinality(reading) \in Nat /\ Cardinality(subs) \in Nat /\ Len(metadata) \in Nat
    BY Counts
  <2>2. Cardinality(reading') \in Nat
    BY <1>3, FS_CardinalityType
  <2>3. /\ consumers = Cardinality(subs) + Len(metadata) + Cardinality(reading)
        /\ consumers' = consumers + Cardinality(reading') - Cardinality(reading)
    BY DEF LogInv, ConsumersCounted, RestoreNodes
  <2>4. consumers' = Cardinality(subs) + Len(metadata) + Cardinality(reading')
    BY <2>1, <2>2, <2>3
  <2> QED
    BY <2>4 DEF ConsumersCounted
<1>5. LogShapes'
  BY <1>2, <1>3 DEF LogInv, LogShapes
<1>6. Finitely'
  BY <1>3, FS_EmptySet DEF LogInv, Finitely
<1>7. OneTickAhead' /\ RingKept' /\ LogRebuilt' /\ NothingAhead'
  BY DEF OneTickAhead, RingKept, LogRebuilt, NothingAhead
<1>8. SourcesBefore'
  BY DEF LogInv, SourcesBefore
<1> QED
  BY <1>4, <1>5, <1>6, <1>7, <1>8 DEF LogInv

LEMMA RollbackLogKeeps == ASSUME LogInv, Rollback PROVE LogInv'
<1>1. CASE saved = {}
  <2>1. history' = RingOf(beforeNow) /\ log' = log
    BY <1>1 DEF Rollback, LogInv, RingKept
  <2>2. log \in [value : RowsTo(beforeNow), time : 0..MaxTime]
    BY <1>1 DEF Rollback, LogInv, NothingAhead, LogShapes
  <2> QED
    BY <2>1, <2>2, TakenBackKeeps DEF Rollback
<1>2. CASE saved # {}
  <2>1. history' = RingOf(beforeNow) /\ log' = logAtEntry
    BY <1>2 DEF Rollback, LogInv, RingKept
  <2>2. logAtEntry \in [value : RowsTo(beforeNow), time : 0..MaxTime]
    BY <1>2 DEF Rollback, LogInv, NothingAhead, LogShapes, LogEntry
  <2> QED
    BY <2>1, <2>2, TakenBackKeeps DEF Rollback
<1> QED
  BY <1>1, <1>2

LEMMA DiscardKeeps == ASSUME LogInv, Discard PROVE LogInv'
<1>1. saved = {} /\ phase \in {"compute", "failed"}
  BY DEF Discard, LogInv, RingKept
<1>2. history' = RingOf(beforeNow) /\ log' = log
  BY <1>1 DEF Discard, LogInv, RingKept
<1>3. log \in [value : RowsTo(beforeNow), time : 0..MaxTime]
  BY <1>1 DEF LogInv, NothingAhead, LogShapes
<1> QED
  BY <1>1, <1>2, <1>3, TakenBackKeeps DEF Discard

LEMMA LogStutterKeeps == ASSUME LogInv, UNCHANGED vars PROVE LogInv'
<1> USE DEF vars, nodes, frame
<1>1. LogShapes' /\ Finitely' /\ ConsumersCounted' /\ OneTickAhead' /\ RingKept'
  BY DEF LogInv, LogShapes, Finitely, ConsumersCounted, OneTickAhead, RingKept
<1>2. NothingAhead' /\ SourcesBefore' /\ LogRebuilt'
  BY DEF LogInv, NothingAhead, Restored, SourcesBefore, LogRebuilt, DoneUpTo
<1> QED
  BY <1>1, <1>2 DEF LogInv

LEMMA LogStepKeeps == LogInv /\ [Next]_vars => LogInv'
<1> SUFFICES ASSUME LogInv, [Next]_vars PROVE LogInv'
  OBVIOUS
<1>1. CASE UNCHANGED vars
  BY <1>1, LogStutterKeeps
<1>2. CASE Next
  BY <1>2, ReadKeeps, SubscribeLogKeeps, UnsubscribeLogKeeps, RegisterPlainKeeps,
     DisposePlainKeeps, RegisterMetadataKeeps, DisposeMetadataKeeps, BeginLogKeeps,
     RunThrowsKeeps, AdvanceClockKeeps, ComputePlainKeeps, ComputeMetadataKeeps,
     ComputeThrowsLogKeeps, AppendRowKeeps, RecomputeMetadataKeeps,
     CommitMetadataThrowsKeeps, PublishLogKeeps, FinishKeeps, RollbackLogKeeps,
     DiscardKeeps DEF Next
<1> QED
  BY <1>1, <1>2

\* commitLogConsumerCount is the number of subscriptions, metadata nodes and
\* plain readers, in mid-frame too; between frames the ring holds the last Cap
\* commits; and neither the cached entry nor any reader keeps a row of a commit
\* that was taken back: for any nodes and caps, however frames interleave with
\* registrations, reads and disposals, and wherever they throw.
THEOREM LogIsSound == Spec => []LogSound
<1>1. LogInv => LogSound
  <2> SUFFICES ASSUME LogInv PROVE HistoryExact /\ NoPhantomRow
    BY DEF LogInv, LogSound
  <2>1. HistoryExact
    BY DEF HistoryExact, LogInv, RingKept
  <2>2. ToSet(log.value) \subseteq 1..now /\ \A r \in Reader : ToSet(seen[r]) \subseteq 1..now
    BY LogFacts, RowsElements DEF LogInv, LogShapes
  <2> QED
    BY <2>1, <2>2 DEF NoPhantomRow
<1> QED
  BY LogInitHolds, LogStepKeeps, <1>1, PTL DEF Spec

\* When observers run, every metadata node and every subscriber to the log has
\* the ring with the row of this commit, also if a compute of the same frame
\* had rebuilt the entry without it.
THEOREM ConsumersAreTold == Spec => ConsumersSeeTheCommit
<1>1. ASSUME LogInv, Publish PROVE \A r \in Registered \cup subs : seen'[r] = history
  <2> SUFFICES ASSUME NEW r \in Registered \cup subs PROVE seen'[r] = history
    OBVIOUS
  <2>1. r \in Reader
    <3>1. metadata \in Seq(Metadata) /\ subs \subseteq Handle
      BY <1>1 DEF LogInv, LogShapes
    <3>2. Registered \subseteq Metadata
      BY <3>1 DEF Registered, ToSet
    <3> QED
      BY <3>1, <3>2 DEF Reader
  <2>2. subs # {} \/ metadata # <<>>
    <3> SUFFICES ASSUME r \in Registered PROVE metadata # <<>>
      OBVIOUS
    <3>1. PICK i \in DOMAIN metadata : metadata[i] = r
      BY DEF Registered, ToSet
    <3>2. DOMAIN <<>> = {}
      OBVIOUS
    <3> QED
      BY <3>1, <3>2
  <2>3. consumers > 0 /\ log.value = history
    BY <1>1, <2>2, Counts DEF LogInv, LogRebuilt, Publish
  <2>4. CASE r \in subs
    BY <1>1, <2>1, <2>3, <2>4 DEF Publish
  <2>5. CASE r \in Registered
    <3>1. PICK k \in 0..Len(metadata) : DoneUpTo(k)
      BY <1>1 DEF LogInv, LogRebuilt, Publish
    <3>2. PICK i \in 1..Len(metadata) : metadata[i] = r
      BY <2>5 DEF Registered, ToSet, LogInv, LogShapes
    <3>3. Len(queue) = 0 /\ Len(metadata) \in Nat
      BY <1>1 DEF Publish, LogInv, LogShapes
    <3>4. i \in 1..k
      BY <3>1, <3>3 DEF DoneUpTo
    <3>5. seen[r] = history
      BY <3>1, <3>2, <3>4 DEF DoneUpTo
    <3> QED
      BY <1>1, <2>1, <2>3, <3>5 DEF Publish
  <2> QED
    BY <2>4, <2>5
<1>2. LogInv /\ [Next]_vars =>
        [Publish => \A r \in Registered \cup subs : seen'[r] = history]_vars
  BY <1>1
<1> QED
  BY LogInitHolds, LogStepKeeps, <1>2, PTL DEF Spec, ConsumersSeeTheCommit

-----------------------------------------------------------------------------
(* A frame that is taken back.                                             *)

\* The plain readers a rollback goes back to.
RestoredReading ==
  (reading \ DOMAIN undo) \cup {n \in Plain \cap DOMAIN undo : undo[n].reads}

\* Wherever a frame is, what it started from can be told from what it has put
\* aside.
StartIsKnown ==
  phase \in {"compute", "metadata", "failed"} =>
    before = <<beforeNow, RingOf(beforeNow),
               Cardinality(subs) + Len(metadata) + Cardinality(RestoredReading),
               RestoredReading, [r \in Reader |-> Restored(r)]>>

LEMMA RestoredReadingStays ==
  ASSUME LogInv, NEW n, undo' = Recorded(n), reading' \subseteq Plain,
         reading' \ {n} = reading \ {n}
  PROVE  RestoredReading' = RestoredReading
<1>1. DOMAIN undo' = DOMAIN undo \cup {n} /\ \A r \in DOMAIN undo : undo'[r] = undo[r]
  BY RecordedParts
<1>2. n \notin DOMAIN undo => (undo'[n].reads <=> n \in reading)
  BY DEF Recorded
<1>3. reading \subseteq Plain
  BY DEF LogInv, LogShapes
<1>4. ASSUME NEW r PROVE r \in RestoredReading' <=> r \in RestoredReading
  <2>1. CASE r \in DOMAIN undo
    BY <1>1, <2>1 DEF RestoredReading
  <2>2. CASE r \notin DOMAIN undo /\ r = n
    BY <1>1, <1>2, <1>3, <2>2 DEF RestoredReading
  <2>3. CASE r \notin DOMAIN undo /\ r # n
    <3>1. r \in reading' <=> r \in reading
      BY <2>3
    <3> QED
      BY <1>1, <2>3, <3>1 DEF RestoredReading
  <2> QED
    BY <2>1, <2>2, <2>3
<1> QED
  BY <1>4

LEMMA RecordingKeepsStart ==
  ASSUME LogInv, StartIsKnown, phase \in {"compute", "metadata"}, NEW n, undo' = Recorded(n),
         reading' \subseteq Plain, reading' \ {n} = reading \ {n},
         \A r \in Reader \ {n} : seen'[r] = seen[r],
         UNCHANGED <<before, beforeNow, subs, metadata>>
  PROVE  StartIsKnown'
<1>1. RestoredReading' = RestoredReading
  BY RestoredReadingStays
<1>2. \A r \in Reader : Restored(r)' = Restored(r)
  BY RestoredStays
<1>3. [r \in Reader |-> Restored(r)]' = [r \in Reader |-> Restored(r)]
  BY <1>2
<1> QED
  BY <1>1, <1>3 DEF StartIsKnown

\* Where the tx body ends, nothing has been put aside.
LEMMA BodyEndsAtStart ==
  ASSUME LogInv, phase = "run", before' = Kept,
         UNCHANGED <<subs, metadata, beforeNow, undo, reading, seen>>
  PROVE  StartIsKnown'
<1>1. now = beforeNow /\ history = RingOf(beforeNow) /\ DOMAIN undo = {}
  BY DEF LogInv, OneTickAhead, RingKept, NothingAhead
<1>2. RestoredReading' = reading
  BY <1>1 DEF RestoredReading
<1>3. [r \in Reader |-> Restored(r)]' = seen
  BY <1>1 DEF Restored, LogInv, LogShapes
<1>4. consumers = Cardinality(subs) + Len(metadata) + Cardinality(reading)
  BY DEF LogInv, ConsumersCounted
<1> QED
  BY <1>1, <1>2, <1>3, <1>4 DEF StartIsKnown, Kept

LEMMA StartStaysKnown == ASSUME LogInv, StartIsKnown, LogMoves PROVE StartIsKnown'
<1> USE DEF nodes, frame
<1>0. reading \subseteq Plain /\ seen \in [Reader -> RowsTo(now)]
  BY DEF LogInv, LogShapes
<1>1. CASE phase' \notin {"compute", "metadata", "failed"}
  BY <1>1 DEF StartIsKnown
<1>2. CASE AdvanceClock \/ RunThrows
  BY <1>2, BodyEndsAtStart DEF LogMoves, AdvanceClock, RunThrows
<1>3. ASSUME NEW n \in Plain, NEW q \in BOOLEAN, ComputePlain(n, q) PROVE StartIsKnown'
  <2>1. \A r \in Reader \ {n} : seen'[r] = seen[r]
    BY <1>0, <1>3 DEF ComputePlain
  <2>2. reading' \subseteq Plain /\ reading' \ {n} = reading \ {n}
    BY <1>0, <1>3 DEF ComputePlain, SetReads
  <2> QED
    BY <1>3, <2>1, <2>2, RecordingKeepsStart DEF ComputePlain, LogMoves
<1>4. ASSUME NEW m \in Metadata, ComputeMetadata(m) PROVE StartIsKnown'
  <2>1. \A r \in Reader \ {m} : seen'[r] = seen[r]
    BY <1>0, <1>4 DEF ComputeMetadata, Gets
  <2> QED
    BY <1>0, <1>4, <2>1, RecordingKeepsStart DEF ComputeMetadata, LogMoves
<1>5. ASSUME NEW n \in Plain \cup Metadata, ComputeThrows(n) PROVE StartIsKnown'
  BY <1>0, <1>5, RecordingKeepsStart DEF ComputeThrows, LogMoves
<1>6. CASE AppendRow
  BY <1>6 DEF AppendRow, LogMoves, StartIsKnown, RestoredReading, Restored
<1>7. CASE RecomputeCommitMetadata
  <2>1. \A r \in Reader \ {Head(queue)} : seen'[r] = seen[r]
    BY <1>0, <1>7 DEF RecomputeCommitMetadata, Gets
  <2> QED
    BY <1>0, <1>7, <2>1, RecordingKeepsStart DEF RecomputeCommitMetadata, LogMoves
<1>8. CASE CommitMetadataThrows
  BY <1>0, <1>8, RecordingKeepsStart DEF CommitMetadataThrows, LogMoves
<1>9. CASE phase' \in {"compute", "metadata", "failed"}
  <2>1. ~Read /\ ~Publish /\ ~Finish /\ ~Rollback /\ ~Discard
    BY <1>9 DEF Read, Open, Publish, Finish, Rollback, Discard, FrameOver
  <2>2. \A h \in Handle : ~Subscribe(h) /\ ~Unsubscribe(h)
    BY <1>9 DEF Subscribe, Unsubscribe, Open
  <2>3. \A n \in Plain : ~RegisterPlain(n) /\ ~DisposePlain(n)
    BY <1>9 DEF RegisterPlain, DisposePlain, Open
  <2>4. \A m \in Metadata : ~DisposeMetadata(m)
    BY <1>9 DEF DisposeMetadata
  <2>5. \A m \in Metadata, s \in Metadata \cup {Log} : ~RegisterMetadata(m, s)
    BY <1>9 DEF RegisterMetadata, Open
  <2>6. \A m \in {"commit", "simulate"} : ~Begin(m)
    BY <1>9 DEF Begin
  <2>7. Next
    BY DEF LogMoves
  <2> QED
    BY <1>2, <1>3, <1>4, <1>5, <1>6, <1>7, <1>8, <2>1, <2>2, <2>3, <2>4, <2>5, <2>6, <2>7
    DEF Next
<1> QED
  BY <1>1, <1>9

\* What the two arms that take a frame back leave.
LEMMA BackToStart ==
  ASSUME LogInv, StartIsKnown, phase \in {"compute", "failed"}, before' = before,
         RestoreNodes, FrameOver, history' = RingOf(beforeNow)
  PROVE  Kept' = before'
<1>1. reading' = RestoredReading
  BY DEF RestoreNodes, RestoredReading
<1>2. seen' = [r \in Reader |-> Restored(r)]
  BY DEF RestoreNodes, Restored
<1>3. consumers' = Cardinality(subs) + Len(metadata) + Cardinality(RestoredReading)
  <2>1. Cardinality(reading) \in Nat /\ Cardinality(subs) \in Nat /\ Len(metadata) \in Nat
    BY Counts
  <2>2. Cardinality(reading') \in Nat
    <3>1. reading' \subseteq reading \cup DOMAIN undo
      BY DEF RestoreNodes
    <3>2. IsFiniteSet(reading \cup DOMAIN undo)
      BY FS_Union DEF LogInv, Finitely
    <3> QED
      BY <3>1, <3>2, FS_Subset, FS_CardinalityType
  <2>3. /\ consumers = Cardinality(subs) + Len(metadata) + Cardinality(reading)
        /\ consumers' = consumers + Cardinality(reading') - Cardinality(reading)
    BY DEF LogInv, ConsumersCounted, RestoreNodes
  <2>4. consumers' = Cardinality(subs) + Len(metadata) + Cardinality(reading')
    BY <2>1, <2>2, <2>3
  <2> QED
    BY <1>1, <2>4
<1> QED
  BY <1>1, <1>2, <1>3 DEF StartIsKnown, Kept, FrameOver

LEMMA TakenBackToStart ==
  ASSUME LogInv, StartIsKnown, LogMoves, phase \in {"compute", "failed"}, phase' = "idle"
  PROVE  Kept' = before'
<1> USE DEF nodes, frame
<1>1. before' = before
  BY DEF LogMoves
<1>2. Rollback \/ Discard
  <2>1. ~Read /\ ~Publish /\ ~Finish /\ ~RunThrows /\ ~AdvanceClock /\ ~AppendRow
    BY DEF Read, Open, Publish, Finish, RunThrows, AdvanceClock, AppendRow
  <2>2. ~RecomputeCommitMetadata /\ ~CommitMetadataThrows
    BY DEF RecomputeCommitMetadata, CommitMetadataThrows
  <2>3. \A h \in Handle : ~Subscribe(h) /\ ~Unsubscribe(h)
    BY DEF Subscribe, Unsubscribe, Open
  <2>4. \A n \in Plain : ~RegisterPlain(n) /\ ~DisposePlain(n)
    BY DEF RegisterPlain, DisposePlain, Open
  <2>5. \A n \in Plain, q \in BOOLEAN : ~ComputePlain(n, q)
    BY DEF ComputePlain
  <2>6. \A m \in Metadata : ~DisposeMetadata(m) /\ ~ComputeMetadata(m)
    BY DEF DisposeMetadata, ComputeMetadata
  <2>7. \A m \in Metadata, s \in Metadata \cup {Log} : ~RegisterMetadata(m, s)
    BY DEF RegisterMetadata, Open
  <2>8. \A m \in {"commit", "simulate"} : ~Begin(m)
    BY DEF Begin
  <2>9. \A n \in Plain \cup Metadata : ~ComputeThrows(n)
    BY DEF ComputeThrows
  <2> QED
    BY <2>1, <2>2, <2>3, <2>4, <2>5, <2>6, <2>7, <2>8, <2>9 DEF LogMoves, Next
<1>3. history' = RingOf(beforeNow)
  BY <1>2 DEF Rollback, Discard, LogInv, RingKept
<1> QED
  BY <1>1, <1>2, <1>3, BackToStart DEF Rollback, Discard

-----------------------------------------------------------------------------
(* Together: each part of the history behaves as it does alone.            *)

LEMMA LogAlone == HistorySpec => Spec
<1>1. HistoryInit => Init
  BY DEF HistoryInit
<1>2. [HistoryNext]_graphVars => [Next]_vars
  BY DEF HistoryNext, OthersStay, LogMoves, graphVars
<1> QED
  BY <1>1, <1>2, PTL DEF HistorySpec, Spec

LEMMA RowsAlone == HistorySpec => RetentionSpec
<1>1. HistoryInit => RetentionInit
  BY DEF HistoryInit
<1>2. [HistoryNext]_graphVars => [RetentionNext]_retentionVars
  BY DEF HistoryNext, OthersStay, graphVars
<1> QED
  BY <1>1, <1>2, PTL DEF HistorySpec, RetentionSpec

LEMMA StartKeeps ==
  LogInv /\ StartIsKnown /\ [HistoryNext]_graphVars => StartIsKnown'
<1> SUFFICES ASSUME LogInv, StartIsKnown, [HistoryNext]_graphVars PROVE StartIsKnown'
  OBVIOUS
<1>1. LogMoves \/ UNCHANGED <<vars, before>>
  BY DEF HistoryNext, OthersStay, graphVars
<1>2. CASE UNCHANGED <<vars, before>>
  BY <1>2 DEF vars, nodes, frame, StartIsKnown, RestoredReading, Restored
<1> QED
  BY <1>1, <1>2, StartStaysKnown

LEMMA NoTraceLeft ==
  LogInv /\ StartIsKnown /\ [HistoryNext]_graphVars
    => [phase' = "idle" /\ phase \in {"compute", "failed"} => Kept' = before']_graphVars
<1> SUFFICES ASSUME LogInv, StartIsKnown, [HistoryNext]_graphVars, phase' = "idle",
                    phase \in {"compute", "failed"}
             PROVE  Kept' = before'
  OBVIOUS
<1>1. LogMoves \/ UNCHANGED <<vars, before>>
  BY DEF HistoryNext, OthersStay, graphVars
<1>2. ~UNCHANGED <<vars, before>>
  BY DEF vars
<1> QED
  BY <1>1, <1>2, TakenBackToStart

\* A frame that is taken back, by the catch arm of commit or the finally arm of
\* simulate, wherever it threw, leaves the clock, the ring, the consumer count,
\* the dependency sets and the values as the tx body left them; and what readAt
\* answers about a tick stays the same as long as it is answered.
THEOREM PastKept == HistorySpec => PastIsKept
<1>1. HistoryInit => Init /\ StartIsKnown
  BY DEF HistoryInit, Init, StartIsKnown
<1>2. [HistoryNext]_graphVars => [Next]_vars
  BY DEF HistoryNext, OthersStay, LogMoves, graphVars
<1> QED
  BY <1>1, <1>2, LogInitHolds, LogStepKeeps, StartKeeps, NoTraceLeft, RowsAlone, PastStays,
     PTL DEF HistorySpec, PastIsKept, FrameLeavesNoTrace

-----------------------------------------------------------------------------
(* Snapshots and the memo they consult.                                    *)

\* An input with no undo row is remembered as it is, unless its last answer
\* was given between a direct write and the one that undid it.  Only a frame
\* has rows: undo rows of the inputs without dependents, staged ones of the
\* others.
SnapInv ==
  /\ SnapTypeOK
  /\ running = "none" => DOMAIN priors = {} /\ DOMAIN pending = {}
  /\ DOMAIN priors \subseteq DOMAIN stored \ Staged
  /\ DOMAIN pending \subseteq DOMAIN stored \cap Staged
  /\ \A i \in DOMAIN memo \ (misled \cup DOMAIN priors) : memo[i] = Serialisable(stored[i])

LEMMA StoresAre ==
  /\ \A f \in Stores : DOMAIN f \subseteq Source /\ f \in [DOMAIN f -> Content]
  /\ \A D \in SUBSET Source : \A f \in [D -> Content] : f \in Stores /\ DOMAIN f = D
BY DEF Stores

LEMMA WithoutIs ==
  ASSUME NEW f, NEW S
  PROVE  /\ DOMAIN Without(f, S) = DOMAIN f \ S
         /\ \A i \in DOMAIN f \ S : Without(f, S)[i] = f[i]
         /\ f \in Stores => Without(f, S) \in Stores
<1>1. /\ DOMAIN Without(f, S) = DOMAIN f \ S
      /\ \A i \in DOMAIN f \ S : Without(f, S)[i] = f[i]
  BY DEF Without
<1>2. ASSUME f \in Stores PROVE Without(f, S) \in Stores
  <2>1. DOMAIN f \subseteq Source /\ f \in [DOMAIN f -> Content]
    BY <1>2, StoresAre
  <2>2. Without(f, S) \in [DOMAIN f \ S -> Content]
    BY <2>1 DEF Without
  <2> QED BY <2>1, <2>2, StoresAre
<1> QED BY <1>1, <1>2

LEMMA PutIs ==
  ASSUME NEW f, NEW i, NEW v
  PROVE  /\ DOMAIN Put(f, i, v) = DOMAIN f \cup {i}
         /\ Put(f, i, v)[i] = v
         /\ \A k \in DOMAIN f \ {i} : Put(f, i, v)[k] = f[k]
         /\ f \in Stores /\ i \in Source /\ v \in Content => Put(f, i, v) \in Stores
<1>1. /\ DOMAIN Put(f, i, v) = DOMAIN f \cup {i}
      /\ Put(f, i, v)[i] = v
      /\ \A k \in DOMAIN f \ {i} : Put(f, i, v)[k] = f[k]
  BY DEF Put
<1>2. ASSUME f \in Stores, i \in Source, v \in Content PROVE Put(f, i, v) \in Stores
  <2>1. DOMAIN f \subseteq Source /\ f \in [DOMAIN f -> Content]
    BY <1>2, StoresAre
  <2>2. Put(f, i, v) \in [DOMAIN f \cup {i} -> Content]
    BY <1>2, <2>1 DEF Put
  <2> QED BY <1>2, <2>1, <2>2, StoresAre
<1> QED BY <1>1, <1>2

LEMMA PatchedIs ==
  ASSUME NEW f, NEW g
  PROVE  /\ DOMAIN Patched(f, g) = DOMAIN f \cup DOMAIN g
         /\ \A i \in DOMAIN g : Patched(f, g)[i] = g[i]
         /\ \A i \in DOMAIN f \ DOMAIN g : Patched(f, g)[i] = f[i]
         /\ f \in Stores /\ g \in Stores => Patched(f, g) \in Stores
<1>1. /\ DOMAIN Patched(f, g) = DOMAIN f \cup DOMAIN g
      /\ \A i \in DOMAIN g : Patched(f, g)[i] = g[i]
      /\ \A i \in DOMAIN f \ DOMAIN g : Patched(f, g)[i] = f[i]
  BY DEF Patched
<1>2. ASSUME f \in Stores, g \in Stores PROVE Patched(f, g) \in Stores
  <2>1. /\ DOMAIN f \subseteq Source /\ f \in [DOMAIN f -> Content]
        /\ DOMAIN g \subseteq Source /\ g \in [DOMAIN g -> Content]
    BY <1>2, StoresAre
  <2>2. Patched(f, g) \in [DOMAIN f \cup DOMAIN g -> Content]
    BY <2>1 DEF Patched
  <2> QED BY <2>1, <2>2, StoresAre
<1> QED BY <1>1, <1>2

\* Nothing has been saved or asked for.
LEMMA SnapInitHolds == SnapInit => SnapInv
<1> SUFFICES ASSUME SnapInit PROVE SnapInv
  OBVIOUS
<1>1. Nothing \in Stores /\ DOMAIN Nothing = {}
  <2>1. Nothing \in [{} -> Content] /\ DOMAIN Nothing = {}
    BY DEF Nothing
  <2> QED BY <2>1, StoresAre
<1>2. [inputs |-> Nothing, schemaHash |-> {}] \in Snapshot
  BY <1>1 DEF Snapshot
<1> QED BY <1>1, <1>2 DEF SnapInit, SnapInv, SnapTypeOK

\* The end of a frame.  Every undo row is either one whose answer is forgotten
\* or one whose cell is back where it was.
LEMMA EndFrameKeeps ==
  ASSUME SnapInv, NEW cells \in Stores, NEW forgotten, EndFrame(cells, forgotten),
         DOMAIN cells = DOMAIN stored,
         \A i \in DOMAIN priors \ forgotten : i \in Reverted /\ cells[i] = priors[i],
         \A i \in DOMAIN stored \ (DOMAIN priors \cup forgotten) : cells[i] = stored[i]
  PROVE  SnapInv'
<1>1. DOMAIN memo' = DOMAIN memo \ forgotten /\ \A i \in DOMAIN memo' : memo'[i] = memo[i]
  <2>1. /\ DOMAIN Without(memo, forgotten) = DOMAIN memo \ forgotten
        /\ \A i \in DOMAIN memo \ forgotten : Without(memo, forgotten)[i] = memo[i]
    BY WithoutIs
  <2> QED BY <2>1 DEF EndFrame
<1>2. DOMAIN priors' = {} /\ DOMAIN pending' = {} /\ priors' \in Stores /\ pending' \in Stores
  <2>1. Nothing \in [{} -> Content] /\ DOMAIN Nothing = {}
    BY DEF Nothing
  <2> QED BY <2>1, StoresAre DEF EndFrame
<1>3. misled' = (misled \cup {i \in Reverted \cap DOMAIN memo :
                                memo[i] # Serialisable(priors[i])}) \ forgotten
  BY DEF EndFrame
<1>4. SnapTypeOK'
  <2>1. misled' \subseteq DOMAIN stored'
    BY <1>3 DEF EndFrame, SnapInv, SnapTypeOK
  <2> QED BY <1>1, <1>2, <2>1 DEF EndFrame, SnapInv, SnapTypeOK
<1>5. ASSUME NEW i \in DOMAIN memo' \ (misled' \cup DOMAIN priors')
      PROVE  memo'[i] = Serialisable(stored'[i])
  <2>1. i \in DOMAIN memo \ forgotten /\ i \in DOMAIN stored /\ i \notin misled
        /\ memo'[i] = memo[i]
    BY <1>1, <1>3, <1>5 DEF SnapInv, SnapTypeOK
  <2>2. CASE i \in DOMAIN priors
    <3>1. i \in Reverted /\ cells[i] = priors[i]
      BY <2>1, <2>2
    <3>2. memo[i] = Serialisable(priors[i])
      BY <1>3, <1>5, <2>1, <3>1
    <3> QED BY <2>1, <3>1, <3>2 DEF EndFrame
  <2>3. CASE i \notin DOMAIN priors
    <3>1. memo[i] = Serialisable(stored[i])
      BY <2>1, <2>3 DEF SnapInv
    <3> QED BY <2>1, <2>3, <3>1 DEF EndFrame
  <2> QED BY <2>2, <2>3

<1> QED BY <1>2, <1>4, <1>5 DEF SnapInv, Serialisable

LEMMA SnapStepKeeps == SnapInv /\ [SnapNext]_snapVars => SnapInv'
<1> SUFFICES ASSUME SnapInv, [SnapNext]_snapVars PROVE SnapInv'
  OBVIOUS
<1> USE DEF Serialisable
<1>0. /\ stored \in Stores /\ priors \in Stores /\ pending \in Stores
      /\ DOMAIN stored \subseteq Source
  BY StoresAre DEF SnapInv, SnapTypeOK
<1>1. ASSUME NEW i \in Source, NEW v \in Content, AddInput(i, v) PROVE SnapInv'
  <2>1. /\ DOMAIN stored' = DOMAIN stored \cup {i} /\ stored' \in Stores
        /\ \A j \in DOMAIN stored : stored'[j] = stored[j]
    <3>1. /\ DOMAIN Put(stored, i, v) = DOMAIN stored \cup {i}
          /\ \A j \in DOMAIN stored \ {i} : Put(stored, i, v)[j] = stored[j]
      BY DEF Put
    <3>2. Put(stored, i, v) \in Stores
      <4>1. stored \in Stores /\ i \in Source /\ v \in Content
        BY <1>0, <1>1
      <4> QED BY <4>1, PutIs
    <3> QED BY <1>1, <3>1, <3>2 DEF AddInput
  <2>2. SnapTypeOK'
    BY <1>1, <2>1 DEF AddInput, SnapInv, SnapTypeOK
  <2>3. ASSUME NEW j \in DOMAIN memo \ misled PROVE memo'[j] = Serialisable(stored'[j])
    BY <1>1, <2>1, <2>3 DEF AddInput, SnapInv, SnapTypeOK
  <2> QED BY <1>1, <2>1, <2>2, <2>3 DEF AddInput, SnapInv
<1>2. ASSUME NEW i \in Source, NEW v \in Content, WriteDirect(i, v) PROVE SnapInv'
  <2>1. DOMAIN Put(priors, i, stored[i]) = DOMAIN priors \cup {i}
        /\ Put(priors, i, stored[i]) \in Stores
    <3>1. stored[i] \in Content
      BY <1>0, <1>2, StoresAre DEF WriteDirect
    <3> QED BY <1>0, <3>1, PutIs
  <2>2. DOMAIN priors' = DOMAIN priors \cup {i} /\ priors' \in Stores
    <3> DEFINE first == Put(priors, i, stored[i])
    <3> HIDE DEF first
    <3>1. DOMAIN first = DOMAIN priors \cup {i} /\ first \in Stores
      BY <2>1 DEF first
    <3>2. /\ DOMAIN Patched(first, priors) = DOMAIN first \cup DOMAIN priors
          /\ Patched(first, priors) \in Stores
      BY <1>0, <3>1, PatchedIs
    <3>3. priors' = Patched(first, priors)
      BY <1>2 DEF WriteDirect, first
    <3> QED BY <3>1, <3>2, <3>3
  <2>3. /\ DOMAIN stored' = DOMAIN stored /\ stored' \in Stores
        /\ \A j \in DOMAIN stored \ {i} : stored'[j] = stored[j]
    BY <1>0, <1>2, StoresAre DEF WriteDirect
  <2>4. SnapTypeOK'
    BY <1>2, <2>2, <2>3 DEF WriteDirect, SnapInv, SnapTypeOK
  <2>5. ASSUME NEW j \in DOMAIN memo \ (misled \cup DOMAIN priors')
        PROVE  memo'[j] = Serialisable(stored'[j])
    BY <1>2, <2>2, <2>3, <2>5 DEF WriteDirect, SnapInv, SnapTypeOK
  <2> QED BY <1>2, <2>2, <2>3, <2>4, <2>5 DEF WriteDirect, SnapInv
<1>3. ASSUME NEW i \in Source, NEW v \in Content, WriteStaged(i, v) PROVE SnapInv'
  <2>1. DOMAIN pending' = DOMAIN pending \cup {i} /\ pending' \in Stores
    BY <1>0, <1>3, PutIs DEF WriteStaged
  <2> QED BY <1>3, <2>1 DEF WriteStaged, SnapInv, SnapTypeOK
<1>4. ASSUME NEW i \in Source, DropInput(i) PROVE SnapInv'
  <2>1. /\ DOMAIN stored' = DOMAIN stored \ {i} /\ stored' \in Stores
        /\ \A j \in DOMAIN stored' : stored'[j] = stored[j]
    <3>1. /\ DOMAIN Without(stored, {i}) = DOMAIN stored \ {i}
          /\ \A j \in DOMAIN stored \ {i} : Without(stored, {i})[j] = stored[j]
          /\ Without(stored, {i}) \in Stores
      BY <1>0, WithoutIs
    <3> QED BY <1>4, <3>1 DEF DropInput
  <2>2. DOMAIN memo' = DOMAIN memo \ {i} /\ \A j \in DOMAIN memo' : memo'[j] = memo[j]
    <3>1. /\ DOMAIN Without(memo, {i}) = DOMAIN memo \ {i}
          /\ \A j \in DOMAIN memo \ {i} : Without(memo, {i})[j] = memo[j]
      BY WithoutIs
    <3> QED BY <1>4, <3>1 DEF DropInput
  <2>3. SnapTypeOK'
    BY <1>4, <2>1, <2>2 DEF DropInput, SnapInv, SnapTypeOK
  <2>4. ASSUME NEW j \in DOMAIN memo' \ misled' PROVE memo'[j] = Serialisable(stored'[j])
    BY <1>4, <2>1, <2>2, <2>4 DEF DropInput, SnapInv, SnapTypeOK
  <2> QED BY <1>4, <2>1, <2>2, <2>3, <2>4 DEF DropInput, SnapInv
<1>5. ASSUME NEW d \in Formulas, ToggleFormula(d) PROVE SnapInv'
  BY <1>5 DEF ToggleFormula, SnapInv, SnapTypeOK
<1>6. ASSUME NEW kind \in {"commit", "simulate"}, OpenFrame(kind) PROVE SnapInv'
  BY <1>6 DEF OpenFrame, SnapInv, SnapTypeOK
<1>7. CASE Save
  <2>1. snap' \in Snapshot
    <3> DEFINE carried == {j \in DOMAIN stored : IsKept(j)}
    <3>1. Taken.inputs \in [carried -> Content] /\ carried \in SUBSET Source
      BY <1>0, StoresAre DEF Taken
    <3>2. Taken.schemaHash \in SUBSET (Source \cup Formulas)
      BY <1>0 DEF Taken, SchemaHash, SnapInv, SnapTypeOK
    <3>3. Taken.inputs \in Stores
      BY <3>1, StoresAre
    <3> QED BY <1>7, <3>2, <3>3 DEF Save, Taken, Snapshot
  <2>2. DOMAIN memo' = DOMAIN stored /\ \A i \in DOMAIN stored : memo'[i] = IsKept(i)
    BY <1>7 DEF Save
  <2>3. \A i \in DOMAIN stored : IsKept(i) \in BOOLEAN
    BY DEF IsKept, SnapInv, SnapTypeOK
  <2>4. SnapTypeOK'
    BY <1>7, <2>1, <2>2, <2>3 DEF Save, SnapInv, SnapTypeOK
  <2>5. \A i \in DOMAIN stored \ (misled \cup DOMAIN priors) : IsKept(i) = Serialisable(stored[i])
    BY DEF IsKept, SnapInv
  <2> QED BY <1>7, <2>2, <2>4, <2>5 DEF Save, SnapInv
<1>8. CASE BodyThrows
  <2>1. /\ DOMAIN Patched(stored, priors) = DOMAIN stored /\ Patched(stored, priors) \in Stores
        /\ \A i \in DOMAIN stored \ DOMAIN priors : Patched(stored, priors)[i] = stored[i]
    BY <1>0, PatchedIs DEF SnapInv
  <2>2. EndFrame(Patched(stored, priors), DOMAIN priors)
    BY <1>8 DEF BodyThrows
  <2> QED BY <2>1, <2>2, EndFrameKeeps
<1>9. CASE FrameCommits
  <2> DEFINE late == [i \in Applied |-> pending[i]]
  <2>1. Applied \subseteq DOMAIN pending /\ Applied \subseteq DOMAIN stored \cap Staged
    BY DEF Applied, SnapInv
  <2>2. late \in Stores /\ DOMAIN late = Applied
    <3>1. Applied \in SUBSET Source /\ late \in [Applied -> Content]
      BY <1>0, <2>1, StoresAre
    <3> QED BY <3>1, StoresAre
  <2> HIDE DEF late
  <2>3. /\ DOMAIN Patched(stored, late) = DOMAIN stored /\ Patched(stored, late) \in Stores
        /\ \A i \in DOMAIN stored \ Applied : Patched(stored, late)[i] = stored[i]
    BY <1>0, <2>1, <2>2, PatchedIs
  <2>4. EndFrame(Patched(stored, late), Forgotten)
    BY <1>9 DEF FrameCommits, late
  <2>5. \A i \in DOMAIN priors \ Forgotten :
          i \in Reverted /\ Patched(stored, late)[i] = priors[i]
    BY <2>1, <2>3 DEF Forgotten, Altered, Reverted, SnapInv
  <2>6. \A i \in DOMAIN stored \ (DOMAIN priors \cup Forgotten) :
          Patched(stored, late)[i] = stored[i]
    BY <2>3 DEF Forgotten, Altered
  <2> QED BY <2>3, <2>4, <2>5, <2>6, EndFrameKeeps
<1>10. CASE FrameTakenBack
  <2>1. /\ DOMAIN Patched(stored, priors) = DOMAIN stored /\ Patched(stored, priors) \in Stores
        /\ \A i \in DOMAIN stored \ DOMAIN priors : Patched(stored, priors)[i] = stored[i]
        /\ \A i \in DOMAIN priors : Patched(stored, priors)[i] = priors[i]
    BY <1>0, PatchedIs DEF SnapInv
  <2>2. PICK undone \in {Forgotten \ Staged, Forgotten} : EndFrame(Patched(stored, priors), undone)
    BY <1>10 DEF FrameTakenBack
  <2>3. \A i \in DOMAIN priors \ undone : i \in Reverted
    BY DEF Forgotten, Altered, SnapInv
  <2> QED BY <2>1, <2>2, <2>3, EndFrameKeeps
<1>11. CASE Hydrate
  <2> DEFINE both    == DOMAIN stored \cap DOMAIN snap.inputs
             taken   == [i \in both |-> snap.inputs[i]]
             altered == {i \in DOMAIN stored : stored'[i] # stored[i]}
  <2>1. taken \in Stores /\ DOMAIN taken = both
    <3>1. snap.inputs \in Stores
      BY DEF SnapInv, SnapTypeOK, Snapshot
    <3>2. both \in SUBSET Source /\ taken \in [both -> Content]
      BY <1>0, <3>1, StoresAre
    <3> QED BY <3>2, StoresAre
  <2>2. stored' = Patched(stored, taken)
    BY <1>11 DEF Hydrate
  <2>3. memo' = Without(memo, altered) /\ misled' = misled \ altered
    BY <1>11 DEF Hydrate
  <2>4. DOMAIN stored' = DOMAIN stored /\ stored' \in Stores
    <3> HIDE DEF taken
    <3>1. /\ DOMAIN Patched(stored, taken) = DOMAIN stored \cup DOMAIN taken
          /\ Patched(stored, taken) \in Stores
      BY <1>0, <2>1, PatchedIs
    <3> QED BY <2>1, <2>2, <3>1
  <2>5. DOMAIN memo' = DOMAIN memo \ altered /\ \A i \in DOMAIN memo' : memo'[i] = memo[i]
    <3> HIDE DEF altered
    <3>1. /\ DOMAIN Without(memo, altered) = DOMAIN memo \ altered
          /\ \A i \in DOMAIN memo \ altered : Without(memo, altered)[i] = memo[i]
      BY WithoutIs
    <3> QED BY <2>3, <3>1
  <2>6. SnapTypeOK'
    BY <1>11, <2>3, <2>4, <2>5 DEF Hydrate, SnapInv, SnapTypeOK
  <2> QED BY <1>11, <2>3, <2>4, <2>5, <2>6 DEF Hydrate, SnapInv, SnapTypeOK
<1>12. CASE UNCHANGED snapVars
  BY <1>12 DEF snapVars, SnapInv, SnapTypeOK, IsKept
<1> QED BY <1>1, <1>2, <1>3, <1>4, <1>5, <1>6, <1>7, <1>8, <1>9, <1>10, <1>11, <1>12
        DEF SnapNext

\* What is remembered decides what is taken.
LEMMA MemoMakesExact == SnapInv => SnapshotsSound
<1> SUFFICES ASSUME SnapInv PROVE SnapshotsSound
  OBVIOUS
<1>1. MemoIsTrue
  BY DEF MemoIsTrue, SnapInv
<1>2. \A i \in DOMAIN stored : /\ i \in DOMAIN Taken.inputs <=> IsKept(i)
                               /\ i \in DOMAIN Taken.inputs => Taken.inputs[i] = stored[i]
  BY DEF Taken
<1>3. running = "none" => \A i \in DOMAIN stored \ misled : IsKept(i) = Serialisable(stored[i])
  BY <1>1 DEF IsKept, MemoIsTrue
<1>4. SnapshotIsExact
  <2> SUFFICES ASSUME running = "none", NEW i \in DOMAIN stored \ misled
               PROVE  /\ (i \in DOMAIN Taken.inputs) = Serialisable(stored[i])
                      /\ i \in DOMAIN Taken.inputs => Taken.inputs[i] = stored[i]
    BY DEF SnapshotIsExact
  <2>1. IsKept(i) <=> Serialisable(stored[i])
    BY <1>3 DEF Serialisable
  <2>2. i \in DOMAIN Taken.inputs <=> IsKept(i)
    BY <1>2
  <2>3. (i \in DOMAIN Taken.inputs) = Serialisable(stored[i])
    BY <2>1, <2>2 DEF Serialisable
  <2> QED BY <1>2, <2>3
<1> QED BY <1>1, <1>4 DEF SnapshotsSound

\* SnapshotsSound of MCHistory, for any inputs and values: between frames a
\* snapshot has every input that can be carried, as it is, and no other, but
\* for one asked for in the middle of a tx body that took its write back.
THEOREM SnapshotsExact == SnapSpec => []SnapshotsSound
<1>1. SnapInv => SnapshotsSound
  BY MemoMakesExact
<1> QED BY SnapInitHolds, SnapStepKeeps, <1>1, PTL DEF SnapSpec

-----------------------------------------------------------------------------
(* The reads the graph watches.                                            *)

\* The count of the adapters is that of the calls that are open, so a read that
\* is not exempt has entered the ring; it leaves it warned of or dead.
HeldInv ==
  /\ HeldTypeOK /\ depth = nested /\ Len(reads) <= MaxReads
  /\ \A n \in DOMAIN reads :
       n \in ring \/ warned[n] = 1 \/ reads[n].exempt \/ reads[n].ref \in collected
  /\ \A n \in 1..MaxReads : warned[n] = 0 \/ (warned[n] = 1 /\ n \in DOMAIN reads \ ring)
  /\ \A n \in DOMAIN reads : n \in ring \/ warned[n] = 1 => ~reads[n].exempt
  /\ \A n \in ring : reads[n].at >= checked

LEMMA HeldBounds == MaxReads \in Nat /\ MaxDepth \in Nat /\ MaxHour \in Nat
BY HeldBoundsAssumption

LEMMA HeldInitHolds == HeldInit => HeldInv
<1> SUFFICES ASSUME HeldInit PROVE HeldInv
  OBVIOUS
<1>1. DOMAIN reads = {} /\ Len(reads) = 0 /\ reads \in Seq([ref : Thing, at : 0..MaxHour, exempt : BOOLEAN])
  BY DEF HeldInit
<1>2. warned \in [1..MaxReads -> 0..MaxHour] /\ \A n \in 1..MaxReads : warned[n] = 0
  BY HeldBounds DEF HeldInit
<1>3. HeldTypeOK
  BY <1>1, <1>2, HeldBounds DEF HeldInit, HeldTypeOK
<1> QED BY <1>1, <1>2, <1>3, HeldBounds DEF HeldInit, HeldInv

HeldRead == [ref : Thing, at : 0..MaxHour, exempt : BOOLEAN]

LEMMA ReadsAre ==
  ASSUME HeldInv
  PROVE  reads \in Seq(HeldRead) /\ Len(reads) \in Nat /\ DOMAIN reads = 1..Len(reads)
BY DEF HeldInv, HeldTypeOK, HeldRead

LEMMA HandOutKeeps ==
  ASSUME HeldInv, NEW at \in {hour, hour + 1}, HandOut(at)
  PROVE  HeldInv'
<1> DEFINE new == [ref |-> shown, at |-> at, exempt |-> nested > 0]
           last == Len(reads) + 1
<1>1. reads \in Seq(HeldRead) /\ Len(reads) \in Nat /\ DOMAIN reads = 1..Len(reads)
  BY ReadsAre
<1>2. hour \in 0..MaxHour /\ checked \in 0..hour /\ at \in 0..MaxHour /\ at >= checked
  BY HeldBounds DEF HeldInv, HeldTypeOK, HandOut
<1>3. new \in HeldRead
  BY <1>2 DEF HeldInv, HeldTypeOK, HeldRead
<1>4. /\ reads' \in Seq(HeldRead) /\ Len(reads') = last /\ DOMAIN reads' = 1..last
      /\ \A n \in DOMAIN reads : reads'[n] = reads[n]
      /\ reads'[last] = new
  <2>1. reads' = Append(reads, new)
    BY DEF HandOut
  <2> HIDE DEF new
  <2> QED BY <1>1, <1>3, <2>1, AppendProperties
<1>5. last \in 1..MaxReads /\ DOMAIN reads' = DOMAIN reads \cup {last} /\ last \notin DOMAIN reads
  BY <1>1, <1>4, HeldBounds DEF HandOut
<1>6. ring \subseteq DOMAIN reads /\ nested \in Nat /\ depth = nested
      /\ warned \in [1..MaxReads -> 0..MaxHour] /\ warned' = warned
  BY HeldBounds DEF HeldInv, HeldTypeOK, HandOut
<1> HIDE DEF last
<1>7. /\ ring' \subseteq ring \cup {last} /\ (depth # 0 => last \notin ring')
      /\ depth = 0 => \A n \in ring \cup {last} : n \in ring' \/ reads'[n].ref \in collected
      /\ depth # 0 => ring' = ring
  <2>1. CASE depth = 0
    <3>1. ring' = Prune(ring \cup {last})
      BY <1>4, <2>1 DEF HandOut
    <3> QED BY <2>1, <3>1 DEF Prune, Derefs
  <2>2. CASE depth # 0
    BY <1>5, <1>6, <2>2 DEF HandOut
  <2> QED BY <2>1, <2>2
<1>8. HeldTypeOK' /\ depth' = nested' /\ Len(reads') <= MaxReads
  <2>1. ring' \subseteq DOMAIN reads'
    BY <1>5, <1>6, <1>7
  <2>2. kept' \subseteq Thing
    BY DEF HandOut, HeldInv, HeldTypeOK
  <2>3. Len(reads') <= MaxReads
    BY <1>4, <1>5, HeldBounds
  <2> QED BY <1>4, <1>6, <2>1, <2>2, <2>3 DEF HandOut, HeldInv, HeldTypeOK, HeldRead
<1>9. warned[last] = 0
  BY <1>5, HeldBounds DEF HeldInv
<1>10. ASSUME NEW n \in DOMAIN reads'
       PROVE  /\ n \in ring' \/ warned'[n] = 1 \/ reads'[n].exempt \/ reads'[n].ref \in collected'
              /\ n \in ring' \/ warned'[n] = 1 => ~reads'[n].exempt
              /\ n \in ring' => reads'[n].at >= checked'
  <2>0. collected' = collected /\ checked' = checked
    BY DEF HandOut
  <2>1. CASE n \in DOMAIN reads
    <3>1. /\ n \in ring \/ warned[n] = 1 \/ reads[n].exempt \/ reads[n].ref \in collected
          /\ n \in ring \/ warned[n] = 1 => ~reads[n].exempt
          /\ n \in ring => reads[n].at >= checked
          /\ reads'[n] = reads[n] /\ n # last
      BY <1>4, <1>5, <2>1 DEF HeldInv
    <3> QED BY <1>6, <1>7, <2>0, <3>1
  <2>2. CASE n = last
    <3>1. reads'[n] = new /\ reads'[n].at = at
      BY <1>4, <2>2
    <3>2. ASSUME depth = 0 PROVE ~reads'[n].exempt
      <4>1. (nested > 0) = FALSE
        BY <1>6, <3>2
      <4>2. new.exempt = FALSE
        BY <4>1, Zenon
      <4> QED BY <3>1, <4>2
    <3>3. ASSUME depth # 0 PROVE reads'[n].exempt
      <4>1. (nested > 0) = TRUE
        BY <1>6, <3>3
      <4>2. new.exempt = TRUE
        BY <4>1, Zenon
      <4> QED BY <3>1, <4>2
    <3> QED BY <1>2, <1>6, <1>7, <1>9, <2>0, <2>2, <3>1, <3>2, <3>3
  <2> QED BY <1>5, <2>1, <2>2
<1>11. ASSUME NEW n \in 1..MaxReads
       PROVE  warned'[n] = 0 \/ (warned'[n] = 1 /\ n \in DOMAIN reads' \ ring')
  BY <1>5, <1>6, <1>7, <1>9 DEF HeldInv
<1>12. ring' \subseteq DOMAIN reads'
  BY <1>8 DEF HeldTypeOK
<1> QED BY <1>8, <1>10, <1>11, <1>12 DEF HeldInv

LEMMA CommitChecksKeeps ==
  ASSUME HeldInv, NEW o \in Thing, CommitChecks(o)
  PROVE  HeldInv'
<1>1. reads \in Seq(HeldRead) /\ Len(reads) \in Nat /\ DOMAIN reads = 1..Len(reads)
  BY ReadsAre
<1>2. hour \in 0..MaxHour /\ hour' \in 0..MaxHour /\ hour' = hour + 1 /\ checked' = hour'
      /\ checked \in 0..hour /\ checked' \in 0..hour'
  BY HeldBounds DEF HeldInv, HeldTypeOK, CommitChecks
<1>3. ring \subseteq DOMAIN reads /\ warned \in [1..MaxReads -> 0..MaxHour]
      /\ DOMAIN reads \subseteq 1..MaxReads
  BY <1>1, HeldBounds DEF HeldInv, HeldTypeOK
<1>4. reads' = reads /\ collected' = collected
      /\ ring' = {n \in ring : Derefs(n) /\ ~Due(n)}
      /\ DOMAIN warned' = 1..MaxReads
      /\ \A n \in 1..MaxReads :
           warned'[n] = IF n \in ring /\ Due(n) THEN warned[n] + 1 ELSE warned[n]
  BY <1>3 DEF CommitChecks
<1>5. ASSUME NEW n \in 1..MaxReads
      PROVE  /\ warned'[n] = 0 \/ (warned'[n] = 1 /\ n \in DOMAIN reads' \ ring')
             /\ warned'[n] \in 0..MaxHour
             /\ warned'[n] = 1 <=> warned[n] = 1 \/ (n \in ring /\ Due(n))
  <2>1. warned[n] = 0 \/ (warned[n] = 1 /\ n \in DOMAIN reads \ ring)
    BY DEF HeldInv
  <2>2. CASE n \in ring /\ Due(n)
    <3>1. warned[n] = 0 /\ warned'[n] = 1 /\ n \notin ring'
      BY <1>4, <2>1, <2>2
    <3> QED BY <1>2, <1>3, <1>4, <2>2, <3>1, HeldBounds
  <2>3. CASE ~(n \in ring /\ Due(n))
    <3>1. warned'[n] = warned[n] /\ ring' \subseteq ring
      BY <1>4, <2>3
    <3> QED BY <1>2, <1>4, <2>1, <2>3, <3>1, HeldBounds
  <2> QED BY <2>2, <2>3
<1>6. HeldTypeOK' /\ depth' = nested' /\ Len(reads') <= MaxReads
  <2>1. warned' \in [1..MaxReads -> 0..MaxHour]
    <3>1. \A n \in 1..MaxReads : warned'[n] \in 0..MaxHour
      BY <1>5
    <3>2. warned' = [n \in 1..MaxReads |-> warned'[n]]
      BY <1>3 DEF CommitChecks
    <3> QED BY <3>1, <3>2
  <2>2. ring' \subseteq DOMAIN reads'
    BY <1>3, <1>4
  <2> QED BY <1>2, <1>4, <2>1, <2>2 DEF CommitChecks, HeldInv, HeldTypeOK
<1>7. ASSUME NEW n \in DOMAIN reads'
      PROVE  /\ n \in ring' \/ warned'[n] = 1 \/ reads'[n].exempt \/ reads'[n].ref \in collected'
             /\ n \in ring' \/ warned'[n] = 1 => ~reads'[n].exempt
             /\ n \in ring' => reads'[n].at >= checked'
  <2>1. n \in DOMAIN reads /\ n \in 1..MaxReads /\ reads[n].at \in Nat
    <3>1. n \in DOMAIN reads /\ n \in 1..MaxReads /\ reads[n] \in HeldRead
      BY <1>1, <1>3, <1>4
    <3> QED BY <3>1, HeldBounds DEF HeldRead
  <2>2. /\ n \in ring \/ warned[n] = 1 \/ reads[n].exempt \/ reads[n].ref \in collected
        /\ n \in ring \/ warned[n] = 1 => ~reads[n].exempt
    BY <2>1 DEF HeldInv
  <2>3. Due(n) <=> Derefs(n) /\ reads[n].at < hour'
    BY <1>4 DEF Due
  <2>4. Derefs(n) <=> reads[n].ref \notin collected
    BY <1>4 DEF Derefs
  <2>5. warned'[n] = 1 <=> warned[n] = 1 \/ (n \in ring /\ Due(n))
    BY <1>5, <2>1
  <2>6. n \in ring' <=> n \in ring /\ Derefs(n) /\ ~Due(n)
    BY <1>4
  <2>7. n \in ring' => reads[n].at >= hour'
    BY <1>2, <2>1, <2>3, <2>6
  <2> QED BY <1>2, <1>4, <2>2, <2>4, <2>5, <2>6, <2>7
<1>8. ring' \subseteq DOMAIN reads'
  BY <1>6 DEF HeldTypeOK
<1> QED BY <1>5, <1>6, <1>7, <1>8 DEF HeldInv

LEMMA HeldStepKeeps == HeldInv /\ [HeldNext]_heldVars => HeldInv'
<1> SUFFICES ASSUME HeldInv, [HeldNext]_heldVars PROVE HeldInv'
  OBVIOUS
<1>1. ASSUME NEW at \in {hour, hour + 1}, HandOut(at) PROVE HeldInv'
  BY <1>1, HandOutKeeps
<1>2. ASSUME NEW throws \in BOOLEAN, LeaveAdapter(throws) PROVE HeldInv'
  <2>1. nested' \in 0..MaxDepth /\ depth' = nested'
    BY <1>2, HeldBounds DEF LeaveAdapter, HeldInv, HeldTypeOK
  <2> QED BY <1>2, <2>1 DEF LeaveAdapter, HeldInv, HeldTypeOK
<1>3. ASSUME NEW o \in Thing, LetGo(o) PROVE HeldInv'
  BY <1>3 DEF LetGo, HeldInv, HeldTypeOK
<1>4. ASSUME NEW o \in Thing, Collect(o) PROVE HeldInv'
  BY <1>4 DEF Collect, HeldInv, HeldTypeOK
<1>5. ASSUME NEW o \in Thing, CommitChecks(o) PROVE HeldInv'
  BY <1>5, CommitChecksKeeps
<1>6. CASE EnterAdapter
  <2>1. nested' \in 0..MaxDepth /\ depth' = nested'
    BY <1>6, HeldBounds DEF EnterAdapter, HeldInv, HeldTypeOK
  <2> QED BY <1>6, <2>1 DEF EnterAdapter, HeldInv, HeldTypeOK
<1>7. CASE CommitReturnsEarly
  <2>1. hour' \in 0..MaxHour /\ checked' \in 0..hour'
    BY <1>7, HeldBounds DEF CommitReturnsEarly, HeldInv, HeldTypeOK
  <2> QED BY <1>7, <2>1 DEF CommitReturnsEarly, HeldInv, HeldTypeOK
<1>8. CASE UNCHANGED heldVars
  BY <1>8 DEF heldVars, HeldInv, HeldTypeOK
<1> QED BY <1>1, <1>2, <1>3, <1>4, <1>5, <1>6, <1>7, <1>8 DEF HeldNext

\* HeldReadsSound of MCHistory, for any cap and any number of reads: every read
\* of the application is in the ring, was warned of once or died unnoticed, no
\* read of an adapter is, and nothing stays in the ring from one check to the
\* next but what was read at or after it.
THEOREM ReadsAreWatched == HeldSpec => []HeldReadsSound
<1>1. ASSUME HeldInv PROVE HeldReadsSound
  <2>1. Len(reads) \in Nat /\ DOMAIN reads = 1..Len(reads)
    BY <1>1, ReadsAre
  <2>2. DOMAIN reads \subseteq 1..MaxReads /\ \A n \in DOMAIN reads : warned[n] \in {0, 1}
    BY <1>1, <2>1, HeldBounds DEF HeldInv
  <2>3. EveryReadIsAccountedFor
    BY <1>1 DEF HeldInv, EveryReadIsAccountedFor
  <2>4. AdaptersAreExempt
    BY <1>1, <2>2 DEF HeldInv, AdaptersAreExempt
  <2>5. RingIsFresh
    BY <1>1 DEF HeldInv, RingIsFresh
  <2> QED BY <2>3, <2>4, <2>5 DEF HeldReadsSound
<1> QED BY HeldInitHolds, HeldStepKeeps, <1>1, PTL DEF HeldSpec

-----------------------------------------------------------------------------
(* The lives of node ids.                                                  *)

\* The index is that of the subscriptions that are left, each to a live node.
Indexed ==
  /\ \A i \in Id : byNode[i] = {p \in Party : i \in parties[p].members}
  /\ \A p \in Party : parties[p].members \subseteq parties[p].nodes \cap Born

\* The running totals are counts of finite sets.
OfKind(kind) == {i \in Born : born[i].kind = kind}

Counted ==
  /\ IsFiniteSet(Born) /\ IsFiniteSet(Transients(Party))
  /\ totals \in [{"input", "derived", "transient"} -> Int]
  /\ \A kind \in {"input", "derived"} : totals[kind] = Cardinality(OfKind(kind))
  /\ totals["transient"] = Cardinality(Transients(Party))

\* The tombstones are last disposals, none is older than a last disposal left
\* out, and one is left out only at the cap.
TombsKept ==
  /\ tombs \subseteq LastDeaths /\ IsFiniteSet(tombs) /\ Cardinality(tombs) <= TombCap
  /\ \A k \in tombs : \A m \in LastDeaths : m > k => m \in tombs
  /\ tombs = LastDeaths \/ Cardinality(tombs) = TombCap

VersionsKept ==
  \A i \in Born : IF i \in DOMAIN versions THEN versions[i] = born[i].changes
                                           ELSE born[i].changes = 0

RulesKept ==
  \A n \in DOMAIN regs : regs[n].ruled =>
    /\ regs[n].id \in DOMAIN rules
    /\ n <= rules[regs[n].id]

RulesGiven ==
  \A i \in DOMAIN rules : /\ rules[i] \in DOMAIN regs
                          /\ regs[rules[i]].ruled /\ regs[rules[i]].id = i

LifeInv ==
  /\ LifeTypeOK /\ Indexed /\ Counted /\ TombsKept /\ VersionsKept
  /\ RulesKept /\ RulesGiven /\ OnlyBrokenGroupsMiss

LEMMA LifeBounds == MaxLives \in Nat /\ MaxNow \in Nat /\ TombCap \in Nat
BY LifeBoundsAssumption, TombCapAssumption

LEMMA NoPartyIs ==
  NoParty \in [nodes : SUBSET Id, members : SUBSET Id, transient : BOOLEAN]
BY DEF NoParty

LEMMA LifeInitHolds == LifeInit => LifeInv
<1> SUFFICES ASSUME LifeInit PROVE LifeInv
  OBVIOUS
<1>1. /\ DOMAIN regs = {} /\ DOMAIN deaths = {} /\ Born = {} /\ DOMAIN rules = {}
      /\ DOMAIN versions = {} /\ deaths \in Seq([id : Id, time : 0..MaxNow])
      /\ regs \in Seq([id : Id, ruled : BOOLEAN])
  BY DEF LifeInit, Born
<1>2. \A p \in Party : parties[p] = NoParty
  BY DEF LifeInit
<1>3. LifeTypeOK
  <2>1. parties \in [Party -> [nodes : SUBSET Id, members : SUBSET Id, transient : BOOLEAN]]
    BY NoPartyIs DEF LifeInit
  <2>2. byNode \in [Id -> SUBSET Party] /\ moment \in 0..MaxNow /\ missed = {}
        /\ tombs = {}
    BY LifeBounds DEF LifeInit
  <2> QED BY <1>1, <2>1, <2>2 DEF LifeTypeOK
<1>4. Indexed
  BY <1>2 DEF Indexed, NoParty, LifeInit
<1>5. Counted
  <2>1. Transients(Party) = {}
    BY <1>2 DEF Transients, NoParty
  <2>2. OfKind("input") = {} /\ OfKind("derived") = {}
    BY <1>1 DEF OfKind
  <2>3. /\ totals \in [{"input", "derived", "transient"} -> Int]
        /\ totals["input"] = 0 /\ totals["derived"] = 0 /\ totals["transient"] = 0
    BY DEF LifeInit
  <2>4. IsFiniteSet({}) /\ Cardinality({}) = 0
    BY FS_EmptySet
  <2> QED BY <1>1, <2>1, <2>2, <2>3, <2>4 DEF Counted
<1>6. TombsKept
  <2>1. tombs = {} /\ LastDeaths = {}
    BY <1>1 DEF LifeInit, LastDeaths
  <2> QED BY <2>1, FS_EmptySet, LifeBounds DEF TombsKept
<1>7. VersionsKept /\ RulesKept /\ RulesGiven /\ OnlyBrokenGroupsMiss
  BY <1>1 DEF VersionsKept, RulesKept, RulesGiven, OnlyBrokenGroupsMiss, LifeInit
<1> QED BY <1>3, <1>4, <1>5, <1>6, <1>7 DEF LifeInv

-----------------------------------------------------------------------------
(* What each action does to the tables.                                    *)

LifeFacts ==
  /\ regs \in Seq([id : Id, ruled : BOOLEAN]) /\ Len(regs) \in Nat
  /\ DOMAIN regs = 1..Len(regs)
  /\ deaths \in Seq([id : Id, time : 0..MaxNow]) /\ Len(deaths) \in Nat
  /\ DOMAIN deaths = 1..Len(deaths)
  /\ moment \in 0..MaxNow /\ Born \subseteq Id /\ Born = DOMAIN born
  /\ IsFiniteSet(Born)

LEMMA LifeIs ==
  ASSUME LifeInv
  PROVE  LifeFacts
BY DEF LifeInv, LifeTypeOK, Counted, Born, LifeFacts

Registers(i, kind, ruled) ==
  /\ regs' \in Seq([id : Id, ruled : BOOLEAN]) /\ Len(regs') = Len(regs) + 1
  /\ DOMAIN regs' = DOMAIN regs \cup {Len(regs')} /\ Len(regs') \notin DOMAIN regs
  /\ \A n \in DOMAIN regs : regs'[n] = regs[n]
  /\ regs'[Len(regs')] = [id |-> i, ruled |-> ruled]
  /\ i \notin Born /\ Born' = Born \cup {i}
  /\ \A j \in Born : born'[j] = born[j]
  /\ born'[i] = [kind |-> kind, life |-> Len(regs'), changes |-> 0]
  /\ ruled => /\ DOMAIN rules' = DOMAIN rules \cup {i} /\ rules'[i] = Len(regs')
              /\ \A j \in DOMAIN rules \ {i} : rules'[j] = rules[j]
  /\ ~ruled => rules' = rules

LEMMA RegisterDoes ==
  ASSUME LifeInv, NEW i \in Id, NEW kind \in {"input", "derived"}, NEW ruled \in BOOLEAN,
         RegisterNode(i, kind, ruled)
  PROVE  Registers(i, kind, ruled)
<1> DEFINE new == [id |-> i, ruled |-> ruled]
           n == Len(regs) + 1
<1>1. regs \in Seq([id : Id, ruled : BOOLEAN]) /\ Len(regs) \in Nat /\ DOMAIN regs = 1..Len(regs)
  BY LifeIs DEF LifeFacts
<1>2. new \in [id : Id, ruled : BOOLEAN] /\ regs' = Append(regs, new)
  BY DEF RegisterNode
<1> HIDE DEF new
<1>3. /\ regs' \in Seq([id : Id, ruled : BOOLEAN]) /\ Len(regs') = n /\ DOMAIN regs' = 1..n
      /\ \A m \in DOMAIN regs : regs'[m] = regs[m]
      /\ regs'[n] = new
  BY <1>1, <1>2, AppendProperties
<1>4. DOMAIN regs' = DOMAIN regs \cup {n} /\ n \notin DOMAIN regs
  BY <1>1, <1>3
<1>5. /\ i \notin Born /\ Born' = Born \cup {i}
      /\ \A j \in Born : born'[j] = born[j]
      /\ born'[i] = [kind |-> kind, life |-> Len(regs'), changes |-> 0]
  BY DEF RegisterNode, With, Born
<1>6. /\ ruled => /\ DOMAIN rules' = DOMAIN rules \cup {i} /\ rules'[i] = Len(regs')
                  /\ \A j \in DOMAIN rules \ {i} : rules'[j] = rules[j]
      /\ ~ruled => rules' = rules
  BY DEF RegisterNode, With
<1> QED BY <1>3, <1>4, <1>5, <1>6 DEF new, Registers

Disposes(i) ==
  /\ i \in Born /\ Born' = Born \ {i}
  /\ \A j \in Born' : born'[j] = born[j]
  /\ DOMAIN versions' = DOMAIN versions \ {i}
  /\ \A j \in DOMAIN versions' : versions'[j] = versions[j]
  /\ \A p \in Party : /\ parties'[p].nodes = parties[p].nodes
                      /\ parties'[p].members = parties[p].members \ {i}
                      /\ parties'[p].transient = parties[p].transient
  /\ parties' \in [Party -> [nodes : SUBSET Id, members : SUBSET Id, transient : BOOLEAN]]
  /\ byNode' \in [Id -> SUBSET Party] /\ byNode'[i] = {}
  /\ \A j \in Id \ {i} : byNode'[j] = byNode[j]
  /\ deaths' \in Seq([id : Id, time : 0..MaxNow]) /\ Len(deaths') = Len(deaths) + 1
  /\ DOMAIN deaths' = DOMAIN deaths \cup {Len(deaths')}
  /\ Len(deaths') \notin DOMAIN deaths
  /\ \A k \in DOMAIN deaths : deaths'[k] = deaths[k]
  /\ deaths'[Len(deaths')].id = i

LEMMA DisposeDoes ==
  ASSUME LifeInv, NEW i \in Id, DisposeOf(i)
  PROVE  Disposes(i)
<1> DEFINE new == [id |-> i, time |-> moment]
           n == Len(deaths) + 1
<1>1. /\ deaths \in Seq([id : Id, time : 0..MaxNow]) /\ Len(deaths) \in Nat
      /\ DOMAIN deaths = 1..Len(deaths) /\ moment \in 0..MaxNow
  BY LifeIs DEF LifeFacts
<1>2. new \in [id : Id, time : 0..MaxNow] /\ deaths' = Append(deaths, new) /\ new.id = i
  BY <1>1 DEF DisposeOf
<1> HIDE DEF new
<1>3. /\ deaths' \in Seq([id : Id, time : 0..MaxNow]) /\ Len(deaths') = n /\ DOMAIN deaths' = 1..n
      /\ \A m \in DOMAIN deaths : deaths'[m] = deaths[m]
      /\ deaths'[n] = new
  BY <1>1, <1>2, AppendProperties
<1>4. DOMAIN deaths' = DOMAIN deaths \cup {n} /\ n \notin DOMAIN deaths
  BY <1>1, <1>3
<1>5. /\ i \in Born /\ Born' = Born \ {i}
      /\ \A j \in Born' : born'[j] = born[j]
      /\ DOMAIN versions' = DOMAIN versions \ {i}
      /\ \A j \in DOMAIN versions' : versions'[j] = versions[j]
  BY DEF DisposeOf, Less, Born
<1>6. parties \in [Party -> [nodes : SUBSET Id, members : SUBSET Id, transient : BOOLEAN]]
      /\ byNode \in [Id -> SUBSET Party]
  BY DEF LifeInv, LifeTypeOK
<1>7. ASSUME NEW p \in Party
      PROVE  /\ parties'[p].nodes = parties[p].nodes
             /\ parties'[p].members = parties[p].members \ {i}
             /\ parties'[p].transient = parties[p].transient
             /\ parties'[p] \in [nodes : SUBSET Id, members : SUBSET Id, transient : BOOLEAN]
  <2>1. parties'[p] = [parties[p] EXCEPT !.members = @ \ {i}]
    BY DEF DisposeOf
  <2>2. parties[p] \in [nodes : SUBSET Id, members : SUBSET Id, transient : BOOLEAN]
    BY <1>6
  <2> QED BY <2>1, <2>2
<1>8. parties' \in [Party -> [nodes : SUBSET Id, members : SUBSET Id, transient : BOOLEAN]]
  BY <1>7 DEF DisposeOf
<1>9. /\ byNode' \in [Id -> SUBSET Party] /\ byNode'[i] = {}
      /\ \A j \in Id \ {i} : byNode'[j] = byNode[j]
  BY <1>6 DEF DisposeOf
<1> QED BY <1>2, <1>3, <1>4, <1>5, <1>7, <1>8, <1>9 DEF Disposes

Subscribes(p, S, transient) ==
  /\ S \subseteq Born /\ parties[p].nodes = {} /\ parties[p].members = {}
  /\ parties' \in [Party -> [nodes : SUBSET Id, members : SUBSET Id, transient : BOOLEAN]]
  /\ parties'[p].nodes = S /\ parties'[p].members = S
  /\ parties'[p].transient = transient
  /\ \A q \in Party \ {p} : parties'[q] = parties[q]
  /\ byNode' \in [Id -> SUBSET Party]
  /\ \A j \in Id : byNode'[j] = IF j \in S THEN byNode[j] \cup {p} ELSE byNode[j]

LEMMA SubscribeDoes ==
  ASSUME LifeInv, NEW p \in Party, NEW S \in SUBSET Id, NEW transient \in BOOLEAN,
         SubscribeParty(p, S, transient)
  PROVE  Subscribes(p, S, transient)
<1>1. parties \in [Party -> [nodes : SUBSET Id, members : SUBSET Id, transient : BOOLEAN]]
      /\ byNode \in [Id -> SUBSET Party]
  BY DEF LifeInv, LifeTypeOK
<1>2. parties' = [parties EXCEPT ![p] = [nodes |-> S, members |-> S, transient |-> transient]]
      /\ byNode' = [j \in Id |-> IF j \in S THEN byNode[j] \cup {p} ELSE byNode[j]]
  BY DEF SubscribeParty
<1>3. S \subseteq Born /\ parties[p].nodes = {} /\ parties[p].members = {}
  BY DEF SubscribeParty, LifeInv, Indexed
<1>4. /\ parties' \in [Party -> [nodes : SUBSET Id, members : SUBSET Id, transient : BOOLEAN]]
      /\ parties'[p].nodes = S /\ parties'[p].members = S
      /\ parties'[p].transient = transient
      /\ \A q \in Party \ {p} : parties'[q] = parties[q]
  BY <1>1, <1>2
<1>5. /\ byNode' \in [Id -> SUBSET Party]
      /\ \A j \in Id : byNode'[j] = IF j \in S THEN byNode[j] \cup {p} ELSE byNode[j]
  BY <1>1, <1>2
<1> QED BY <1>3, <1>4, <1>5 DEF Subscribes

Disbands(S) ==
  /\ parties' \in [Party -> [nodes : SUBSET Id, members : SUBSET Id, transient : BOOLEAN]]
  /\ \A p \in S : parties'[p].nodes = {} /\ parties'[p].members = {}
  /\ \A p \in Party \ S : parties'[p] = parties[p]
  /\ byNode' \in [Id -> SUBSET Party]
  /\ \A j \in Id : byNode'[j] = byNode[j] \ S

LEMMA DisbandedDoes ==
  ASSUME LifeInv, NEW S \in SUBSET Party, Disbanded(S)
  PROVE  Disbands(S)
<1>1. parties \in [Party -> [nodes : SUBSET Id, members : SUBSET Id, transient : BOOLEAN]]
      /\ byNode \in [Id -> SUBSET Party]
  BY DEF LifeInv, LifeTypeOK
<1>2. \A p \in Party : parties'[p] = IF p \in S THEN NoParty ELSE parties[p]
  BY DEF Disbanded
<1>3. parties' \in [Party -> [nodes : SUBSET Id, members : SUBSET Id, transient : BOOLEAN]]
  BY <1>1, NoPartyIs DEF Disbanded
<1>4. \A p \in S : parties'[p].nodes = {} /\ parties'[p].members = {}
  BY <1>2 DEF NoParty
<1>5. byNode' \in [Id -> SUBSET Party] /\ \A j \in Id : byNode'[j] = byNode[j] \ S
  BY <1>1 DEF Disbanded
<1> QED BY <1>2, <1>3, <1>4, <1>5 DEF Disbands

Changes(S) ==
  /\ S \subseteq Born /\ Born' = Born /\ moment' \in 0..MaxNow
  /\ \A i \in Born : /\ born'[i] \in [kind : {"input", "derived"}, life : DOMAIN regs, changes : Nat]
                     /\ born'[i].kind = born[i].kind
                     /\ i \in S => born'[i].changes = born[i].changes + 1
                     /\ i \notin S => born'[i].changes = born[i].changes
  /\ DOMAIN versions' = DOMAIN versions \cup S
  /\ \A i \in DOMAIN versions \ S : versions'[i] = versions[i]
  /\ \A i \in S : versions'[i] = IF i \in DOMAIN versions THEN versions[i] + 1 ELSE 0 + 1

LEMMA ChangesDo ==
  ASSUME LifeInv, NEW S \in SUBSET Id, CommitChanges(S)
  PROVE  Changes(S)
<1>1. S \subseteq Born /\ moment' = moment + 1 /\ moment < MaxNow
  BY DEF CommitChanges
<1>2. Born' = Born /\ \A i \in Born : born'[i] = IF i \in S THEN [born[i] EXCEPT !.changes = @ + 1] ELSE born[i]
  BY DEF CommitChanges, Born
<1>3. \A i \in Born : born[i] \in [kind : {"input", "derived"}, life : DOMAIN regs, changes : Nat]
  BY DEF LifeInv, LifeTypeOK
<1>4. ASSUME NEW i \in Born
      PROVE  /\ born'[i] \in [kind : {"input", "derived"}, life : DOMAIN regs, changes : Nat]
             /\ born'[i].kind = born[i].kind
             /\ i \in S => born'[i].changes = born[i].changes + 1
             /\ i \notin S => born'[i].changes = born[i].changes
  <2>1. born[i] \in [kind : {"input", "derived"}, life : DOMAIN regs, changes : Nat]
    BY <1>3
  <2>2. CASE i \in S
    <3>1. born'[i] = [born[i] EXCEPT !.changes = @ + 1]
      BY <1>2, <2>2
    <3> QED BY <2>1, <2>2, <3>1
  <2>3. CASE i \notin S
    BY <1>2, <2>1, <2>3
  <2> QED BY <2>2, <2>3
<1>5. moment' \in 0..MaxNow
  BY <1>1, LifeIs, LifeBounds DEF LifeFacts
<1>6. /\ DOMAIN versions' = DOMAIN versions \cup S
      /\ \A i \in DOMAIN versions \cup S :
           versions'[i] = (IF i \in DOMAIN versions THEN versions[i] ELSE 0)
                            + (IF i \in S THEN 1 ELSE 0)
  BY DEF CommitChanges
<1>7. \A i \in DOMAIN versions : versions[i] \in Nat
  BY <1>3 DEF LifeInv, VersionsKept, LifeTypeOK
<1>8. \A i \in DOMAIN versions \ S : versions'[i] = versions[i]
  <2> TAKE i \in DOMAIN versions \ S
  <2>1. versions'[i] = versions[i] + 0 /\ versions[i] \in Nat
    BY <1>6, <1>7
  <2> QED BY <2>1
<1>9. \A i \in S : versions'[i] = IF i \in DOMAIN versions THEN versions[i] + 1 ELSE 0 + 1
  BY <1>6
<1> QED BY <1>1, <1>2, <1>4, <1>5, <1>6, <1>8, <1>9 DEF Changes

-----------------------------------------------------------------------------
(* Counts of subscriptions.                                                *)

LEMMA ColumnCounts ==
  ASSUME NEW i, NEW X
  PROVE  /\ IsFiniteSet({i} \X X) => IsFiniteSet(X) /\ Cardinality({i} \X X) = Cardinality(X)
         /\ IsFiniteSet(X) => IsFiniteSet(X \X {i}) /\ Cardinality(X \X {i}) = Cardinality(X)
<1>1. ExistsBijection({i} \X X, X)
  <2> DEFINE f == [m \in {i} \X X |-> m[2]]
  <2>1. f \in [{i} \X X -> X]
    OBVIOUS
  <2>2. \A a \in {i} \X X : \A b \in {i} \X X : f[a] = f[b] => a = b
    OBVIOUS
  <2>3. \A b \in X : f[<<i, b>>] = b /\ <<i, b>> \in {i} \X X
    OBVIOUS
  <2> HIDE DEF f
  <2>4. f \in Injection({i} \X X, X)
    BY <2>1, <2>2 DEF Injection, IsInjective
  <2>5. f \in Surjection({i} \X X, X)
    BY <2>1, <2>3 DEF Surjection
  <2> QED BY <2>4, <2>5 DEF ExistsBijection, Bijection
<1>2. ExistsBijection(X, X \X {i})
  <2> DEFINE f == [m \in X |-> <<m, i>>]
  <2>1. f \in [X -> X \X {i}]
    OBVIOUS
  <2>2. \A a \in X : \A b \in X : f[a] = f[b] => a = b
    OBVIOUS
  <2>3. \A b \in X \X {i} : f[b[1]] = b /\ b[1] \in X
    OBVIOUS
  <2> HIDE DEF f
  <2>4. f \in Injection(X, X \X {i})
    BY <2>1, <2>2 DEF Injection, IsInjective
  <2>5. f \in Surjection(X, X \X {i})
    BY <2>1, <2>3 DEF Surjection
  <2> QED BY <2>4, <2>5 DEF ExistsBijection, Bijection
<1>3. IsFiniteSet({i} \X X) => IsFiniteSet(X) /\ Cardinality({i} \X X) = Cardinality(X)
  BY <1>1, FS_Bijection
<1>4. IsFiniteSet(X) => IsFiniteSet(X \X {i}) /\ Cardinality(X \X {i}) = Cardinality(X)
  BY <1>2, FS_Bijection
<1> QED BY <1>3, <1>4

LEMMA SplitCounts ==
  ASSUME NEW T, NEW L, NEW R, T = L \cup R, L \cap R = {}
  PROVE  IsFiniteSet(T) =>
              /\ IsFiniteSet(L) /\ IsFiniteSet(R) /\ Cardinality(L) = Cardinality(T) - Cardinality(R)
              /\ Cardinality(L) \in Nat /\ Cardinality(R) \in Nat
<1>1. ASSUME IsFiniteSet(L), IsFiniteSet(R)
      PROVE  /\ IsFiniteSet(T) /\ Cardinality(T) = Cardinality(L) + Cardinality(R)
             /\ Cardinality(L) \in Nat /\ Cardinality(R) \in Nat
  <2>1. Cardinality(L) \in Nat /\ Cardinality(R) \in Nat
    BY <1>1, FS_CardinalityType
  <2>2. IsFiniteSet(L \cup R) /\ Cardinality(L \cup R) = Cardinality(L) + Cardinality(R) - Cardinality(L \cap R)
    BY <1>1, FS_Union
  <2>3. Cardinality(L \cap R) = 0
    BY FS_EmptySet
  <2> QED BY <2>1, <2>2, <2>3
<1>2. ASSUME IsFiniteSet(T) PROVE IsFiniteSet(L) /\ IsFiniteSet(R)
  <2>1. L \in SUBSET T /\ R \in SUBSET T
    OBVIOUS
  <2> QED BY <1>2, <2>1, FS_Subset
<1> QED BY <1>1, <1>2

\* The total that a disbanded set of groups takes off is that of its members.
LEMMA DisbandedCounts ==
  ASSUME LifeInv, NEW S \in SUBSET Party, Disbanded(S), Born' = Born
  PROVE  /\ Indexed'
         /\ IsFiniteSet(Transients(Party))'
         /\ totals'["transient"] = Cardinality(Transients(Party))'
         /\ totals' \in [{"input", "derived", "transient"} -> Int]
         /\ \A kind \in {"input", "derived"} : totals'[kind] = totals[kind]
<1>1. /\ \A p \in S : parties'[p].nodes = {} /\ parties'[p].members = {}
      /\ \A p \in Party \ S : parties'[p] = parties[p]
      /\ \A j \in Id : byNode'[j] = byNode[j] \ S
  BY DisbandedDoes DEF Disbands
<1>2. Indexed'
  <2>1. ASSUME NEW j \in Id PROVE byNode'[j] = {p \in Party : j \in parties'[p].members}
    BY <1>1 DEF LifeInv, Indexed
  <2>2. ASSUME NEW p \in Party PROVE parties'[p].members \subseteq parties'[p].nodes \cap Born'
    BY <1>1 DEF LifeInv, Indexed
  <2> QED BY <2>1, <2>2 DEF Indexed
<1>3. /\ Transients(Party) = Transients(Party)' \cup Transients(S)
      /\ Transients(Party)' \cap Transients(S) = {}
  BY <1>1 DEF Transients
<1>4. /\ IsFiniteSet(Transients(Party)) /\ totals["transient"] = Cardinality(Transients(Party))
      /\ totals \in [{"input", "derived", "transient"} -> Int]
  BY DEF LifeInv, Counted
<1>5. /\ IsFiniteSet(Transients(Party)')
      /\ Cardinality(Transients(Party)') = Cardinality(Transients(Party)) - Cardinality(Transients(S))
      /\ Cardinality(Transients(Party)') \in Nat
  BY <1>3, <1>4, SplitCounts
<1>6. /\ totals'["transient"] = totals["transient"] - Cardinality(Transients(S))
      /\ \A kind \in {"input", "derived"} : totals'[kind] = totals[kind]
      /\ totals' = [totals EXCEPT !["transient"] = totals["transient"] - Cardinality(Transients(S))]
  BY <1>4 DEF Disbanded
<1>7. totals'["transient"] = Cardinality(Transients(Party)')
  BY <1>4, <1>5, <1>6
<1>8. totals' \in [{"input", "derived", "transient"} -> Int]
  <2>1. totals["transient"] - Cardinality(Transients(S)) \in Int
    BY <1>4, <1>5
  <2> QED BY <1>4, <1>6, <2>1
<1> QED BY <1>2, <1>5, <1>6, <1>7, <1>8

-----------------------------------------------------------------------------
(* Every action keeps every table true.                                    *)

LEMMA RegisterKeepsIt ==
  ASSUME LifeInv, NEW i \in Id, NEW kind \in {"input", "derived"}, NEW ruled \in BOOLEAN,
         RegisterNode(i, kind, ruled)
  PROVE  LifeInv'
<1> DEFINE n == Len(regs')
<1>r. Registers(i, kind, ruled) /\ LifeFacts
  BY RegisterDoes, LifeIs
<1> USE <1>r DEF Registers, LifeFacts
<1>0. /\ UNCHANGED <<moment, versions, tombs, parties, byNode, deaths, missed>>
      /\ totals' = [totals EXCEPT ![kind] = @ + 1]
  BY DEF RegisterNode
<1>1. LifeTypeOK'
  <2>1. \A j \in Born' : born'[j] \in [kind : {"input", "derived"}, life : DOMAIN regs', changes : Nat]
    <3>1. ASSUME NEW j \in Born
          PROVE  born'[j] \in [kind : {"input", "derived"}, life : DOMAIN regs', changes : Nat]
      <4>1. born[j] \in [kind : {"input", "derived"}, life : DOMAIN regs, changes : Nat]
        BY DEF LifeInv, LifeTypeOK
      <4>2. born'[j] = born[j] /\ DOMAIN regs \subseteq DOMAIN regs'
        OBVIOUS
      <4> QED BY <4>1, <4>2
    <3>2. born'[i] = [kind |-> kind, life |-> n, changes |-> 0] /\ n \in DOMAIN regs'
      OBVIOUS
    <3>3. born'[i] \in [kind : {"input", "derived"}, life : DOMAIN regs', changes : Nat]
      BY <3>2
    <3> QED BY <3>1, <3>3
  <2>2. Born' \subseteq Id /\ DOMAIN versions' \subseteq Born'
    BY <1>0 DEF LifeInv, LifeTypeOK
  <2>3. DOMAIN rules' \subseteq Id
    BY DEF LifeInv, LifeTypeOK
  <2>4. regs' \in Seq([id : Id, ruled : BOOLEAN])
    OBVIOUS
  <2> QED BY <1>0, <2>1, <2>2, <2>3, <2>4 DEF LifeInv, LifeTypeOK
<1>2. Indexed'
  BY <1>0 DEF LifeInv, Indexed
<1>3. Counted'
  <2>1. Transients(Party)' = Transients(Party)
    BY <1>0 DEF Transients
  <2>2. IsFiniteSet(Born')
    BY FS_AddElement
  <2>3. /\ OfKind(kind)' = OfKind(kind) \cup {i} /\ i \notin OfKind(kind)
        /\ \A other \in {"input", "derived"} \ {kind} : OfKind(other)' = OfKind(other)
    <3>1. born'[i].kind = kind
      OBVIOUS
    <3> QED BY <3>1 DEF OfKind
  <2>4. IsFiniteSet(OfKind(kind))
    <3>1. OfKind(kind) \in SUBSET Born
      BY DEF OfKind
    <3> QED BY <3>1, FS_Subset
  <2>5. Cardinality(OfKind(kind)') = Cardinality(OfKind(kind)) + 1
    BY <2>3, <2>4, FS_AddElement
  <2>6. /\ totals \in [{"input", "derived", "transient"} -> Int]
        /\ \A k \in {"input", "derived"} : totals[k] = Cardinality(OfKind(k))
    BY DEF LifeInv, Counted
  <2>7. /\ totals' \in [{"input", "derived", "transient"} -> Int]
        /\ totals'[kind] = totals[kind] + 1
        /\ \A k \in {"input", "derived", "transient"} \ {kind} : totals'[k] = totals[k]
    BY <1>0, <2>6
  <2>8. \A k \in {"input", "derived"} : totals'[k] = Cardinality(OfKind(k)')
    BY <2>3, <2>5, <2>6, <2>7
  <2>9. "transient" # kind
    OBVIOUS
  <2> QED BY <2>1, <2>2, <2>7, <2>8, <2>9 DEF LifeInv, Counted
<1>4. TombsKept'
  BY <1>0 DEF LifeInv, TombsKept, LastDeaths
<1>5. VersionsKept'
  <2>1. i \notin DOMAIN versions /\ born'[i].changes = 0
    BY DEF LifeInv, LifeTypeOK
  <2> QED BY <1>0, <2>1 DEF LifeInv, VersionsKept
<1>6. RulesKept' /\ RulesGiven'
  <2>1. \A m \in DOMAIN regs : m \in Nat /\ m <= n
    OBVIOUS
  <2>2. regs'[n].id = i /\ regs'[n].ruled = ruled
    OBVIOUS
  <2>3. CASE ruled
    <3>1. /\ DOMAIN rules' = DOMAIN rules \cup {i} /\ rules'[i] = n
          /\ \A j \in DOMAIN rules \ {i} : rules'[j] = rules[j]
      BY <2>3
    <3>2. ASSUME NEW m \in DOMAIN regs', regs'[m].ruled
          PROVE  regs'[m].id \in DOMAIN rules' /\ m <= rules'[regs'[m].id]
      <4>1. CASE m \in DOMAIN regs
        BY <2>1, <3>1, <3>2, <4>1 DEF LifeInv, RulesKept
      <4>2. CASE m = n
        BY <2>2, <3>1, <4>2
      <4> QED BY <4>1, <4>2
    <3>3. ASSUME NEW j \in DOMAIN rules'
          PROVE  rules'[j] \in DOMAIN regs' /\ regs'[rules'[j]].ruled /\ regs'[rules'[j]].id = j
      <4>1. CASE j = i
        BY <2>2, <2>3, <3>1, <4>1
      <4>2. CASE j # i
        BY <3>1, <3>3, <4>2 DEF LifeInv, RulesGiven
      <4> QED BY <4>1, <4>2
    <3> QED BY <3>2, <3>3 DEF RulesKept, RulesGiven
  <2>4. CASE ~ruled
    <3>1. rules' = rules /\ ~regs'[n].ruled
      BY <2>2, <2>4
    <3>2. RulesKept'
      BY <3>1 DEF LifeInv, RulesKept
    <3>3. RulesGiven'
      BY <3>1 DEF LifeInv, RulesGiven
    <3> QED BY <3>2, <3>3
  <2> QED BY <2>3, <2>4
<1>7. OnlyBrokenGroupsMiss'
  BY <1>0 DEF LifeInv, OnlyBrokenGroupsMiss
<1> QED BY <1>1, <1>2, <1>3, <1>4, <1>5, <1>6, <1>7 DEF LifeInv

LEMMA MinIs ==
  ASSUME NEW S \in SUBSET Nat, S # {}
  PROVE  Min(S) \in S /\ \A n \in S : Min(S) <= n
<1>1. \E m \in S : \A n \in S : ~(<<n, m>> \in OpToRel(<, Nat))
  BY NatLessThanWellFounded, WFMin
<1>2. PICK m \in S : \A n \in S : ~(<<n, m>> \in OpToRel(<, Nat))
  BY <1>1
<1>3. \A n \in S : m <= n
  <2> TAKE n \in S
  <2>1. n \in Nat /\ m \in Nat
    OBVIOUS
  <2>2. n < m => <<n, m>> \in OpToRel(<, Nat)
    BY <2>1 DEF OpToRel
  <2>3. ~(n < m)
    BY <1>2, <2>2
  <2> QED BY <2>1, <2>3
<1> QED BY <1>3 DEF Min

\* A disposal puts its number at the end and takes the one before of the id.
LEMMA BuriedKeeps ==
  ASSUME LifeInv, NEW i \in Id, DisposeOf(i)
  PROVE  TombsKept' /\ tombs' \subseteq DOMAIN deaths'
<1> DEFINE n    == Len(deaths')
           rest == {k \in tombs : deaths[k].id # i}
           all  == rest \cup {n}
<1>r. Disposes(i) /\ LifeFacts
  BY DisposeDoes, LifeIs
<1>1. /\ n \in Nat /\ n = Len(deaths) + 1 /\ DOMAIN deaths' = DOMAIN deaths \cup {n}
      /\ \A k \in DOMAIN deaths : k \in Nat /\ k < n /\ deaths'[k] = deaths[k]
      /\ deaths'[n].id = i
  BY <1>r DEF Disposes, LifeFacts
<1>2. tombs' = IF Cardinality(all) > TombCap THEN all \ {Min(all)} ELSE all
  BY <1>1 DEF DisposeOf, Buried
<1>3. /\ tombs \subseteq LastDeaths /\ IsFiniteSet(tombs) /\ Cardinality(tombs) <= TombCap
      /\ \A k \in tombs : \A m \in LastDeaths : m > k => m \in tombs
      /\ tombs = LastDeaths \/ Cardinality(tombs) = TombCap
  BY DEF LifeInv, TombsKept
<1> HIDE DEF n
<1>4. LastDeaths' = {k \in LastDeaths : deaths[k].id # i} \cup {n}
  <2>1. ASSUME NEW k \in DOMAIN deaths
        PROVE  k \in LastDeaths' <=> k \in LastDeaths /\ deaths[k].id # i
    <3>1. k \in LastDeaths' <=>
            \A m \in DOMAIN deaths \cup {n} : m > k => deaths'[m].id # deaths'[k].id
      BY <1>1 DEF LastDeaths
    <3>2. k \in LastDeaths <=> \A m \in DOMAIN deaths : m > k => deaths[m].id # deaths[k].id
      BY DEF LastDeaths
    <3>3. (\A m \in DOMAIN deaths \cup {n} : m > k => deaths'[m].id # deaths'[k].id)
            <=> (\A m \in DOMAIN deaths : m > k => deaths[m].id # deaths[k].id) /\ i # deaths[k].id
      BY <1>1
    <3> QED BY <3>1, <3>2, <3>3
  <2>2. n \in LastDeaths'
    BY <1>1 DEF LastDeaths
  <2>3. LastDeaths' \subseteq DOMAIN deaths \cup {n} /\ LastDeaths \subseteq DOMAIN deaths
    BY <1>1 DEF LastDeaths
  <2> QED BY <2>1, <2>2, <2>3
<1>5. /\ all \subseteq LastDeaths' /\ LastDeaths \subseteq DOMAIN deaths
      /\ LastDeaths' \subseteq DOMAIN deaths'
      /\ all \subseteq Nat /\ n \notin rest
  BY <1>1, <1>3, <1>4 DEF LastDeaths
<1>6. \A k \in all : \A m \in LastDeaths' : m > k => m \in all
  <2> SUFFICES ASSUME NEW k \in all, NEW m \in LastDeaths', m > k, m # n PROVE m \in rest
    OBVIOUS
  <2>1. m \in LastDeaths /\ deaths[m].id # i /\ m < n
    BY <1>1, <1>4, <1>5
  <2>2. k \in rest
    BY <1>1, <1>5, <2>1
  <2> QED BY <1>3, <2>1, <2>2
<1>7. /\ IsFiniteSet(rest) /\ Cardinality(rest) \in Nat /\ Cardinality(tombs) \in Nat
      /\ Cardinality(rest) <= Cardinality(tombs)
      /\ Cardinality(rest) >= Cardinality(tombs) - 1
  <2>1. rest \in SUBSET tombs
    OBVIOUS
  <2>2. /\ IsFiniteSet(rest) /\ Cardinality(rest) \in Nat /\ Cardinality(tombs) \in Nat
        /\ Cardinality(rest) <= Cardinality(tombs)
    BY <1>3, <2>1, FS_Subset, FS_CardinalityType
  <2>3. CASE rest = tombs
    <3>1. Cardinality(rest) = Cardinality(tombs)
      BY <2>3
    <3> HIDE DEF rest
    <3>2. Cardinality(rest) >= Cardinality(tombs) - 1
      BY <2>2, <3>1
    <3> QED BY <2>2, <3>2
  <2>4. CASE rest # tombs
    <3>1. PICK k \in tombs : deaths[k].id = i
      BY <2>4
    <3>2. ASSUME NEW m \in tombs, m # k PROVE m \in rest
      <4>1. m \in LastDeaths /\ k \in LastDeaths /\ m \in DOMAIN deaths /\ k \in DOMAIN deaths
        BY <1>3 DEF LastDeaths
      <4>2. m \in Nat /\ k \in Nat
        BY <1>1, <4>1
      <4>3. m > k \/ k > m
        BY <3>2, <4>2
      <4> QED BY <3>1, <4>1, <4>3 DEF LastDeaths
    <3>3. rest = tombs \ {k}
      BY <3>1, <3>2
    <3>4. Cardinality(rest) = Cardinality(tombs) - 1
      BY <1>3, <3>3, FS_RemoveElement
    <3> QED BY <2>2, <3>4
  <2> QED BY <2>3, <2>4
<1>8. IsFiniteSet(all) /\ Cardinality(all) = Cardinality(rest) + 1
  BY <1>5, <1>7, FS_AddElement
<1>9. tombs = LastDeaths => all = LastDeaths'
  BY <1>4
<1> HIDE DEF all, rest
<1>10. TombCap \in Nat
  BY LifeBounds
<1>11. CASE Cardinality(all) > TombCap
  <2>1. n \in all /\ Min(all) \in all /\ \A m \in all : Min(all) <= m
    <3>1. all # {} /\ all \in SUBSET Nat
      BY <1>5 DEF all
    <3> QED BY <3>1, MinIs DEF all
  <2>2. tombs' = all \ {Min(all)} /\ IsFiniteSet(tombs') /\ Cardinality(tombs') = Cardinality(all) - 1
    BY <1>2, <1>8, <1>11, <2>1, FS_RemoveElement
  <2>3. Cardinality(tombs') = TombCap
    BY <1>3, <1>7, <1>8, <1>10, <1>11, <2>2
  <2>4. \A k \in tombs' : \A m \in LastDeaths' : m > k => m \in tombs'
    <3> SUFFICES ASSUME NEW k \in tombs', NEW m \in LastDeaths', m > k PROVE m \in tombs'
      OBVIOUS
    <3>1. m \in all /\ k \in all /\ m \in Nat /\ k \in Nat /\ Min(all) \in Nat /\ Min(all) <= k
      BY <1>5, <1>6, <2>1, <2>2
    <3>2. m # Min(all)
      BY <3>1
    <3> QED BY <2>2, <3>1, <3>2
  <2>5. tombs' \subseteq LastDeaths' /\ tombs' \subseteq DOMAIN deaths'
    BY <1>5, <2>2
  <2>6. Cardinality(tombs') <= TombCap
    BY <1>10, <2>3
  <2> QED BY <2>2, <2>3, <2>4, <2>5, <2>6 DEF TombsKept
<1>12. CASE ~(Cardinality(all) > TombCap)
  <2>1. tombs' = all
    BY <1>2, <1>12
  <2>2. Cardinality(all) <= TombCap
    BY <1>7, <1>8, <1>10, <1>12
  <2>3. all = LastDeaths' \/ Cardinality(all) = TombCap
    <3>1. CASE tombs = LastDeaths
      BY <1>9, <3>1 DEF all, rest
    <3>2. CASE Cardinality(tombs) = TombCap
      BY <1>7, <1>8, <1>10, <2>2, <3>2
    <3> QED BY <1>3, <3>1, <3>2
  <2> QED BY <1>5, <1>6, <1>8, <2>1, <2>2, <2>3 DEF TombsKept
<1> QED BY <1>11, <1>12

LEMMA DisposeKeepsIt ==
  ASSUME LifeInv, NEW i \in Id, DisposeOf(i)
  PROVE  LifeInv'
<1>r. Disposes(i) /\ LifeFacts
  BY DisposeDoes, LifeIs
<1> USE <1>r DEF Disposes, LifeFacts
<1>0. /\ UNCHANGED <<moment, rules, regs, missed>>
      /\ totals' = [totals EXCEPT ![born[i].kind] = @ - 1, !["transient"] = @ - TransientsOf(i)]
  BY DEF DisposeOf
<1>1. TombsKept' /\ tombs' \subseteq DOMAIN deaths'
  BY BuriedKeeps
<1>2. LifeTypeOK'
  <2>1. Born' \subseteq Id /\ DOMAIN versions' \subseteq Born' /\ DOMAIN rules' \subseteq Id
    BY <1>0 DEF LifeInv, LifeTypeOK
  <2>2. ASSUME NEW j \in Born'
        PROVE  born'[j] \in [kind : {"input", "derived"}, life : DOMAIN regs', changes : Nat]
    BY <1>0 DEF LifeInv, LifeTypeOK
  <2>3. moment' \in 0..MaxNow /\ missed' \subseteq Party
        /\ regs' \in Seq([id : Id, ruled : BOOLEAN])
    BY <1>0 DEF LifeInv, LifeTypeOK
  <2> QED BY <1>1, <2>1, <2>2, <2>3 DEF LifeTypeOK
<1>3. Indexed'
  <2>1. ASSUME NEW j \in Id PROVE byNode'[j] = {p \in Party : j \in parties'[p].members}
    <3>1. byNode[j] = {p \in Party : j \in parties[p].members}
      BY DEF LifeInv, Indexed
    <3> QED BY <3>1
  <2>2. ASSUME NEW p \in Party PROVE parties'[p].members \subseteq parties'[p].nodes \cap Born'
    <3>1. parties[p].members \subseteq parties[p].nodes \cap Born
      BY DEF LifeInv, Indexed
    <3>2. /\ parties'[p].nodes = parties[p].nodes
          /\ parties'[p].members = parties[p].members \ {i}
      OBVIOUS
    <3> QED BY <3>1, <3>2
  <2> QED BY <2>1, <2>2 DEF Indexed
<1>4. Counted'
  <2> DEFINE X == {p \in byNode[i] : parties[p].transient}
  <2>1. PICK kind \in {"input", "derived"} : kind = born[i].kind
    BY DEF LifeInv, LifeTypeOK
  <2>2. /\ totals \in [{"input", "derived", "transient"} -> Int]
        /\ \A k \in {"input", "derived"} : totals[k] = Cardinality(OfKind(k))
        /\ totals["transient"] = Cardinality(Transients(Party))
        /\ IsFiniteSet(Transients(Party))
    BY DEF LifeInv, Counted
  <2>3. /\ OfKind(kind)' = OfKind(kind) \ {i} /\ i \in OfKind(kind)
        /\ \A k \in {"input", "derived"} \ {kind} : OfKind(k)' = OfKind(k)
    BY <2>1 DEF OfKind
  <2>4. IsFiniteSet(OfKind(kind))
    <3>1. OfKind(kind) \in SUBSET Born
      BY DEF OfKind
    <3> QED BY <3>1, FS_Subset
  <2>5. Cardinality(OfKind(kind)') = Cardinality(OfKind(kind)) - 1
    <3> HIDE <1>r
    <3>1. Cardinality(OfKind(kind) \ {i}) = Cardinality(OfKind(kind)) - 1
      BY <2>3, <2>4, FS_RemoveElement
    <3> QED BY <2>3, <3>1
  <2>6. /\ Transients(Party) = Transients(Party)' \cup ({i} \X X)
        /\ Transients(Party)' \cap ({i} \X X) = {}
    <3>1. byNode[i] = {p \in Party : i \in parties[p].members}
      BY DEF LifeInv, Indexed
    <3>2. Transients(Party)' = {m \in Transients(Party) : m[1] # i}
      BY DEF Transients
    <3>3. {i} \X X = {m \in Transients(Party) : m[1] = i}
      BY <3>1 DEF Transients
    <3> QED BY <3>2, <3>3
  <2> HIDE DEF X
  <2>7. /\ IsFiniteSet(Transients(Party)') /\ IsFiniteSet({i} \X X)
        /\ Cardinality(Transients(Party)') = Cardinality(Transients(Party)) - Cardinality({i} \X X)
        /\ Cardinality({i} \X X) \in Nat
    <3> HIDE <1>r
    <3>1. IsFiniteSet(Transients(Party)) /\ Transients(Party) = Transients(Party)' \cup ({i} \X X)
          /\ Transients(Party)' \cap ({i} \X X) = {}
      BY <2>2, <2>6
    <3> HIDE DEF Transients
    <3> QED BY <3>1, SplitCounts
  <2>8. Cardinality({i} \X X) = TransientsOf(i)
    BY <2>7, ColumnCounts DEF TransientsOf, X
  <2>9. /\ totals' \in [{"input", "derived", "transient"} -> Int]
        /\ totals'[kind] = totals[kind] - 1
        /\ totals'["transient"] = totals["transient"] - TransientsOf(i)
        /\ \A k \in {"input", "derived"} \ {kind} : totals'[k] = totals[k]
    <3>1. totals' = [totals EXCEPT ![kind] = @ - 1, !["transient"] = @ - TransientsOf(i)]
      BY <1>0, <2>1
    <3>2. totals[kind] - 1 \in Int /\ totals["transient"] - TransientsOf(i) \in Int
      BY <2>1, <2>2, <2>7, <2>8
    <3>3. kind # "transient"
      BY <2>1
    <3> QED BY <2>1, <2>2, <3>1, <3>2, <3>3
  <2>10. \A k \in {"input", "derived"} : totals'[k] = Cardinality(OfKind(k)')
    <3> HIDE <1>r
    <3>1. totals'[kind] = Cardinality(OfKind(kind)')
      BY <2>1, <2>2, <2>5, <2>9
    <3>2. \A k \in {"input", "derived"} \ {kind} : totals'[k] = Cardinality(OfKind(k)')
      BY <2>1, <2>2, <2>3, <2>9
    <3> QED BY <3>1, <3>2
  <2>11. totals'["transient"] = Cardinality(Transients(Party)')
    BY <2>2, <2>7, <2>8, <2>9
  <2>12. IsFiniteSet(Born')
    BY FS_RemoveElement
  <2> QED BY <2>7, <2>9, <2>10, <2>11, <2>12 DEF Counted
<1>5. VersionsKept'
  BY DEF LifeInv, VersionsKept
<1>6. RulesKept' /\ RulesGiven'
  BY <1>0 DEF LifeInv, RulesKept, RulesGiven
<1>7. OnlyBrokenGroupsMiss'
  <2> SUFFICES ASSUME NEW p \in missed, parties[p].nodes # {}
               PROVE  parties'[p].members # parties'[p].nodes
    BY <1>0 DEF OnlyBrokenGroupsMiss, LifeInv, LifeTypeOK
  <2>1. parties[p].members # parties[p].nodes /\ parties[p].members \subseteq parties[p].nodes
        /\ p \in Party
    BY DEF LifeInv, LifeTypeOK, OnlyBrokenGroupsMiss, Indexed
  <2>2. /\ parties'[p].nodes = parties[p].nodes
        /\ parties'[p].members = parties[p].members \ {i}
    BY <2>1
  <2> QED BY <2>1, <2>2
<1> QED BY <1>1, <1>2, <1>3, <1>4, <1>5, <1>6, <1>7 DEF LifeInv

LEMMA SubscribeKeepsIt ==
  ASSUME LifeInv, NEW p \in Party, NEW S \in SUBSET Id, NEW transient \in BOOLEAN,
         SubscribeParty(p, S, transient)
  PROVE  LifeInv'
<1>r. Subscribes(p, S, transient) /\ LifeFacts
  BY SubscribeDoes, LifeIs
<1> USE <1>r DEF Subscribes, LifeFacts
<1>0. /\ UNCHANGED <<moment, born, rules, versions, tombs, regs, deaths>>
      /\ totals' = IF transient THEN [totals EXCEPT !["transient"] = @ + Cardinality(S)] ELSE totals
      /\ missed' = missed \ {p} /\ Born' = Born
  BY DEF SubscribeParty, Born
<1>1. LifeTypeOK'
  BY <1>0 DEF LifeInv, LifeTypeOK
<1>2. Indexed'
  <2>1. ASSUME NEW j \in Id PROVE byNode'[j] = {q \in Party : j \in parties'[q].members}
    <3>1. byNode[j] = {q \in Party : j \in parties[q].members}
      BY DEF LifeInv, Indexed
    <3> QED BY <3>1
  <2>2. ASSUME NEW q \in Party PROVE parties'[q].members \subseteq parties'[q].nodes \cap Born'
    BY <1>0 DEF LifeInv, Indexed
  <2> QED BY <2>1, <2>2 DEF Indexed
<1>3. Counted'
  <2> DEFINE new == IF transient THEN S \X {p} ELSE {}
  <2>1. /\ Transients(Party)' = Transients(Party) \cup new
        /\ Transients(Party) \cap new = {}
    BY DEF Transients
  <2>2. /\ totals \in [{"input", "derived", "transient"} -> Int]
        /\ \A k \in {"input", "derived"} : totals[k] = Cardinality(OfKind(k))
        /\ totals["transient"] = Cardinality(Transients(Party))
        /\ IsFiniteSet(Transients(Party))
    BY DEF LifeInv, Counted
  <2>3. IsFiniteSet(S) /\ Cardinality(S) \in Nat
    BY FS_Subset, FS_CardinalityType
  <2>4. IsFiniteSet(new) /\ Cardinality(new) = IF transient THEN Cardinality(S) ELSE 0
    <3>1. IsFiniteSet(S \X {p}) /\ Cardinality(S \X {p}) = Cardinality(S)
      BY <2>3, ColumnCounts
    <3>2. IsFiniteSet({}) /\ Cardinality({}) = 0
      BY FS_EmptySet
    <3> QED BY <3>1, <3>2
  <2> HIDE DEF new
  <2>5. /\ IsFiniteSet(Transients(Party)')
        /\ Cardinality(Transients(Party)') = Cardinality(Transients(Party)) + Cardinality(new)
    <3> HIDE <1>r
    <3>1. IsFiniteSet(Transients(Party)) /\ IsFiniteSet(new)
          /\ Transients(Party)' = Transients(Party) \cup new
          /\ Transients(Party) \cap new = {}
      BY <2>1, <2>2, <2>4
    <3>2. /\ IsFiniteSet(Transients(Party) \cup new)
          /\ Cardinality(Transients(Party) \cup new)
               = Cardinality(Transients(Party)) + Cardinality(new)
      <4>1. /\ IsFiniteSet(Transients(Party) \cup new)
            /\ Cardinality(Transients(Party) \cup new)
                 = Cardinality(Transients(Party)) + Cardinality(new)
                     - Cardinality(Transients(Party) \cap new)
        BY <3>1, FS_Union
      <4>2. Cardinality(Transients(Party) \cap new) = 0
        BY <3>1, FS_EmptySet
      <4>3. Cardinality(Transients(Party)) \in Nat /\ Cardinality(new) \in Nat
        BY <3>1, FS_CardinalityType
      <4> QED BY <4>1, <4>2, <4>3
    <3> QED BY <3>1, <3>2
  <2>6. /\ totals' \in [{"input", "derived", "transient"} -> Int]
        /\ totals'["transient"] = totals["transient"] + Cardinality(new)
        /\ \A k \in {"input", "derived"} : totals'[k] = totals[k]
    BY <1>0, <2>2, <2>3, <2>4
  <2>7. \A k \in {"input", "derived"} : OfKind(k)' = OfKind(k)
    BY <1>0 DEF OfKind
  <2> QED BY <1>0, <2>2, <2>5, <2>6, <2>7 DEF Counted
<1>4. TombsKept' /\ VersionsKept' /\ RulesKept' /\ RulesGiven'
  BY <1>0 DEF LifeInv, TombsKept, VersionsKept, RulesKept, RulesGiven, LastDeaths
<1>5. OnlyBrokenGroupsMiss'
  BY <1>0 DEF LifeInv, LifeTypeOK, OnlyBrokenGroupsMiss
<1> QED BY <1>1, <1>2, <1>3, <1>4, <1>5 DEF LifeInv

LEMMA UnsubscribeKeepsIt ==
  ASSUME LifeInv, NEW p \in Party, UnsubscribeParty(p)
  PROVE  LifeInv'
<1>0. /\ UNCHANGED <<moment, born, rules, versions, tombs, regs, deaths, missed>>
      /\ Disbanded({p}) /\ Born' = Born
  BY DEF UnsubscribeParty, Born
<1>r. Disbands({p})
  BY <1>0, DisbandedDoes
<1>1. /\ Indexed'
      /\ IsFiniteSet(Transients(Party))'
      /\ totals'["transient"] = Cardinality(Transients(Party))'
      /\ totals' \in [{"input", "derived", "transient"} -> Int]
      /\ \A kind \in {"input", "derived"} : totals'[kind] = totals[kind]
  BY <1>0, DisbandedCounts
<1>2. Counted'
  <2>1. \A k \in {"input", "derived"} : OfKind(k)' = OfKind(k)
    BY <1>0 DEF OfKind
  <2> QED BY <1>0, <1>1, <2>1 DEF LifeInv, Counted
<1>3. LifeTypeOK'
  BY <1>0, <1>r DEF Disbands, LifeInv, LifeTypeOK
<1>4. TombsKept' /\ VersionsKept' /\ RulesKept' /\ RulesGiven'
  BY <1>0 DEF LifeInv, TombsKept, VersionsKept, RulesKept, RulesGiven, LastDeaths
<1>5. OnlyBrokenGroupsMiss'
  BY <1>0, <1>r DEF Disbands, LifeInv, LifeTypeOK, OnlyBrokenGroupsMiss
<1> QED BY <1>1, <1>2, <1>3, <1>4, <1>5 DEF LifeInv

LEMMA ChangesKeepIt ==
  ASSUME LifeInv, NEW S \in SUBSET Id, CommitChanges(S)
  PROVE  LifeInv'
<1> DEFINE fired == {p \in Reached(S) : parties[p].transient}
<1>r. Changes(S) /\ LifeFacts
  BY ChangesDo, LifeIs
<1> USE <1>r DEF Changes, LifeFacts
<1>0. /\ UNCHANGED <<rules, tombs, regs, deaths>>
      /\ missed' = missed \cup {p \in Reached(S) : ~Whole(p)}
      /\ Disbanded(fired)
  BY DEF CommitChanges
<1>1. Reached(S) \subseteq Party /\ fired \in SUBSET Party
  BY DEF Reached, LifeInv, LifeTypeOK
<1> HIDE DEF fired
<1>2. Disbands(fired)
  BY <1>0, <1>1, DisbandedDoes
<1>3. /\ Indexed'
      /\ IsFiniteSet(Transients(Party))'
      /\ totals'["transient"] = Cardinality(Transients(Party))'
      /\ totals' \in [{"input", "derived", "transient"} -> Int]
      /\ \A kind \in {"input", "derived"} : totals'[kind] = totals[kind]
  BY <1>0, <1>1, DisbandedCounts
<1>4. Counted'
  <2>1. \A k \in {"input", "derived"} : OfKind(k)' = OfKind(k)
    BY DEF OfKind
  <2> QED BY <1>3, <2>1 DEF LifeInv, Counted
<1>5. LifeTypeOK'
  <2>1. DOMAIN versions' \subseteq Born' /\ missed' \subseteq Party /\ DOMAIN rules' \subseteq Id
    BY <1>0, <1>1 DEF LifeInv, LifeTypeOK
  <2> QED BY <1>0, <1>2, <2>1 DEF Disbands, LifeInv, LifeTypeOK
<1>6. TombsKept' /\ RulesKept' /\ RulesGiven'
  BY <1>0 DEF LifeInv, TombsKept, RulesKept, RulesGiven, LastDeaths
<1>7. VersionsKept'
  <2> SUFFICES ASSUME NEW i \in Born
               PROVE  IF i \in DOMAIN versions' THEN versions'[i] = born'[i].changes
                                                ELSE born'[i].changes = 0
    BY DEF VersionsKept
  <2>1. IF i \in DOMAIN versions THEN versions[i] = born[i].changes ELSE born[i].changes = 0
    BY DEF LifeInv, VersionsKept
  <2> QED BY <2>1
<1>8. OnlyBrokenGroupsMiss'
  <2> SUFFICES ASSUME NEW p \in missed', parties'[p].nodes # {}
               PROVE  parties'[p].members # parties'[p].nodes
    BY DEF OnlyBrokenGroupsMiss
  <2>1. p \in Party
    BY <1>0, <1>1 DEF LifeInv, LifeTypeOK
  <2>2. parties'[p] = parties[p]
    BY <1>2, <2>1 DEF Disbands
  <2>3. CASE p \in missed
    BY <2>2, <2>3 DEF LifeInv, OnlyBrokenGroupsMiss
  <2>4. CASE p \in Reached(S) /\ ~Whole(p)
    BY <2>1, <2>2, <2>4 DEF Whole, LifeInv, Indexed
  <2> QED BY <1>0, <2>3, <2>4
<1> QED BY <1>3, <1>4, <1>5, <1>6, <1>7, <1>8 DEF LifeInv

LEMMA LifeStepKeeps == LifeInv /\ [LifeNext]_lifeVars => LifeInv'
<1> SUFFICES ASSUME LifeInv, [LifeNext]_lifeVars PROVE LifeInv'
  OBVIOUS
<1>1. CASE UNCHANGED lifeVars
  <2>1. UNCHANGED <<Born, Indexed, TombsKept, VersionsKept, RulesKept, RulesGiven>>
    BY <1>1 DEF lifeVars, Born, Indexed, TombsKept, LastDeaths, VersionsKept, RulesKept, RulesGiven
  <2>2. UNCHANGED <<Transients(Party), OfKind("input"), OfKind("derived")>>
    BY <1>1, <2>1 DEF lifeVars, Transients, OfKind
  <2>3. Counted'
    BY <1>1, <2>1, <2>2 DEF lifeVars, LifeInv, Counted
  <2>4. LifeTypeOK' /\ OnlyBrokenGroupsMiss'
    BY <1>1, <2>1 DEF lifeVars, LifeInv, LifeTypeOK, OnlyBrokenGroupsMiss
  <2> QED BY <2>1, <2>3, <2>4 DEF LifeInv
<1> QED BY <1>1, RegisterKeepsIt, DisposeKeepsIt, SubscribeKeepsIt, UnsubscribeKeepsIt,
           ChangesKeepIt DEF LifeNext, Rests

-----------------------------------------------------------------------------

\* The tombstones are those with fewer than TombCap later last disposals.
LEMMA TombsAreNewest == LifeInv => TombstonesAreTheLast
<1> SUFFICES ASSUME LifeInv PROVE TombstonesAreTheLast
  OBVIOUS
<1>1. /\ tombs \subseteq LastDeaths /\ IsFiniteSet(tombs) /\ Cardinality(tombs) <= TombCap
      /\ \A k \in tombs : \A m \in LastDeaths : m > k => m \in tombs
      /\ tombs = LastDeaths \/ Cardinality(tombs) = TombCap
      /\ TombCap \in Nat /\ Cardinality(tombs) \in Nat
  BY LifeBounds, FS_CardinalityType DEF LifeInv, TombsKept
<1>2. IsFiniteSet(LastDeaths) /\ LastDeaths \subseteq Nat
  <2>1. DOMAIN deaths = 1..Len(deaths) /\ Len(deaths) \in Nat /\ LastDeaths \in SUBSET DOMAIN deaths
    BY LifeIs DEF LifeFacts, LastDeaths
  <2>2. IsFiniteSet(1..Len(deaths))
    BY <2>1, FS_Interval
  <2> QED BY <2>1, <2>2, FS_Subset
<1>3. ASSUME NEW k \in tombs PROVE Cardinality({m \in LastDeaths : m > k}) < TombCap
  <2>1. {m \in LastDeaths : m > k} \in SUBSET (tombs \ {k})
    <3>1. k \in Nat
      BY <1>1, <1>2
    <3>2. \A m \in LastDeaths : m > k => m \in tombs /\ m # k
      BY <1>1, <1>2, <3>1
    <3> QED BY <3>2
  <2>2. IsFiniteSet(tombs \ {k}) /\ Cardinality(tombs \ {k}) = Cardinality(tombs) - 1
    BY <1>1, FS_RemoveElement
  <2>3. Cardinality({m \in LastDeaths : m > k}) \in Nat
        /\ Cardinality({m \in LastDeaths : m > k}) <= Cardinality(tombs \ {k})
    BY <2>1, <2>2, FS_Subset, FS_CardinalityType
  <2> QED BY <1>1, <2>2, <2>3
<1>4. ASSUME NEW k \in LastDeaths \ tombs PROVE ~(Cardinality({m \in LastDeaths : m > k}) < TombCap)
  <2>1. Cardinality(tombs) = TombCap
    BY <1>1, <1>4
  <2>2. tombs \in SUBSET {m \in LastDeaths : m > k}
    <3>1. ASSUME NEW m \in tombs PROVE m > k
      <4>1. m \in Nat /\ k \in Nat /\ m # k /\ ~(k > m)
        BY <1>1, <1>2, <1>4
      <4> QED BY <4>1
    <3> QED BY <1>1, <3>1
  <2>3. IsFiniteSet({m \in LastDeaths : m > k})
    <3>1. {m \in LastDeaths : m > k} \in SUBSET LastDeaths
      OBVIOUS
    <3> QED BY <1>2, <3>1, FS_Subset
  <2>4. Cardinality({m \in LastDeaths : m > k}) \in Nat
        /\ Cardinality(tombs) <= Cardinality({m \in LastDeaths : m > k})
    BY <2>2, <2>3, FS_Subset, FS_CardinalityType
  <2> QED BY <1>1, <2>1, <2>4
<1> QED BY <1>1, <1>3, <1>4 DEF TombstonesAreTheLast

\* LivesSound of MCHistory, for any ids, groups and caps and any number of
\* registrations: what stats() reports is there, the tombstones are of the last
\* disposals, a version counts one life, an input is held to the rule last given
\* for its id, and a group misses a change only when a node of it is gone.
THEOREM LivesAreSound == LifeSpec => []LivesSound
<1>1. ASSUME LifeInv PROVE LivesSound
  <2>1. StatsAreTrue
    <3>1. /\ Stats.inputs = Cardinality({i \in Born : born[i].kind = "input"})
          /\ Stats.deriveds = Cardinality({i \in Born : born[i].kind = "derived"})
          /\ Stats.transient = Cardinality(Transients(Party))
      BY <1>1 DEF Stats, LifeInv, Counted, OfKind
    <3>2. \A i \in Id : byNode[i] = {p \in Party : i \in parties[p].members}
      BY <1>1 DEF LifeInv, Indexed
    <3>3. {i \in Id : byNode[i] # {}} = UNION {parties[p].members : p \in Party}
      <4>1. \A p \in Party : parties[p].members \subseteq Id
        BY <1>1 DEF LifeInv, LifeTypeOK
      <4> QED BY <3>2, <4>1
    <3>4. Stats.byNodeKeys = Cardinality(UNION {parties[p].members : p \in Party})
      BY <3>3 DEF Stats
    <3> QED BY <3>1, <3>2, <3>4 DEF StatsAreTrue
  <2>2. VersionsCountOneLife
    BY <1>1 DEF VersionsCountOneLife, Stats, LifeInv, LifeTypeOK, VersionsKept
  <2>3. RuleIsOfTheLastGiver
    <3> SUFFICES ASSUME NEW i \in Id
                 PROVE LET givers == {n \in DOMAIN regs : regs[n].id = i /\ regs[n].ruled}
                       IN IF givers = {} THEN i \notin DOMAIN rules
                          ELSE i \in DOMAIN rules /\ rules[i] = Max(givers)
      BY DEF RuleIsOfTheLastGiver
    <3> DEFINE givers == {n \in DOMAIN regs : regs[n].id = i /\ regs[n].ruled}
    <3>1. i \in DOMAIN rules => rules[i] \in givers /\ \A n \in givers : n \in Int /\ rules[i] >= n
      BY <1>1, LifeIs DEF LifeFacts, LifeInv, RulesKept, RulesGiven
    <3>2. givers # {} => i \in DOMAIN rules
      BY <1>1 DEF LifeInv, RulesKept
    <3> HIDE DEF givers
    <3>3. i \in DOMAIN rules => rules[i] = Max(givers)
      BY <3>1, MaxIs
    <3> QED BY <3>1, <3>2, <3>3 DEF givers
  <2>4. OnlyBrokenGroupsMiss
    BY <1>1 DEF LifeInv
  <2> QED BY <1>1, <2>1, <2>2, <2>3, <2>4, TombsAreNewest DEF LivesSound
<1> QED BY LifeInitHolds, LifeStepKeeps, <1>1, PTL DEF LifeSpec

-----------------------------------------------------------------------------
(* What is told of a node.  A lineage is the least set with the node and   *)
(* what its members read.                                                  *)

\* A lineage is the least set of registered nodes that has the node and all
\* that its members read.
LEMMA LineageIs ==
  ASSUME NEW f, NEW n \in DOMAIN f, \A k \in DOMAIN f : f[k].deps \subseteq DOMAIN f
  PROVE  /\ n \in Lineage(n, f) /\ Lineage(n, f) \subseteq DOMAIN f
         /\ \A k \in Lineage(n, f) : f[k].deps \subseteq Lineage(n, f)
         /\ \A T \in SUBSET DOMAIN f :
              n \in T /\ (\A k \in T : f[k].deps \subseteq T) => Lineage(n, f) \subseteq T
<1>1. Lineage(n, f) = {m \in DOMAIN f : \A T \in SUBSET DOMAIN f :
                         n \in T /\ (\A k \in T : f[k].deps \subseteq T) => m \in T}
  BY DEF Lineage, DependenciesOf
<1>2. ASSUME NEW k \in Lineage(n, f), NEW m \in f[k].deps PROVE m \in Lineage(n, f)
  BY <1>1, <1>2
<1>3. n \in Lineage(n, f)
  BY <1>1
<1> QED
  BY <1>1, <1>2, <1>3

\* It stays as it is when its members do.
LEMMA LineageKept ==
  ASSUME NEW f, NEW g, NEW n \in DOMAIN f \cap DOMAIN g,
         \A k \in DOMAIN f : f[k].deps \subseteq DOMAIN f,
         \A k \in DOMAIN g : g[k].deps \subseteq DOMAIN g,
         \A k \in Lineage(n, f) : k \in DOMAIN g /\ g[k] = f[k]
  PROVE  BuildExplanation(n, g) = BuildExplanation(n, f)
<1> DEFINE L == Lineage(n, f)
           M == Lineage(n, g)
<1>1. /\ n \in L /\ L \in SUBSET DOMAIN f
      /\ \A k \in L : f[k].deps \subseteq L
      /\ \A T \in SUBSET DOMAIN f : n \in T /\ (\A k \in T : f[k].deps \subseteq T) => L \subseteq T
  BY LineageIs
<1>2. /\ n \in M /\ M \in SUBSET DOMAIN g
      /\ \A k \in M : g[k].deps \subseteq M
      /\ \A T \in SUBSET DOMAIN g : n \in T /\ (\A k \in T : g[k].deps \subseteq T) => M \subseteq T
  BY LineageIs
<1>3. \A k \in L : k \in DOMAIN g /\ g[k] = f[k]
  OBVIOUS
<1> HIDE DEF L, M
<1>4. M \subseteq L
  <2>1. L \in SUBSET DOMAIN g /\ \A k \in L : g[k].deps \subseteq L
    BY <1>1, <1>3
  <2> QED
    BY <1>1, <1>2, <2>1
<1>5. L \subseteq M
  <2>1. M \in SUBSET DOMAIN f /\ \A k \in M : f[k].deps \subseteq M
    BY <1>1, <1>2, <1>3, <1>4
  <2> QED
    BY <1>1, <1>2, <2>1
<1>6. L = M /\ [m \in M |-> g[m]] = [m \in L |-> f[m]]
  BY <1>3, <1>4, <1>5
<1> QED
  BY <1>6 DEF BuildExplanation, L, M

-----------------------------------------------------------------------------
(* Explanations: each shows the lineage the graph has now.                 *)

ReadsOf(n) == IF n \in Leaf THEN {} ELSE ReadBy(n, Values)

FactsSound ==
  \A n \in Live :
    /\ n \in Knots
    /\ facts[n] \in [value : {0, 1}, time : 0..clock, deps : SUBSET Live]
    /\ facts[n].deps = ReadsOf(n)

ExplainInv ==
  /\ clock \in 0..MaxClock
  /\ FactsSound
  /\ DOMAIN handles \subseteq Knots /\ DOMAIN told = LiveHandles
  /\ \A n \in LiveHandles : n \in Live /\ told[n] = BuildExplanation(n, facts)

LEMMA ReadBySame ==
  ASSUME NEW d, NEW f, NEW g, f[Gate[d]] = g[Gate[d]] PROVE ReadBy(d, f) = ReadBy(d, g)
  BY DEF ReadBy

LEMMA Parities == \A d, held : IsFiniteSet(ReadBy(d, held)) => Parity(d, held) \in {0, 1}
<1> SUFFICES ASSUME NEW d, NEW held, IsFiniteSet(ReadBy(d, held)) PROVE Parity(d, held) \in {0, 1}
  OBVIOUS
<1>1. {n \in ReadBy(d, held) : held[n] = 1} \in SUBSET ReadBy(d, held)
  OBVIOUS
<1>2. Cardinality({n \in ReadBy(d, held) : held[n] = 1}) \in Nat
  BY <1>1, FS_Subset, FS_CardinalityType
<1> QED
  BY <1>2 DEF Parity

LEMMA FiniteReads == \A d \in Knots \ Leaf : \A held : IsFiniteSet(ReadBy(d, held))
<1> SUFFICES ASSUME NEW d \in Knots \ Leaf, NEW held PROVE IsFiniteSet(ReadBy(d, held))
  OBVIOUS
<1>1. IsFiniteSet(Rest[d])
  BY ChainAssumption DEF Knots, ToSet
<1>2. IsFiniteSet({Gate[d]}) /\ IsFiniteSet({Gate[d]} \cup Rest[d]) /\ IsFiniteSet({Gate[d]} \cup {})
  BY <1>1, FS_Singleton, FS_Union, FS_EmptySet
<1> QED
  BY <1>2 DEF ReadBy

\* No node reads itself.
LEMMA NeverItself == \A d \in Knots \ Leaf : \A held : d \notin ReadBy(d, held)
<1> SUFFICES ASSUME NEW d \in Knots \ Leaf, NEW held PROVE d \notin ReadBy(d, held)
  OBVIOUS
<1> DEFINE At == {k \in 1..Len(Chain) : Chain[k] = d}
<1>1. /\ DOMAIN Chain = 1..Len(Chain) /\ Len(Chain) \in Nat
  BY ChainAssumption
<1>2. At \in SUBSET Nat /\ At # {}
  BY <1>1 DEF Knots, ToSet
<1>3. PICK k \in At : \A j \in At : k <= j
  BY <1>2, MinIs
<1>4. ({Gate[d]} \cup Rest[d]) \subseteq Leaf \cup {Chain[j] : j \in 1..(k - 1)}
  BY <1>1, <1>3, ChainAssumption
<1>5. ASSUME NEW j \in 1..(k - 1), Chain[j] = d PROVE FALSE
  <2>1. j \in At /\ j < k /\ k \in Nat /\ j \in Nat
    BY <1>1, <1>3, <1>5
  <2> QED
    BY <1>3, <2>1
<1>6. d \notin {Gate[d]} \cup Rest[d]
  BY <1>4, <1>5
<1> QED
  BY <1>6 DEF ReadBy

LEMMA ExplainInitHolds == ExplainInit => ExplainInv
  BY MaxClockAssumption DEF ExplainInit, ExplainInv, FactsSound, Live, LiveHandles

LEMMA AddKeeps == ASSUME ExplainInv, NEW n, AddKnot(n) PROVE ExplainInv'
<1>1. /\ n \in Knots /\ n \notin Live /\ clock' = clock /\ handles' = handles /\ told' = told
      /\ Live' = Live \cup {n}
      /\ \A m \in Live : facts'[m] = facts[m]
  BY DEF AddKnot, Joined, Live
<1>2. \A m \in Live : /\ facts[m].deps \subseteq Live /\ facts[m].deps \subseteq Live'
                      /\ Values'[m] = Values[m] /\ facts[m].value \in {0, 1}
  BY <1>1 DEF ExplainInv, FactsSound, Values
<1>3. \A m \in Live : ReadsOf(m)' = ReadsOf(m)
  <2> SUFFICES ASSUME NEW m \in Live \ Leaf PROVE ReadBy(m, Values') = ReadBy(m, Values)
    BY DEF ReadsOf
  <2>1. Gate[m] \in Live
    BY DEF ExplainInv, FactsSound, ReadBy, ReadsOf
  <2> QED
    BY <1>2, <2>1, ReadBySame
<1>4. /\ facts'[n] \in [value : {0, 1}, time : 0..clock, deps : SUBSET Live]
      /\ facts'[n].deps = ReadsOf(n)'
  <2>1. CASE n \in Leaf
    <3>1. PICK v \in {0, 1} : facts'[n] = [value |-> v, time |-> clock, deps |-> {}]
      BY <2>1 DEF AddKnot, Joined
    <3> QED
      BY <2>1, <3>1 DEF ReadsOf, ExplainInv
  <2>2. CASE n \notin Leaf
    <3>1. /\ Gate[n] \in Live /\ ReadBy(n, Values) \subseteq Live
          /\ facts'[n] = [value |-> Parity(n, Values), time |-> clock, deps |-> ReadBy(n, Values)]
      BY <1>1, <2>2 DEF AddKnot, Joined, ReadBy, Evaluated
    <3>2. Parity(n, Values) \in {0, 1}
      BY <1>1, <2>2, Parities, FiniteReads
    <3>3. ReadBy(n, Values') = ReadBy(n, Values)
      BY <1>2, <3>1, ReadBySame
    <3> QED
      BY <2>2, <3>1, <3>2, <3>3 DEF ReadsOf, ExplainInv
  <2> QED
    BY <2>1, <2>2
<1>5. FactsSound'
  <2> SUFFICES ASSUME NEW m \in Live'
               PROVE  /\ m \in Knots
                      /\ facts'[m] \in [value : {0, 1}, time : 0..clock, deps : SUBSET Live']
                      /\ facts'[m].deps = ReadsOf(m)'
    BY <1>1 DEF FactsSound
  <2>1. CASE m = n
    BY <1>1, <1>4, <2>1
  <2>2. CASE m \in Live
    BY <1>1, <1>3, <2>2 DEF ExplainInv, FactsSound
  <2> QED
    BY <1>1, <2>1, <2>2
<1>6. ASSUME NEW m \in LiveHandles PROVE m \in Live' /\ told[m] = BuildExplanation(m, facts')
  <2>0. PICK g : g = facts'
    OBVIOUS
  <2>1. \A k \in DOMAIN facts : facts[k].deps \subseteq DOMAIN facts
    BY DEF ExplainInv, FactsSound, Live
  <2>2. \A k \in DOMAIN g : g[k].deps \subseteq DOMAIN g
    BY <1>5, <2>0 DEF FactsSound, Live
  <2>3. m \in DOMAIN facts \cap DOMAIN g
    BY <1>1, <2>0 DEF ExplainInv, Live
  <2>4. \A k \in Lineage(m, facts) : k \in DOMAIN g /\ g[k] = facts[k]
    BY <1>1, <2>0, <2>1, <2>3, LineageIs DEF Live
  <2>5. BuildExplanation(m, g) = BuildExplanation(m, facts)
    BY <2>1, <2>2, <2>3, <2>4, LineageKept
  <2> QED
    BY <1>1, <2>0, <2>5 DEF ExplainInv
<1> QED
  BY <1>1, <1>5, <1>6 DEF ExplainInv, LiveHandles

\* Of facts of which nothing in its lineage has changed, a handle tells the same.
LEMMA ToldKept ==
  ASSUME ExplainInv, FactsSound', NEW n \in LiveHandles, n \in Live',
         \A k \in Lineage(n, facts) : k \in Live' /\ facts'[k] = facts[k]
  PROVE  told[n] = BuildExplanation(n, facts')
<1>0. PICK g : g = facts'
  OBVIOUS
<1>1. \A k \in DOMAIN facts : facts[k].deps \subseteq DOMAIN facts
  BY DEF ExplainInv, FactsSound, Live
<1>2. \A k \in DOMAIN g : g[k].deps \subseteq DOMAIN g
  BY <1>0 DEF FactsSound, Live
<1>3. n \in DOMAIN facts \cap DOMAIN g
  BY <1>0 DEF ExplainInv, Live
<1>4. \A k \in Lineage(n, facts) : k \in DOMAIN g /\ g[k] = facts[k]
  BY <1>0 DEF Live
<1>5. BuildExplanation(n, g) = BuildExplanation(n, facts)
  BY <1>1, <1>2, <1>3, <1>4, LineageKept
<1> QED
  BY <1>0, <1>5 DEF ExplainInv

LEMMA LineageOf ==
  ASSUME ExplainInv, NEW n \in LiveHandles
  PROVE  /\ n \in Lineage(n, facts) /\ Lineage(n, facts) \subseteq Live
         /\ \A k \in Lineage(n, facts) : facts[k].deps \subseteq Lineage(n, facts)
         /\ told[n].deps = Lineage(n, facts)
<1>1. n \in DOMAIN facts /\ \A k \in DOMAIN facts : facts[k].deps \subseteq DOMAIN facts
  BY DEF ExplainInv, FactsSound, Live
<1>2. told[n].deps = Lineage(n, facts)
  BY DEF ExplainInv, BuildExplanation
<1> QED
  BY <1>1, <1>2, LineageIs DEF Live

LEMMA DisposeKnotKeeps == ASSUME ExplainInv, NEW n, DisposeKnot(n) PROVE ExplainInv'
<1>1. /\ n \in Live /\ Live' = Live \ {n} /\ clock' = clock /\ handles' = handles /\ told' = told
      /\ \A m \in Live' : facts'[m] = facts[m]
      /\ \A m \in Live : n \notin facts[m].deps
      /\ \A m \in LiveHandles : n \notin told[m].deps
  BY DEF DisposeKnot, Live, DependentsOf, ExplainedBy
<1>2. \A m \in Live' : facts[m].deps \subseteq Live' /\ Values'[m] = Values[m]
  BY <1>1 DEF ExplainInv, FactsSound, Values
<1>3. \A m \in Live' : ReadsOf(m)' = ReadsOf(m)
  <2> SUFFICES ASSUME NEW m \in Live' \ Leaf PROVE ReadBy(m, Values') = ReadBy(m, Values)
    BY DEF ReadsOf
  <2>1. facts[m].deps = ReadBy(m, Values) /\ facts[m].deps \subseteq Live'
    BY <1>1, <1>2 DEF ExplainInv, FactsSound, ReadsOf
  <2>2. Gate[m] \in Live'
    BY <2>1 DEF ReadBy
  <2> QED
    BY <1>2, <2>2, ReadBySame
<1>4. FactsSound'
  <2> SUFFICES ASSUME NEW m \in Live'
               PROVE  /\ m \in Knots
                      /\ facts'[m] \in [value : {0, 1}, time : 0..clock, deps : SUBSET Live']
                      /\ facts'[m].deps = ReadsOf(m)'
    BY <1>1 DEF FactsSound
  <2>1. facts[m] \in [value : {0, 1}, time : 0..clock, deps : SUBSET Live] /\ m \in Knots
        /\ facts[m].deps = ReadsOf(m)
    BY <1>1 DEF ExplainInv, FactsSound
  <2> QED
    BY <1>1, <1>2, <1>3, <2>1
<1>5. ASSUME NEW m \in LiveHandles PROVE m \in Live' /\ told[m] = BuildExplanation(m, facts')
  <2>1. /\ m \in Lineage(m, facts) /\ Lineage(m, facts) \subseteq Live
        /\ told[m].deps = Lineage(m, facts)
    BY LineageOf
  <2>2. \A k \in Lineage(m, facts) : k \in Live' /\ facts'[k] = facts[k]
    BY <1>1, <2>1
  <2> QED
    BY <1>4, <2>1, <2>2, ToldKept
<1> QED
  BY <1>1, <1>4, <1>5 DEF ExplainInv, LiveHandles

LEMMA AskKeeps == ASSUME ExplainInv, NEW n, Ask(n) PROVE ExplainInv'
<1>1. /\ n \in Live /\ n \notin DOMAIN handles
      /\ UNCHANGED <<clock, facts, Live, FactsSound>>
      /\ DOMAIN handles' = DOMAIN handles \cup {n} /\ DOMAIN told' = DOMAIN told \cup {n}
      /\ \A m \in DOMAIN handles' : handles'[m] = IF m = n THEN "live" ELSE handles[m]
      /\ \A m \in DOMAIN told' : told'[m] = IF m = n THEN BuildExplanation(n, facts) ELSE told[m]
  BY DEF Ask, Joined, Live, FactsSound, ReadsOf, Values
<1>2. LiveHandles' = LiveHandles \cup {n}
  BY <1>1 DEF LiveHandles
<1>3. n \in Knots
  BY <1>1 DEF ExplainInv, FactsSound
<1>4. ASSUME NEW m \in LiveHandles' PROVE m \in Live' /\ told'[m] = BuildExplanation(m, facts')
  BY <1>1, <1>2 DEF ExplainInv
<1> QED
  BY <1>1, <1>2, <1>3, <1>4 DEF ExplainInv

LEMMA DisposeHandleKeeps == ASSUME ExplainInv, NEW n, DisposeHandle(n) PROVE ExplainInv'
<1>1. /\ n \in LiveHandles
      /\ UNCHANGED <<clock, facts, Live, FactsSound>>
      /\ DOMAIN handles' = DOMAIN handles /\ DOMAIN told' = DOMAIN told \ {n}
      /\ \A m \in DOMAIN handles' : handles'[m] = IF m = n THEN "disposed" ELSE handles[m]
      /\ \A m \in DOMAIN told' : told'[m] = told[m]
  BY DEF DisposeHandle, Live, FactsSound, ReadsOf, Values, LiveHandles
<1>2. LiveHandles' = LiveHandles \ {n}
  BY <1>1 DEF LiveHandles
<1>3. ASSUME NEW m \in LiveHandles' PROVE m \in Live' /\ told'[m] = BuildExplanation(m, facts')
  BY <1>1, <1>2, <1>3 DEF ExplainInv
<1> QED
  BY <1>1, <1>2, <1>3 DEF ExplainInv

\* What a commit that comes to the values new does to the nodes.
ComesTo(S, new) ==
  /\ S # {} /\ S \subseteq Leaf \cap Live
  /\ clock < MaxClock /\ clock' = clock + 1 /\ handles' = handles
  /\ new \in [Live -> {0, 1}] /\ Walk(S, new)
  /\ facts' = [n \in Live |-> IF n \in Touched(new) THEN Evaluated(n, new)
                              ELSE IF n \in S
                              THEN [value |-> new[n], time |-> clock', deps |-> {}]
                              ELSE facts[n]]
  /\ told' = [n \in DOMAIN told |-> IF told[n].deps \cap Moved(new) = {} THEN told[n]
                                    ELSE BuildExplanation(n, facts')]

LEMMA CommitComesTo == \A S : CommitWrites(S) => \E new : ComesTo(S, new)
  BY DEF CommitWrites, ComesTo

LEMMA CommitDoes ==
  ASSUME ExplainInv, NEW S, NEW new, ComesTo(S, new)
  PROVE  /\ Live' = Live /\ S = Moved(new) \cap Leaf /\ Moved(new) \subseteq Live
         /\ \A n \in Live : facts'[n].value = new[n]
         /\ Moved(new) = {n \in Live : facts'[n].value # facts[n].value}
         /\ \A n \in Live : n \in S \cup Touched(new) => facts'[n].time = clock'
         /\ \A n \in Live \ (S \cup Touched(new)) : facts'[n] = facts[n]
         /\ \A n \in Live \ Leaf : n \in Touched(new) <=> facts'[n].deps \cap Moved(new) # {}
         /\ Touched(new) \subseteq Live \ Leaf /\ Moved(new) \subseteq S \cup Touched(new)
         /\ FactsSound'
<1>1. /\ Live' = Live /\ S = Moved(new) \cap Leaf /\ Moved(new) \subseteq S \cup Touched(new)
      /\ \A n \in Touched(new) : new[n] = Parity(n, new) /\ ReadBy(n, new) \subseteq Live
  BY DEF ComesTo, Walk, Live
<1>2. /\ Touched(new) = {d \in Live \ Leaf : facts[d].deps \cap Moved(new) # {}}
      /\ Moved(new) = {n \in Live : new[n] # facts[n].value}
  BY DEF Touched, Moved
<1>3. \A n \in Touched(new) :
        /\ n \in Live \ Leaf
        /\ facts'[n] = [value |-> new[n], time |-> clock', deps |-> ReadBy(n, new)]
  BY <1>1, <1>2 DEF ComesTo, Evaluated
<1>4. \A n \in S : n \in Live /\ n \notin Touched(new) /\ n \in Leaf
                   /\ facts'[n] = [value |-> new[n], time |-> clock', deps |-> {}]
  BY <1>1, <1>2 DEF ComesTo
<1>5. \A n \in Live \ (S \cup Touched(new)) : facts'[n] = facts[n] /\ new[n] = facts[n].value
  BY <1>1, <1>2 DEF ComesTo
<1>t. \A n \in Touched(new) : facts'[n].value = new[n] /\ facts'[n].time = clock'
                              /\ facts'[n].deps = ReadBy(n, new)
  <2> TAKE n \in Touched(new)
  <2>1. facts'[n] = [value |-> new[n], time |-> clock', deps |-> ReadBy(n, new)]
    BY <1>3
  <2> QED
    BY <2>1
<1>s. \A n \in S : facts'[n].value = new[n] /\ facts'[n].time = clock' /\ facts'[n].deps = {}
  <2> TAKE n \in S
  <2>1. facts'[n] = [value |-> new[n], time |-> clock', deps |-> {}]
    BY <1>4
  <2> QED
    BY <2>1
<1>6. \A n \in Live : facts'[n].value = new[n]
  BY <1>5, <1>t, <1>s
<1>7. Values' = new
  BY <1>1, <1>6 DEF Values, ComesTo
<1>8. /\ \A n \in Live \ Leaf : Gate[n] \in facts[n].deps /\ facts[n].deps = ReadBy(n, Values)
      /\ \A n \in Live \ Leaf : facts[n].deps \subseteq Live
      /\ \A n \in Live \cap Leaf : facts[n].deps = {}
  BY DEF ExplainInv, FactsSound, ReadsOf, ReadBy
\* A node whose gate has not moved reads what it read.
<1>9. ASSUME NEW n \in Live \ Leaf, Gate[n] \notin Moved(new)
      PROVE  ReadBy(n, new) = facts[n].deps
  <2>1. new[Gate[n]] = Values[Gate[n]]
    BY <1>2, <1>8, <1>9 DEF Values
  <2> QED
    BY <1>8, <2>1, ReadBySame
<1>10. \A n \in Live \ Leaf : facts'[n].deps = ReadBy(n, new)
  <2> SUFFICES ASSUME NEW n \in Live \ Leaf PROVE facts'[n].deps = ReadBy(n, new)
    OBVIOUS
  <2>1. CASE n \in Touched(new)
    BY <1>t, <2>1
  <2>2. CASE n \notin Touched(new)
    <3>1. facts'[n] = facts[n] /\ Gate[n] \notin Moved(new)
      BY <1>1, <1>2, <1>5, <1>8, <2>2
    <3> QED
      BY <1>9, <3>1
  <2> QED
    BY <2>1, <2>2
<1>11. ASSUME NEW n \in Live \ Leaf
       PROVE  n \in Touched(new) <=> facts'[n].deps \cap Moved(new) # {}
  <2>1. CASE Gate[n] \in Moved(new)
    BY <1>2, <1>8, <1>10, <2>1 DEF ReadBy
  <2>2. CASE Gate[n] \notin Moved(new)
    BY <1>2, <1>9, <1>10, <2>2
  <2> QED
    BY <2>1, <2>2
<1>12. FactsSound'
  <2> SUFFICES ASSUME NEW n \in Live
               PROVE  /\ n \in Knots
                      /\ facts'[n] \in [value : {0, 1}, time : 0..clock', deps : SUBSET Live]
                      /\ facts'[n].deps = ReadsOf(n)'
    BY <1>1 DEF FactsSound
  <2>1. clock \in Nat /\ clock' = clock + 1 /\ n \in Knots
        /\ facts[n] \in [value : {0, 1}, time : 0..clock, deps : SUBSET Live]
    BY DEF ExplainInv, FactsSound, ComesTo
  <2>2. clock' \in 0..clock' /\ \A t \in 0..clock : t \in 0..clock'
    BY <2>1
  <2>3. new[n] \in {0, 1}
    BY DEF ComesTo
  <2>4. facts'[n] \in [value : {0, 1}, time : 0..clock', deps : SUBSET Live]
    <3>1. CASE n \in Touched(new)
      <4>1. facts'[n] = [value |-> new[n], time |-> clock', deps |-> ReadBy(n, new)]
            /\ ReadBy(n, new) \in SUBSET Live
        BY <1>1, <1>3, <3>1
      <4> QED
        BY <2>2, <2>3, <4>1
    <3>2. CASE n \in S
      <4>1. facts'[n] = [value |-> new[n], time |-> clock', deps |-> {}]
        BY <1>4, <3>2
      <4> QED
        BY <2>2, <2>3, <4>1
    <3>3. CASE n \in Live \ (S \cup Touched(new))
      BY <1>5, <2>1, <2>2, <3>3
    <3> QED
      BY <3>1, <3>2, <3>3
  <2>5. facts'[n].deps = ReadsOf(n)'
    <3>1. CASE n \in Leaf
      <4>1. n \notin Touched(new)
        BY <1>2, <3>1
      <4>2. facts'[n].deps = {}
        BY <1>5, <1>8, <1>s, <3>1, <4>1
      <4> QED
        BY <3>1, <4>2 DEF ReadsOf
    <3>2. CASE n \notin Leaf
      BY <1>7, <1>10, <3>2 DEF ReadsOf
    <3> QED
      BY <3>1, <3>2
  <2> QED
    BY <2>1, <2>4, <2>5
<1> QED
  <2>1. Moved(new) = {n \in Live : facts'[n].value # facts[n].value}
    BY <1>2, <1>6
  <2>2. \A n \in S \cup Touched(new) : facts'[n].time = clock'
    BY <1>s, <1>t
  <2>3. Moved(new) \subseteq Live /\ Touched(new) \subseteq Live \ Leaf
    BY <1>2
  <2> QED
    BY <1>1, <1>5, <1>6, <1>11, <1>12, <2>1, <2>2, <2>3

LEMMA CommitWritesKeeps ==
  ASSUME ExplainInv, NEW S, NEW new, ComesTo(S, new)
  PROVE  /\ ExplainInv' /\ LiveHandles' = LiveHandles
         /\ \A n \in LiveHandles : Lineage(n, facts) \cap Moved(new) = {} => told'[n] = told[n]
<1>1. /\ Live' = Live /\ S = Moved(new) \cap Leaf /\ FactsSound' /\ Moved(new) \subseteq Live
      /\ \A n \in Live \ (S \cup Touched(new)) : facts'[n] = facts[n]
  BY CommitDoes
<1>2. /\ clock' = clock + 1 /\ handles' = handles /\ LiveHandles' = LiveHandles
      /\ DOMAIN told' = LiveHandles
      /\ \A n \in LiveHandles : told'[n] = IF told[n].deps \cap Moved(new) = {} THEN told[n]
                                           ELSE BuildExplanation(n, facts')
  BY DEF ComesTo, LiveHandles, ExplainInv
<1>3. ASSUME NEW n \in LiveHandles
      PROVE  /\ n \in Live' /\ told'[n] = BuildExplanation(n, facts')
             /\ Lineage(n, facts) \cap Moved(new) = {} => told'[n] = told[n]
  <2>1. /\ n \in Lineage(n, facts) /\ Lineage(n, facts) \subseteq Live
        /\ \A k \in Lineage(n, facts) : facts[k].deps \subseteq Lineage(n, facts)
        /\ told[n].deps = Lineage(n, facts)
    BY LineageOf
  <2>2. CASE Lineage(n, facts) \cap Moved(new) = {}
    <3>1. \A k \in Lineage(n, facts) : k \notin S /\ k \notin Touched(new)
      BY <1>1, <2>1, <2>2 DEF Touched
    <3>2. \A k \in Lineage(n, facts) : k \in Live' /\ facts'[k] = facts[k]
      BY <1>1, <2>1, <3>1
    <3>3. told[n] = BuildExplanation(n, facts')
      BY <1>1, <2>1, <3>2, ToldKept
    <3> QED
      BY <1>1, <1>2, <2>1, <2>2, <3>3
  <2>3. CASE Lineage(n, facts) \cap Moved(new) # {}
    BY <1>1, <1>2, <2>1, <2>3
  <2> QED
    BY <2>2, <2>3
<1> QED
  BY <1>1, <1>2, <1>3, MaxClockAssumption DEF ExplainInv, ComesTo

LEMMA ExplainStepKeeps == ExplainInv /\ [ExplainNext]_explainVars => ExplainInv'
<1> SUFFICES ASSUME ExplainInv, [ExplainNext]_explainVars PROVE ExplainInv'
  OBVIOUS
<1>1. CASE UNCHANGED explainVars
  BY <1>1 DEF explainVars, ExplainInv, FactsSound, ReadsOf, Values, Live, LiveHandles
<1>2. ASSUME NEW S, CommitWrites(S) PROVE ExplainInv'
  BY <1>2, CommitComesTo, CommitWritesKeeps
<1> QED
  BY <1>1, <1>2, AddKeeps, DisposeKnotKeeps, AskKeeps, DisposeHandleKeeps DEF ExplainNext


LEMMA ExplainInvSays == ExplainInv => ExplainSound /\ ExplainTypeOK
<1> SUFFICES ASSUME ExplainInv PROVE ExplainSound /\ ExplainTypeOK
  OBVIOUS
<1>1. ExplanationIsCurrent
  BY DEF ExplanationIsCurrent, ExplainInv, BuildExplanation
<1>2. \A n \in LiveHandles : told[n].deps \subseteq Live
  BY LineageOf
<1>3. \A n \in Live : facts[n].deps \subseteq Live
  BY DEF ExplainInv, FactsSound
<1>4. ExportIsClosed
  <2>1. DOMAIN ExportModel = Live \cup (LiveHandles \X {"explain"})
    BY DEF ExportModel
  <2>2. ASSUME NEW n \in DOMAIN ExportModel PROVE ExportModel[n] \subseteq Live
    <3>1. CASE n \in Live
      BY <1>3, <2>1, <3>1 DEF ExportModel, DependenciesOf
    <3>2. CASE n \notin Live
      <4>1. n[1] \in LiveHandles /\ ExportModel[n] = told[n[1]].deps
        BY <2>1, <2>2, <3>2 DEF ExportModel
      <4> QED
        BY <1>2, <4>1
    <3> QED
      BY <3>1, <3>2
  <2> QED
    BY <2>1, <2>2 DEF ExportIsClosed
<1>5. ExplainTypeOK
  BY <1>2 DEF ExplainInv, FactsSound, ExplainTypeOK
<1> QED
  BY <1>1, <1>4, <1>5 DEF ExplainSound

-----------------------------------------------------------------------------
(* The explainers of the devtools: what the rows of the log, the history   *)
(* variables and the graph have to do with each other.                     *)

LogRow == [time : Nat, changed : SUBSET Knots]

RowsInOrder ==
  /\ logged \in Seq(LogRow) /\ Len(logged) <= LogCap /\ Len(logged) <= clock
  /\ \A k \in 1..Len(logged) : logged[k].time = clock - Len(logged) + k

SinceThen ==
  /\ Live \subseteq DOMAIN since /\ DOMAIN causes \subseteq DOMAIN since
  /\ \A n \in Live : since[n] \in 0..clock

CausesTrue ==
  /\ \A n \in Live : \A k \in 1..Len(logged) :
       logged[k].time > since[n] /\ n \in logged[k].changed
         => n \in DOMAIN causes /\ logged[k].time <= causes[n].time
  /\ \A n \in Live \cap DOMAIN causes :
       /\ causes[n].time \in (since[n] + 1)..clock
       /\ n \notin causes[n].read /\ (causes[n].because = {} <=> n \in Leaf)
       /\ \A k \in 1..Len(logged) : logged[k].time = causes[n].time =>
            n \in logged[k].changed /\ causes[n].because = causes[n].read \cap logged[k].changed

StillTrue ==
  \A n \in Live : \A k \in 1..Len(logged) :
    logged[k].time = clock /\ since[n] < clock =>
      (facts[n].time = clock <=> n \in logged[k].changed
                                 \/ facts[n].deps \cap logged[k].changed # {})

WhysTrue == /\ DOMAIN whys \subseteq LiveHandles
            /\ \A n \in DOMAIN whys : whys[n] = Answers(n, logged, told)

WatchTrue ==
  /\ DOMAIN watched \subseteq LiveHandles
  /\ \A n \in DOMAIN watched :
       /\ watched[n].frames = told[n].frames
       /\ \A m \in DOMAIN watched[n].frames :
            watched[n].frames[m].time <= watched[n].inspectedAt

WindowTrue == window = <<>> \/ window = <<WindowOf(logged)>>

WhyInv == /\ ExplainInv /\ RowsInOrder /\ SinceThen /\ CausesTrue /\ StillTrue
          /\ WhysTrue /\ WatchTrue /\ WindowTrue /\ gone \in 0..MaxLost

LEMMA WhyInitHolds == ExplainInit /\ WhyInit => WhyInv
<1> SUFFICES ASSUME ExplainInit, WhyInit PROVE WhyInv
  OBVIOUS
<1>1. /\ logged = <<>> /\ whys = <<>> /\ window = <<>> /\ watched = <<>>
      /\ gone = 0 /\ since = <<>> /\ causes = <<>> /\ clock = 0 /\ Live = {}
  BY DEF WhyInit, ExplainInit, Live
<1>2. Len(logged) = 0 /\ DOMAIN whys = {} /\ DOMAIN watched = {} /\ DOMAIN causes = {}
      /\ logged \in Seq(LogRow)
  BY <1>1
<1>3. RowsInOrder /\ SinceThen /\ CausesTrue /\ StillTrue
  BY <1>1, <1>2, WhyAssumption DEF RowsInOrder, SinceThen, CausesTrue, StillTrue
<1> QED
  BY <1>1, <1>2, <1>3, ExplainInitHolds, WhyAssumption DEF WhyInv, WhysTrue, WatchTrue, WindowTrue

\* What is asked or opened leaves the nodes, the log and its history alone.
LEMMA Undisturbed ==
  ASSUME RowsInOrder /\ SinceThen /\ CausesTrue /\ StillTrue,
         UNCHANGED <<clock, facts, logged, since, causes>>
  PROVE  (RowsInOrder /\ SinceThen /\ CausesTrue /\ StillTrue)'
  BY DEF RowsInOrder, SinceThen, CausesTrue, StillTrue, Live

LEMMA ExplainedDoes ==
  ASSUME ExplainInv, NEW n \in Live, Explained(n)
  PROVE  /\ ExplainInv' /\ UNCHANGED <<clock, facts>>
         /\ n \in LiveHandles' /\ LiveHandles \subseteq LiveHandles'
         /\ \A m \in LiveHandles : told'[m] = told[m]
<1>1. CASE Ask(n)
  <2>1. ExplainInv' /\ UNCHANGED <<clock, facts>>
    BY <1>1, AskKeeps DEF Ask
  <2>2. /\ n \notin DOMAIN handles /\ DOMAIN handles' = DOMAIN handles \cup {n}
        /\ \A m \in DOMAIN handles' : handles'[m] = IF m = n THEN "live" ELSE handles[m]
        /\ \A m \in DOMAIN told : m # n => told'[m] = told[m]
    BY <1>1 DEF Ask, Joined
  <2>3. \A m \in LiveHandles : m \in DOMAIN told /\ m # n
    BY <2>2 DEF ExplainInv, LiveHandles
  <2> QED
    BY <2>1, <2>2, <2>3 DEF LiveHandles
<1>2. CASE n \in LiveHandles /\ UNCHANGED explainVars
  <2>1. UNCHANGED <<clock, facts, handles, told>>
    BY <1>2 DEF explainVars
  <2> QED
    BY <1>2, <2>1 DEF ExplainInv, FactsSound, ReadsOf, Values, Live, LiveHandles
<1> QED
  BY <1>1, <1>2 DEF Explained

LEMMA AnswersSame ==
  ASSUME NEW n, NEW l, NEW e, NEW f, e[n] = f[n] PROVE Answers(n, l, e) = Answers(n, l, f)
  BY DEF Answers, ResolveDirectDeps

LEMMA AskWhyKeeps == ASSUME WhyInv, NEW n, AskWhy(n) PROVE WhyInv'
<1>1. n \in Live /\ UNCHANGED <<logged, window, watched, gone, since, causes>>
  BY DEF AskWhy
<1>2. /\ ExplainInv' /\ UNCHANGED <<clock, facts>>
      /\ n \in LiveHandles' /\ LiveHandles \subseteq LiveHandles'
      /\ \A m \in LiveHandles : told'[m] = told[m]
  BY <1>1, ExplainedDoes DEF AskWhy, WhyInv
<1>3. (RowsInOrder /\ SinceThen /\ CausesTrue /\ StillTrue)'
  BY <1>1, <1>2, Undisturbed DEF WhyInv
<1>4. WhysTrue'
  <2>1. DOMAIN whys' = DOMAIN whys \cup {n}
        /\ \A m \in DOMAIN whys' : whys'[m] = IF m = n THEN Answers(n, logged, told') ELSE whys[m]
    BY DEF AskWhy, Joined
  <2>2. ASSUME NEW m \in DOMAIN whys PROVE m \in LiveHandles /\ whys[m] = Answers(m, logged, told')
    <3>1. m \in LiveHandles /\ whys[m] = Answers(m, logged, told)
      BY DEF WhyInv, WhysTrue
    <3>2. Answers(m, logged, told) = Answers(m, logged, told')
      BY <1>2, <3>1, AnswersSame
    <3> QED
      BY <3>1, <3>2
  <2> QED
    BY <1>1, <1>2, <2>1, <2>2 DEF WhysTrue
<1>5. WatchTrue'
  BY <1>1, <1>2 DEF WhyInv, WatchTrue
<1> QED
  BY <1>1, <1>2, <1>3, <1>4, <1>5 DEF WhyInv, WindowTrue

LEMMA WatchKeeps == ASSUME WhyInv, NEW n, WatchInspect(n) PROVE WhyInv'
<1>1. n \in Live /\ UNCHANGED <<logged, window, whys, gone, since, causes>>
  BY DEF WatchInspect
<1>2. /\ ExplainInv' /\ UNCHANGED <<clock, facts>>
      /\ n \in LiveHandles' /\ LiveHandles \subseteq LiveHandles'
      /\ \A m \in LiveHandles : told'[m] = told[m]
  BY <1>1, ExplainedDoes DEF WatchInspect, WhyInv
<1>3. (RowsInOrder /\ SinceThen /\ CausesTrue /\ StillTrue)'
  BY <1>1, <1>2, Undisturbed DEF WhyInv
<1>4. WhysTrue'
  <2>1. ASSUME NEW m \in DOMAIN whys PROVE m \in LiveHandles /\ whys[m] = Answers(m, logged, told')
    <3>1. m \in LiveHandles /\ whys[m] = Answers(m, logged, told)
      BY DEF WhyInv, WhysTrue
    <3>2. Answers(m, logged, told) = Answers(m, logged, told')
      BY <1>2, <3>1, AnswersSame
    <3> QED
      BY <3>1, <3>2
  <2> QED
    BY <1>1, <1>2, <2>1 DEF WhysTrue
<1>5. WatchTrue'
  <2>1. DOMAIN watched' = DOMAIN watched \cup {n}
        /\ \A m \in DOMAIN watched' : m # n => watched'[m] = watched[m]
    BY DEF WatchInspect, Joined
  <2>v. watched'[n] = [frames |-> told'[n].frames, inspectedAt |-> clock]
    BY DEF WatchInspect, Joined, ViewOf
  <2>2. \A m \in DOMAIN told'[n].frames : told'[n].frames[m].time <= clock
    <3>1. told'[n].frames = [m \in Lineage(n, facts') |-> facts'[m]]
      BY <1>2 DEF ExplainInv, BuildExplanation
    <3>2. Lineage(n, facts') \subseteq Live
      BY <1>2 DEF Lineage, Live
    <3>3. \A m \in Live : facts[m].time <= clock
      BY DEF WhyInv, ExplainInv, FactsSound
    <3> QED
      BY <1>2, <3>1, <3>2, <3>3
  <2> DEFINE W(m) == /\ m \in LiveHandles' /\ watched'[m].frames = told'[m].frames
                     /\ \A k \in DOMAIN watched'[m].frames :
                          watched'[m].frames[k].time <= watched'[m].inspectedAt
  <2>3. ASSUME NEW m \in DOMAIN watched, m # n PROVE W(m)
    <3>1. watched'[m] = watched[m] /\ m \in LiveHandles
      BY <2>1, <2>3 DEF WhyInv, WatchTrue
    <3>2. told'[m] = told[m] /\ m \in LiveHandles'
      BY <1>2, <3>1
    <3> QED
      BY <3>1, <3>2 DEF WhyInv, WatchTrue
  <2>4. W(n)
    <3>1. PICK fr : told'[n].frames = fr
      OBVIOUS
    <3>2. watched'[n].frames = fr /\ watched'[n].inspectedAt = clock
      BY <2>v, <3>1
    <3>3. \A k \in DOMAIN fr : fr[k].time <= clock
      BY <2>2, <3>1
    <3> QED
      BY <1>2, <3>1, <3>2, <3>3
  <2> HIDE DEF W
  <2>5. \A m \in DOMAIN watched' : W(m)
    BY <2>1, <2>3, <2>4
  <2> QED
    BY <2>5 DEF WatchTrue, W
<1> QED
  BY <1>1, <1>2, <1>3, <1>4, <1>5 DEF WhyInv, WindowTrue

LEMMA OpenWindowKeeps == ASSUME WhyInv, OpenWindow PROVE WhyInv'
<1>1. UNCHANGED <<clock, facts, handles, told, logged, whys, watched, gone, since, causes>>
      /\ window' = <<WindowOf(logged)>>
  BY DEF OpenWindow, explainVars
<1>2. (RowsInOrder /\ SinceThen /\ CausesTrue /\ StillTrue)'
  BY <1>1, Undisturbed DEF WhyInv
<1>3. ExplainInv' /\ LiveHandles' = LiveHandles
  BY <1>1 DEF WhyInv, ExplainInv, FactsSound, ReadsOf, Values, Live, LiveHandles
<1> QED
  BY <1>1, <1>2, <1>3 DEF WhyInv, WhysTrue, WatchTrue, WindowTrue

LEMMA ArrivesKeeps == ASSUME WhyInv, NEW n, Arrives(n) PROVE WhyInv'
<1>1. /\ UNCHANGED <<logged, whys, window, watched, gone, clock, handles, told>> /\ n \notin Live
      /\ Live' = Live \cup {n} /\ \A m \in Live : facts'[m] = facts[m]
      /\ DOMAIN since' = DOMAIN since \cup {n} /\ since'[n] = clock
      /\ \A m \in DOMAIN since : m # n => since'[m] = since[m]
      /\ DOMAIN causes' = DOMAIN causes \ {n}
      /\ \A m \in DOMAIN causes' : causes'[m] = causes[m]
  BY DEF Arrives, AddKnot, Joined, Live
<1>2. ExplainInv' /\ LiveHandles' = LiveHandles
  BY <1>1, AddKeeps DEF Arrives, WhyInv, LiveHandles
<1>3. clock \in Nat /\ RowsInOrder' /\ SinceThen'
  <2>1. clock \in Nat
    BY DEF WhyInv, ExplainInv
  <2> QED
    BY <1>1, <2>1 DEF WhyInv, RowsInOrder, SinceThen
<1>4. \A k \in 1..Len(logged) : logged[k].time <= clock
  BY <1>3 DEF WhyInv, RowsInOrder
<1>5. \A m \in Live : m # n /\ m \in DOMAIN since /\ since'[m] = since[m]
                      /\ (m \in DOMAIN causes' <=> m \in DOMAIN causes)
                      /\ (m \in DOMAIN causes => causes'[m] = causes[m])
  BY <1>1 DEF WhyInv, SinceThen
<1>6. CausesTrue'
  <2>1. ASSUME NEW m \in Live', NEW k \in 1..Len(logged),
               logged[k].time > since'[m], m \in logged[k].changed
        PROVE  m \in DOMAIN causes' /\ logged[k].time <= causes'[m].time
    <3>1. m \in Live
      <4>1. logged[k].time \in Int /\ clock \in Int /\ logged[k].time <= clock
        BY <1>3, <1>4 DEF RowsInOrder, WhyInv
      <4> QED
        BY <1>1, <2>1, <4>1
    <3> QED
      BY <1>5, <2>1, <3>1 DEF WhyInv, CausesTrue
  <2>2. ASSUME NEW m \in Live' \cap DOMAIN causes'
        PROVE  /\ causes'[m].time \in (since'[m] + 1)..clock
               /\ m \notin causes'[m].read /\ (causes'[m].because = {} <=> m \in Leaf)
               /\ \A k \in 1..Len(logged) : logged[k].time = causes'[m].time =>
                    m \in logged[k].changed
                    /\ causes'[m].because = causes'[m].read \cap logged[k].changed
    <3>1. m \in Live \cap DOMAIN causes /\ causes'[m] = causes[m] /\ since'[m] = since[m]
      BY <1>1, <1>5
    <3> QED
      BY <3>1 DEF WhyInv, CausesTrue
  <2> QED
    BY <1>1, <2>1, <2>2 DEF CausesTrue
<1>7. StillTrue'
  <2> SUFFICES ASSUME NEW m \in Live', NEW k \in 1..Len(logged),
                      logged[k].time = clock, since'[m] < clock
               PROVE  facts'[m].time = clock <=> m \in logged[k].changed
                        \/ facts'[m].deps \cap logged[k].changed # {}
    BY <1>1 DEF StillTrue
  <2>1. m \in Live
    BY <1>1, <1>3
  <2> QED
    BY <1>1, <1>5, <2>1 DEF WhyInv, StillTrue
<1> QED
  BY <1>1, <1>2, <1>3, <1>6, <1>7 DEF WhyInv, WhysTrue, WatchTrue, WindowTrue

LEMMA LeavesKeeps == ASSUME WhyInv, NEW n, Leaves(n) PROVE WhyInv'
<1>1. /\ UNCHANGED <<logged, whys, window, watched, clock, handles, told, since, causes>>
      /\ Live' \subseteq Live /\ \A m \in Live' : facts'[m] = facts[m]
      /\ gone < MaxLost /\ gone' = gone + 1
  BY DEF Leaves, DisposeKnot, Live
<1>2. ExplainInv' /\ LiveHandles' = LiveHandles
  BY <1>1, DisposeKnotKeeps DEF Leaves, WhyInv, LiveHandles
<1>3. RowsInOrder' /\ SinceThen'
  BY <1>1 DEF WhyInv, RowsInOrder, SinceThen
<1>4. CausesTrue'
  BY <1>1 DEF WhyInv, CausesTrue
<1>5. StillTrue'
  BY <1>1 DEF WhyInv, StillTrue
<1>6. gone' \in 0..MaxLost
  BY <1>1, WhyAssumption DEF WhyInv
<1> QED
  BY <1>1, <1>2, <1>3, <1>4, <1>5, <1>6 DEF WhyInv, WhysTrue, WatchTrue, WindowTrue

-----------------------------------------------------------------------------
(* A commit and the explainers that follow it.                             *)

\* A commit puts its row at the end and may take the first away.
LEMMA RowAdded ==
  ASSUME RowsInOrder, clock \in Nat, NEW row \in LogRow, row.time = clock + 1,
         logged' = LogTrimmed(Append(logged, row)), clock' = clock + 1
  PROVE  /\ RowsInOrder'
         /\ \A k \in 1..Len(logged') :
              \/ k = Len(logged') /\ logged'[k] = row
              \/ /\ logged'[k].time <= clock
                 /\ \E j \in 1..Len(logged) : logged'[k] = logged[j]
<1> DEFINE long == Append(logged, row)
<1>1. /\ logged \in Seq(LogRow) /\ Len(logged) \in Nat /\ Len(logged) <= LogCap /\ LogCap \in Nat
      /\ Len(logged) <= clock
      /\ \A k \in 1..Len(logged) : logged[k].time = clock - Len(logged) + k
  BY WhyAssumption DEF RowsInOrder
<1>2. /\ long \in Seq(LogRow) /\ Len(long) = Len(logged) + 1
      /\ \A k \in 1..Len(logged) : long[k] = logged[k]
      /\ long[Len(logged) + 1] = row
  BY <1>1
<1>3. \A k \in 1..Len(long) : long[k].time = (clock + 1) - Len(long) + k
  <2> SUFFICES ASSUME NEW k \in 1..Len(long) PROVE long[k].time = (clock + 1) - Len(long) + k
    OBVIOUS
  <2>1. CASE k = Len(logged) + 1
    BY <1>1, <1>2, <2>1
  <2>2. CASE k \in 1..Len(logged)
    BY <1>1, <1>2, <2>2
  <2> QED
    BY <1>1, <1>2, <2>1, <2>2
<1> HIDE DEF long
<1>4. CASE Len(long) <= LogCap
  <2>1. logged' = long
    BY <1>1, <1>2, <1>4 DEF LogTrimmed, long
  <2>2. RowsInOrder'
    <3>1. Len(long) <= clock'
      BY <1>1, <1>2
    <3>2. \A k \in 1..Len(long) : long[k].time = clock' - Len(long) + k
      BY <1>3
    <3> QED
      BY <1>2, <1>4, <2>1, <3>1, <3>2 DEF RowsInOrder
  <2>3. \A k \in 1..Len(logged) : long[k].time <= clock
    BY <1>1, <1>2
  <2>4. \A k \in 1..Len(long) : k = Len(long) \/ k \in 1..Len(logged)
    BY <1>1, <1>2
  <2> QED
    BY <1>1, <1>2, <2>1, <2>2, <2>3, <2>4
<1>5. CASE ~(Len(long) <= LogCap)
  <2>1. logged' = Tail(long) /\ Len(logged) = LogCap
    BY <1>1, <1>2, <1>5 DEF LogTrimmed, long
  <2>2. /\ Tail(long) \in Seq(LogRow) /\ Len(Tail(long)) = Len(logged)
        /\ \A k \in 1..Len(logged) : Tail(long)[k] = long[k + 1]
    BY <1>1, <1>2
  <2>3. \A k \in 1..Len(logged) : k + 1 \in 1..Len(long)
    BY <1>1, <1>2
  <2>4. \A k \in 1..Len(logged') : logged'[k].time = (clock + 1) - Len(logged') + k
    <3> SUFFICES ASSUME NEW k \in 1..Len(logged)
                 PROVE  Tail(long)[k].time = (clock + 1) - Len(logged) + k
      BY <2>1, <2>2
    <3>1. long[k + 1].time = (clock + 1) - Len(long) + (k + 1)
      BY <1>3, <2>3
    <3>2. Tail(long)[k] = long[k + 1]
      BY <2>2
    <3> QED
      BY <1>1, <1>2, <3>1, <3>2
  <2>5. RowsInOrder'
    BY <1>1, <2>1, <2>2, <2>4 DEF RowsInOrder
  <2>6. ASSUME NEW k \in 1..Len(logged')
        PROVE  \/ k = Len(logged') /\ logged'[k] = row
               \/ /\ logged'[k].time <= clock
                  /\ \E j \in 1..Len(logged) : logged'[k] = logged[j]
    <3>1. k \in 1..Len(logged) /\ Len(logged') = Len(logged) /\ logged'[k] = long[k + 1]
      BY <2>1, <2>2
    <3>2. CASE k = Len(logged)
      BY <1>2, <3>1, <3>2
    <3>3. CASE k # Len(logged)
      <4>1. k + 1 \in 1..Len(logged)
        BY <1>1, <3>1, <3>3
      <4>2. logged'[k] = logged[k + 1] /\ logged[k + 1].time <= clock
        BY <1>1, <1>2, <3>1, <4>1
      <4> QED
        BY <4>1, <4>2
    <3> QED
      BY <3>2, <3>3
  <2> QED
    BY <2>5, <2>6
<1> QED
  BY <1>4, <1>5

LEMMA CommitExplains ==
  ASSUME WhyInv, NEW S, NEW new, ComesTo(S, new), CommitAndExplain(S)
  PROVE  WhyInv'
<1> DEFINE M   == Moved(new)
           T   == Touched(new)
           row == [time |-> clock', changed |-> M]
<1>1. /\ ExplainInv' /\ LiveHandles' = LiveHandles
      /\ \A n \in LiveHandles : Lineage(n, facts) \cap M = {} => told'[n] = told[n]
  BY CommitWritesKeeps DEF WhyInv
<1>2. /\ Live' = Live /\ S = M \cap Leaf /\ M \subseteq Live
      /\ M = {n \in Live : facts'[n].value # facts[n].value}
      /\ \A n \in Live : n \in S \cup T => facts'[n].time = clock'
      /\ \A n \in Live \ (S \cup T) : facts'[n] = facts[n]
      /\ \A n \in Live \ Leaf : n \in T <=> facts'[n].deps \cap M # {}
      /\ T \subseteq Live \ Leaf /\ M \subseteq S \cup T
      /\ FactsSound'
  BY CommitDoes DEF WhyInv
<1>3. /\ clock \in Nat /\ clock' = clock + 1 /\ Live \subseteq Knots
      /\ \A n \in Live : facts[n].time \in 0..clock
      /\ \A n \in Live \cap Leaf : facts'[n].deps = {}
      /\ \A n \in Live \ Leaf : n \notin facts'[n].deps
  <2>1. \A n \in Live \ Leaf : n \in Knots \ Leaf /\ facts'[n].deps = ReadBy(n, Values')
    BY <1>2 DEF FactsSound, ReadsOf
  <2>2. \A n \in Live \cap Leaf : facts'[n].deps = {}
    BY <1>2 DEF FactsSound, ReadsOf
  <2>3. \A n \in Live \ Leaf : n \notin facts'[n].deps
    BY <2>1, NeverItself
  <2> QED
    BY <2>2, <2>3 DEF WhyInv, ExplainInv, FactsSound, ComesTo
<1>4. ChangedBy(facts') = M
  BY <1>2 DEF ChangedBy
<1> HIDE DEF M, T
<1>5. /\ logged' = LogTrimmed(Append(logged, row))
      /\ DOMAIN causes' = DOMAIN causes \cup M
      /\ \A n \in M : causes'[n] = [time |-> clock', because |-> facts'[n].deps \cap M,
                                    read |-> facts'[n].deps]
      /\ \A n \in DOMAIN causes \ M : causes'[n] = causes[n]
      /\ gone' = gone /\ since' = since
  BY <1>4 DEF CommitAndExplain
<1>6. row \in LogRow /\ row.time = clock + 1 /\ row.changed = M
  BY <1>2, <1>3 DEF LogRow
<1>7. /\ RowsInOrder'
      /\ \A k \in 1..Len(logged') :
           \/ k = Len(logged') /\ logged'[k] = row
           \/ /\ logged'[k].time <= clock
              /\ \E j \in 1..Len(logged) : logged'[k] = logged[j]
  <2>0. PICK r : r = row
    OBVIOUS
  <2>1. r \in LogRow /\ r.time = clock + 1 /\ logged' = LogTrimmed(Append(logged, r))
    BY <1>5, <1>6, <2>0
  <2>2. RowsInOrder
    BY DEF WhyInv
  <2>3. /\ RowsInOrder'
        /\ \A k \in 1..Len(logged') :
             \/ k = Len(logged') /\ logged'[k] = r
             \/ /\ logged'[k].time <= clock
                /\ \E j \in 1..Len(logged) : logged'[k] = logged[j]
    BY <1>3, <2>1, <2>2, RowAdded
  <2> QED
    BY <2>0, <2>3
<1> HIDE DEF row
<1>8. SinceThen'
  <2>1. \A n \in Live : since[n] \in 0..clock'
    BY <1>3 DEF WhyInv, SinceThen
  <2> QED
    BY <1>2, <1>5, <2>1 DEF WhyInv, SinceThen
<1>9. \A n \in Live : since[n] \in 0..clock /\ since'[n] = since[n]
  BY <1>5 DEF WhyInv, SinceThen
\* What a node that has moved is remembered for.
<1>10. \A n \in M : /\ causes'[n].time = clock' /\ causes'[n].read = facts'[n].deps
                    /\ causes'[n].because = facts'[n].deps \cap M
                    /\ n \notin facts'[n].deps /\ n \in Live
                    /\ (facts'[n].deps \cap M = {} <=> n \in Leaf)
  <2> SUFFICES ASSUME NEW n \in M
               PROVE  /\ causes'[n].time = clock' /\ causes'[n].read = facts'[n].deps
                      /\ causes'[n].because = facts'[n].deps \cap M
                      /\ n \notin facts'[n].deps /\ n \in Live
                      /\ (facts'[n].deps \cap M = {} <=> n \in Leaf)
    OBVIOUS
  <2>1. causes'[n] = [time |-> clock', because |-> facts'[n].deps \cap M, read |-> facts'[n].deps]
    BY <1>5
  <2>2. causes'[n].time = clock' /\ causes'[n].read = facts'[n].deps
        /\ causes'[n].because = facts'[n].deps \cap M
    BY <2>1
  <2>3. n \in Live /\ n \notin facts'[n].deps
    BY <1>2, <1>3
  <2>4. facts'[n].deps \cap M = {} <=> n \in Leaf
    BY <1>2, <1>3, <2>3
  <2> QED
    BY <2>2, <2>3, <2>4
<1>11. CausesTrue'
  <2>1. ASSUME NEW n \in Live, NEW k \in 1..Len(logged'),
               logged'[k].time > since[n], n \in logged'[k].changed
        PROVE  n \in DOMAIN causes' /\ logged'[k].time <= causes'[n].time
    <3>1. CASE logged'[k] = row
      <4>1. n \in M /\ logged'[k].time = clock'
        BY <1>3, <1>6, <2>1, <3>1
      <4>2. n \in DOMAIN causes' /\ causes'[n].time = clock' /\ clock' \in Nat
        BY <1>3, <1>5, <1>10, <4>1
      <4> QED
        BY <4>1, <4>2
    <3>2. ASSUME NEW j \in 1..Len(logged), logged'[k] = logged[j], logged'[k].time <= clock
          PROVE  n \in DOMAIN causes' /\ logged'[k].time <= causes'[n].time
      <4>1. n \in DOMAIN causes /\ logged[j].time <= causes[n].time /\ logged[j].time \in Nat
        <5>1. logged[j] \in LogRow /\ logged[j].time > since[n] /\ n \in logged[j].changed
          BY <2>1, <3>2 DEF WhyInv, RowsInOrder
        <5>2. n \in DOMAIN causes /\ logged[j].time <= causes[n].time
          BY <5>1 DEF WhyInv, CausesTrue
        <5> QED
          BY <5>1, <5>2 DEF LogRow
      <4>2. CASE n \in M
        BY <1>3, <1>5, <1>10, <3>2, <4>1, <4>2
      <4>3. CASE n \notin M
        BY <1>5, <3>2, <4>1, <4>3
      <4> QED
        BY <4>2, <4>3
    <3> QED
      BY <1>7, <3>1, <3>2
  <2>2. ASSUME NEW n \in Live \cap DOMAIN causes', NEW k \in 1..Len(logged'),
               logged'[k].time = causes'[n].time
        PROVE  n \in logged'[k].changed
               /\ causes'[n].because = causes'[n].read \cap logged'[k].changed
    <3>1. CASE n \in M
      <4>1. logged'[k] = row
        BY <1>3, <1>7, <1>10, <2>2, <3>1
      <4> QED
        BY <1>6, <1>10, <3>1, <4>1
    <3>2. CASE n \notin M
      <4>1. n \in Live \cap DOMAIN causes /\ causes'[n] = causes[n]
        BY <1>5, <3>2
      <4>2. causes[n].time \in Int /\ causes[n].time <= clock
        BY <1>9, <4>1, <1>3 DEF WhyInv, CausesTrue
      <4>3. PICK j \in 1..Len(logged) : logged'[k] = logged[j]
        BY <1>3, <1>6, <1>7, <2>2, <4>1, <4>2
      <4> QED
        BY <2>2, <4>1, <4>3 DEF WhyInv, CausesTrue
    <3> QED
      BY <3>1, <3>2
  <2>3. ASSUME NEW n \in Live \cap DOMAIN causes'
        PROVE  /\ causes'[n].time \in (since[n] + 1)..clock'
               /\ n \notin causes'[n].read /\ (causes'[n].because = {} <=> n \in Leaf)
    <3>1. CASE n \in M
      BY <1>3, <1>9, <1>10, <3>1
    <3>2. CASE n \notin M
      <4>1. n \in Live \cap DOMAIN causes /\ causes'[n] = causes[n]
        BY <1>5, <3>2
      <4>2. /\ causes[n].time \in (since[n] + 1)..clock
            /\ n \notin causes[n].read /\ (causes[n].because = {} <=> n \in Leaf)
        BY <4>1 DEF WhyInv, CausesTrue
      <4>3. causes[n].time \in (since[n] + 1)..clock'
        BY <1>3, <1>9, <4>1, <4>2
      <4> QED
        BY <4>1, <4>2, <4>3
    <3> QED
      BY <3>1, <3>2
  <2> QED
    BY <1>2, <1>9, <2>1, <2>2, <2>3 DEF CausesTrue
<1>12. StillTrue'
  <2> SUFFICES ASSUME NEW n \in Live, NEW k \in 1..Len(logged'), logged'[k].time = clock'
               PROVE  facts'[n].time = clock' <=> n \in logged'[k].changed
                        \/ facts'[n].deps \cap logged'[k].changed # {}
    BY <1>2 DEF StillTrue
  <2>1. logged'[k].changed = M
    BY <1>3, <1>6, <1>7
  <2>2. facts'[n].time = clock' <=> n \in S \cup T
    <3>1. facts[n].time # clock'
      BY <1>3
    <3> QED
      BY <1>2, <3>1
  <2>3. n \in S \cup T <=> n \in M \/ facts'[n].deps \cap M # {}
    <3>1. CASE n \in Leaf
      BY <1>2, <1>3, <3>1
    <3>2. CASE n \notin Leaf
      BY <1>2, <3>2
    <3> QED
      BY <3>1, <3>2
  <2> QED
    BY <2>1, <2>2, <2>3
<1>13. WhysTrue'
  BY <1>1 DEF CommitAndExplain, WhyInv, WhysTrue
<1>14. WatchTrue'
  <2>1. /\ DOMAIN watched' = DOMAIN watched
        /\ \A n \in DOMAIN watched :
             watched'[n] = IF told'[n] # told[n] THEN ViewOf(n, told', clock') ELSE watched[n]
    BY DEF CommitAndExplain
  <2>2. ASSUME NEW n \in DOMAIN watched
        PROVE  /\ watched'[n].frames = told'[n].frames
               /\ \A m \in DOMAIN watched'[n].frames :
                    watched'[n].frames[m].time <= watched'[n].inspectedAt
    <3>1. CASE told'[n] = told[n]
      BY <2>1, <3>1 DEF WhyInv, WatchTrue
    <3>2. CASE told'[n] # told[n]
      <4>1. n \in LiveHandles'
        BY <1>1 DEF WhyInv, WatchTrue
      <4>2. told'[n].frames = [m \in Lineage(n, facts') |-> facts'[m]]
        BY <1>1, <4>1 DEF ExplainInv, BuildExplanation
      <4>3. Lineage(n, facts') \subseteq Live'
        BY DEF Lineage, Live
      <4>4. \A m \in Live' : facts'[m].time \in 0..clock'
        BY <1>2 DEF FactsSound
      <4>5. \A m \in DOMAIN told'[n].frames : told'[n].frames[m].time <= clock'
        BY <4>2, <4>3, <4>4
      <4>6. watched'[n].frames = told'[n].frames /\ watched'[n].inspectedAt = clock'
        BY <2>1, <3>2 DEF ViewOf
      <4> QED
        BY <4>5, <4>6
    <3> QED
      BY <3>1, <3>2
  <2>3. DOMAIN watched' \subseteq LiveHandles'
    BY <1>1, <2>1 DEF WhyInv, WatchTrue
  <2> QED
    BY <2>1, <2>2, <2>3 DEF WatchTrue
<1>15. WindowTrue'
  BY DEF CommitAndExplain, WindowTrue
<1> QED
  BY <1>1, <1>5, <1>7, <1>8, <1>11, <1>12, <1>13, <1>14, <1>15 DEF WhyInv

LEMMA WhyStepKeeps == WhyInv /\ [WhyNext]_<<explainVars, whyVars>> => WhyInv'
<1> SUFFICES ASSUME WhyInv, [WhyNext]_<<explainVars, whyVars>> PROVE WhyInv'
  OBVIOUS
<1>1. CASE UNCHANGED <<explainVars, whyVars>>
  <2>1. UNCHANGED <<clock, facts, handles, told, logged, whys, window, watched, gone, since, causes>>
    BY <1>1 DEF explainVars, whyVars
  <2>2. (RowsInOrder /\ SinceThen /\ CausesTrue /\ StillTrue)'
    BY <2>1, Undisturbed DEF WhyInv
  <2>3. ExplainInv' /\ LiveHandles' = LiveHandles
    BY <2>1 DEF WhyInv, ExplainInv, FactsSound, ReadsOf, Values, Live, LiveHandles
  <2> QED
    BY <2>1, <2>2, <2>3 DEF WhyInv, WhysTrue, WatchTrue, WindowTrue
<1>2. ASSUME NEW S, CommitAndExplain(S) PROVE WhyInv'
  BY <1>2, CommitComesTo, CommitExplains DEF CommitAndExplain
<1>3. ASSUME NEW n, AskAgain(n) PROVE WhyInv'
  BY <1>1, <1>3 DEF AskAgain
<1> QED
  BY <1>1, <1>2, <1>3, ArrivesKeeps, LeavesKeeps, AskWhyKeeps, WatchKeeps, OpenWindowKeeps
     DEF WhyNext

-----------------------------------------------------------------------------
(* What the explainers answer, from the rows that are left.                *)

LEMMA LastOf ==
  ASSUME NEW m \in Nat, NEW I \in SUBSET (1..m), I # {}
  PROVE  Max(I) \in I /\ \A j \in I : j <= Max(I)
<1> DEFINE D == {d \in Nat : m - d \in I}
<1>1. D \in SUBSET Nat /\ D # {}
  <2>1. PICK j \in I : TRUE
    OBVIOUS
  <2>2. m - j \in Nat /\ m - (m - j) = j
    OBVIOUS
  <2> QED
    BY <2>2
<1>2. PICK first : first = Min(D)
  OBVIOUS
<1>3. first \in D /\ \A d \in D : first <= d
  BY <1>1, <1>2, MinIs
<1> DEFINE k == m - first
<1>4. \A j \in I : j \in Int /\ k >= j
  <2> TAKE j \in I
  <2>1. m - j \in Nat /\ m - (m - j) = j
    OBVIOUS
  <2>2. first <= m - j /\ first \in Nat
    BY <1>3, <2>1
  <2> QED
    BY <2>1, <2>2
<1>k. k \in I
  BY <1>3
<1> HIDE DEF D, k
<1>5. Max(I) = k
  BY <1>4, <1>k, MaxIs
<1> QED
  BY <1>4, <1>5, <1>k

LEMMA NewestIs ==
  ASSUME NEW l \in Seq(LogRow), NEW n
  PROVE  \/ NewestFirst(n, l) = 0 /\ \A j \in 1..Len(l) : n \notin l[j].changed
         \/ /\ NewestFirst(n, l) \in 1..Len(l) /\ n \in l[NewestFirst(n, l)].changed
            /\ \A j \in 1..Len(l) : n \in l[j].changed => j <= NewestFirst(n, l)
<1> DEFINE I == {j \in 1..Len(l) : n \in l[j].changed}
<1>1. NewestFirst(n, l) = IF I # {} THEN Max(I) ELSE 0
  BY DEF NewestFirst, SelectLastInSeq
<1>2. I \in SUBSET (1..Len(l)) /\ Len(l) \in Nat
  OBVIOUS
<1>3. I # {} => Max(I) \in I /\ \A j \in I : j <= Max(I)
  BY <1>2, LastOf
<1> QED
  BY <1>1, <1>3

LEMMA UpdatesTold == WhyInv => UpdateIsExplained
<1> SUFFICES ASSUME WhyInv, NEW n \in DOMAIN whys \cap DOMAIN causes
             PROVE  IF causes[n].time \in Times(logged)
                    THEN /\ whys[n].updated.cause = causes[n].time
                         /\ causes[n].read = facts[n].deps =>
                              /\ whys[n].updated.inputs = causes[n].because
                              /\ whys[n].updated.reason = "directly-set" <=> n \in Leaf
                    ELSE whys[n].updated.reason = "no-cause"
  BY DEF UpdateIsExplained
<1> DEFINE k == NewestFirst(n, logged)
           inputs == (logged[k].changed \ {n}) \cap facts[n].deps
<1>1. n \in LiveHandles /\ n \in Live /\ whys[n] = Answers(n, logged, told)
  BY DEF WhyInv, WhysTrue, ExplainInv
<1>2. ResolveDirectDeps(n, told) = facts[n].deps
  <2>1. told[n].frames = [m \in Lineage(n, facts) |-> facts[m]] /\ n \in Lineage(n, facts)
    BY <1>1, LineageOf DEF WhyInv, ExplainInv, BuildExplanation
  <2> QED
    BY <2>1 DEF ResolveDirectDeps
<1>3. logged \in Seq(LogRow) /\ DOMAIN logged = 1..Len(logged) /\ Len(logged) \in Nat
      /\ Len(logged) <= clock /\ clock \in Nat
      /\ \A j \in 1..Len(logged) : logged[j].time = clock - Len(logged) + j
  BY DEF WhyInv, RowsInOrder, ExplainInv
<1>4. \/ k = 0 /\ \A j \in 1..Len(logged) : n \notin logged[j].changed
      \/ /\ k \in 1..Len(logged) /\ n \in logged[k].changed
         /\ \A j \in 1..Len(logged) : n \in logged[j].changed => j <= k
  BY <1>3, NewestIs
<1> HIDE DEF k
<1>5. /\ k = 0 => whys[n].updated.reason = "no-cause"
      /\ k # 0 => /\ whys[n].updated.cause = logged[k].time /\ whys[n].updated.inputs = inputs
                  /\ whys[n].updated.reason = IF inputs # {} THEN "recomputed" ELSE "directly-set"
  <2>1. whys[n].updated = ClassifyWhyUpdated(n, logged, facts[n].deps)
    BY <1>1, <1>2 DEF Answers
  <2>2. CASE k = 0
    BY <2>1, <2>2 DEF ClassifyWhyUpdated, k
  <2>3. CASE k # 0
    BY <2>1, <2>3 DEF ClassifyWhyUpdated, k
  <2> QED
    BY <2>2, <2>3
<1>6. /\ causes[n].time \in (since[n] + 1)..clock /\ since[n] \in 0..clock
      /\ n \notin causes[n].read /\ (causes[n].because = {} <=> n \in Leaf)
      /\ \A j \in 1..Len(logged) : logged[j].time = causes[n].time =>
           n \in logged[j].changed /\ causes[n].because = causes[n].read \cap logged[j].changed
      /\ \A j \in 1..Len(logged) : logged[j].time > since[n] /\ n \in logged[j].changed
           => logged[j].time <= causes[n].time
  BY <1>1 DEF WhyInv, CausesTrue, SinceThen
<1>7. \A j \in 1..Len(logged) : n \in logged[j].changed => logged[j].time <= causes[n].time
  <2> TAKE j \in 1..Len(logged)
  <2>1. logged[j].time \in Int
    BY <1>3
  <2> QED
    BY <1>6, <2>1
<1>8. CASE causes[n].time \in Times(logged)
  <2>1. PICK j \in 1..Len(logged) : logged[j].time = causes[n].time
    BY <1>3, <1>8 DEF Times
  <2>2. n \in logged[j].changed /\ causes[n].because = causes[n].read \cap logged[j].changed
    BY <1>6, <2>1
  <2>3. k \in 1..Len(logged) /\ j <= k /\ logged[k].time <= causes[n].time
    BY <1>4, <1>7, <2>2
  <2>4. k = j
    <3>1. logged[k].time = clock - Len(logged) + k /\ logged[j].time = clock - Len(logged) + j
      BY <1>3, <2>3
    <3> QED
      BY <1>3, <2>1, <2>3, <3>1
  <2>5. k # 0
    BY <2>3
  <2>6. /\ whys[n].updated.cause = logged[k].time /\ whys[n].updated.inputs = inputs
        /\ whys[n].updated.reason = IF inputs # {} THEN "recomputed" ELSE "directly-set"
    BY <1>5, <2>5
  <2>7. causes[n].read = facts[n].deps => inputs = causes[n].because
    BY <1>6, <2>2, <2>4
  <2> HIDE DEF inputs
  <2> QED
    BY <1>6, <1>8, <2>1, <2>4, <2>6, <2>7
<1>9. CASE causes[n].time \notin Times(logged)
\* The rows of before, of an earlier node too, have left with that of the cause.
  <2>1. \A j \in 1..Len(logged) : n \notin logged[j].changed
    <3> SUFFICES ASSUME NEW j \in 1..Len(logged), n \in logged[j].changed PROVE FALSE
      OBVIOUS
    <3>1. logged[j].time <= causes[n].time /\ logged[j].time = clock - Len(logged) + j
      BY <1>3, <1>7
    <3>2. PICK i \in Int : i = causes[n].time - clock + Len(logged)
      BY <1>3, <1>6
    <3>3. i \in 1..Len(logged) /\ clock - Len(logged) + i = causes[n].time
      BY <1>3, <1>6, <3>1, <3>2
    <3>4. logged[i].time = causes[n].time
      BY <1>3, <3>3
    <3> QED
      BY <1>3, <1>9, <3>3, <3>4 DEF Times
  <2>2. k = 0
    BY <1>4, <2>1
  <2>3. whys[n].updated.reason = "no-cause"
    BY <1>5, <2>2
  <2> QED
    BY <1>9, <2>3
<1> QED
  BY <1>8, <1>9

LEMMA StandstillsTold == WhyInv => StandstillIsExplained
<1> SUFFICES ASSUME WhyInv, logged # <<>>, NEW n \in DOMAIN whys, since[n] < Last(logged).time
             PROVE  /\ whys[n].notUpdated.reason = "did-update"
                         <=> n \in DOMAIN causes /\ causes[n].time = Last(logged).time
                    /\ whys[n].notUpdated.reason = "no-dep-overlap"
                         <=> facts[n].time < Last(logged).time
  BY DEF StandstillIsExplained
<1> DEFINE row == Last(logged)
<1>1. n \in LiveHandles /\ n \in Live /\ whys[n] = Answers(n, logged, told)
  BY DEF WhyInv, WhysTrue, ExplainInv
<1>2. ResolveDirectDeps(n, told) = facts[n].deps
  <2>1. told[n].frames = [m \in Lineage(n, facts) |-> facts[m]] /\ n \in Lineage(n, facts)
    BY <1>1, LineageOf DEF WhyInv, ExplainInv, BuildExplanation
  <2> QED
    BY <2>1 DEF ResolveDirectDeps
<1>3. Len(logged) \in 1..Len(logged) /\ row = logged[Len(logged)] /\ row.time = clock
      /\ clock \in Nat /\ facts[n].time \in 0..clock /\ since[n] \in 0..clock
  <2>1. logged \in Seq(LogRow) /\ clock \in Nat
    BY DEF WhyInv, RowsInOrder, ExplainInv
  <2>2. Len(logged) \in 1..Len(logged) /\ row = logged[Len(logged)]
    BY <2>1 DEF Last
  <2>3. logged[Len(logged)].time = clock - Len(logged) + Len(logged)
    BY <2>2 DEF WhyInv, RowsInOrder
  <2>4. facts[n].time \in 0..clock /\ since[n] \in 0..clock
    BY <1>1 DEF WhyInv, ExplainInv, FactsSound, SinceThen
  <2> QED
    BY <2>1, <2>2, <2>3, <2>4
<1> HIDE DEF row
<1>4. /\ n \in row.changed => whys[n].notUpdated.reason = "did-update"
      /\ n \notin row.changed => whys[n].notUpdated.reason =
           IF row.changed \cap facts[n].deps = {} THEN "no-dep-overlap" ELSE "object-is-deduped"
  <2>1. whys[n].notUpdated = ClassifyWhyNotUpdated(n, logged, facts[n].deps)
    BY <1>1, <1>2 DEF Answers
  <2>2. CASE n \in row.changed
    BY <2>1, <2>2 DEF ClassifyWhyNotUpdated, row
  <2>3. CASE n \notin row.changed
    BY <2>1, <2>3 DEF ClassifyWhyNotUpdated, row
  <2> QED
    BY <2>2, <2>3
<1>5. n \in row.changed <=> n \in DOMAIN causes /\ causes[n].time = clock
  <2>1. n \in row.changed => n \in DOMAIN causes /\ clock <= causes[n].time
    BY <1>1, <1>3 DEF WhyInv, CausesTrue, row
  <2>2. n \in DOMAIN causes =>
          causes[n].time \in (since[n] + 1)..clock
          /\ (causes[n].time = clock => n \in row.changed)
    BY <1>1, <1>3 DEF WhyInv, CausesTrue
  <2> QED
    BY <1>3, <2>1, <2>2
<1>6. facts[n].time = clock <=> n \in row.changed \/ facts[n].deps \cap row.changed # {}
  BY <1>1, <1>3 DEF WhyInv, StillTrue, row
<1>7. whys[n].notUpdated.reason = "did-update" <=> n \in row.changed
  BY <1>4
<1>8. whys[n].notUpdated.reason = "no-dep-overlap"
        <=> n \notin row.changed /\ row.changed \cap facts[n].deps = {}
  BY <1>4
<1>9. facts[n].time < clock <=> facts[n].time # clock
  BY <1>3
<1> QED
  BY <1>3, <1>5, <1>6, <1>7, <1>8, <1>9 DEF row

LEMMA WindowTold == WhyInv => WindowIsTheEnd
<1> SUFFICES ASSUME WhyInv, window # <<>>
             PROVE  /\ Len(window[1]) = Min({Capacity, Len(logged)})
                    /\ \A k \in DOMAIN window[1] : window[1][k] = logged[Len(logged) + 1 - k]
  BY DEF WindowIsTheEnd
<1>1. window[1] = WindowOf(logged) /\ logged \in Seq(LogRow) /\ Len(logged) \in Nat /\ Capacity \in Nat
  BY WhyAssumption DEF WhyInv, WindowTrue, RowsInOrder
<1>2. PICK from \in Nat : from = Max({0, Len(logged) - Capacity}) /\ from <= Len(logged)
                          /\ Len(logged) - from = Min({Capacity, Len(logged)})
  <2>1. CASE Len(logged) <= Capacity
    <3>1. Max({0, Len(logged) - Capacity}) = 0
      <4>1. \A m \in {0, Len(logged) - Capacity} : m \in Int /\ 0 >= m
        BY <1>1, <2>1
      <4> QED
        BY <4>1, MaxIs
    <3>2. Min({Capacity, Len(logged)}) = Len(logged)
      <4>1. {Capacity, Len(logged)} \in SUBSET Nat /\ {Capacity, Len(logged)} # {}
        BY <1>1
      <4>2. Min({Capacity, Len(logged)}) \in {Capacity, Len(logged)}
            /\ \A m \in {Capacity, Len(logged)} : Min({Capacity, Len(logged)}) <= m
        BY <4>1, MinIs
      <4> QED
        BY <1>1, <2>1, <4>2
    <3> QED
      BY <1>1, <3>1, <3>2
  <2>2. CASE ~(Len(logged) <= Capacity)
    <3>1. Max({0, Len(logged) - Capacity}) = Len(logged) - Capacity
      <4>1. \A m \in {0, Len(logged) - Capacity} : m \in Int /\ Len(logged) - Capacity >= m
        BY <1>1, <2>2
      <4> QED
        BY <4>1, MaxIs
    <3>2. Min({Capacity, Len(logged)}) = Capacity
      <4>1. {Capacity, Len(logged)} \in SUBSET Nat /\ {Capacity, Len(logged)} # {}
        BY <1>1
      <4>2. Min({Capacity, Len(logged)}) \in {Capacity, Len(logged)}
            /\ \A m \in {Capacity, Len(logged)} : Min({Capacity, Len(logged)}) <= m
        BY <4>1, MinIs
      <4> QED
        BY <1>1, <2>2, <4>2
    <3> QED
      BY <1>1, <2>2, <3>1, <3>2
  <2> QED
    BY <2>1, <2>2
<1>3. PICK rest : rest = SubSeq(logged, from + 1, Len(logged))
  OBVIOUS
<1>4. /\ Len(rest) = Len(logged) - from /\ Len(rest) \in Nat
      /\ \A j \in 1..Len(rest) : rest[j] = logged[from + j]
  <2>1. /\ from + 1 \in Int /\ Len(logged) \in Int
        /\ \A i \in (from + 1)..Len(logged) : logged[i] \in LogRow
    <3>1. from \in Nat /\ from + 1 \in Int /\ Len(logged) \in Nat
      BY <1>1, <1>2
    <3>2. \A i \in (from + 1)..Len(logged) : i \in 1..Len(logged)
      BY <3>1
    <3>3. \A i \in 1..Len(logged) : logged[i] \in LogRow
      BY <1>1
    <3> QED
      BY <3>1, <3>2, <3>3
  <2>2. /\ Len(rest) = IF from + 1 <= Len(logged) THEN Len(logged) - (from + 1) + 1 ELSE 0
        /\ \A i \in 1..(Len(logged) - (from + 1) + 1) : rest[i] = logged[(from + 1) + i - 1]
    BY <1>3, <2>1, SubSeqProperties
  <2>3. Len(rest) = Len(logged) - from
    BY <1>1, <1>2, <2>2
  <2>4. ASSUME NEW j \in 1..Len(rest) PROVE rest[j] = logged[from + j]
    <3>1. j \in 1..(Len(logged) - (from + 1) + 1) /\ (from + 1) + j - 1 = from + j
      BY <1>1, <1>2, <2>3
    <3> QED
      BY <2>2, <3>1
  <2>5. Len(rest) \in Nat
    BY <1>1, <1>2, <2>3
  <2> QED
    BY <2>3, <2>4, <2>5
<1>5. window[1] = [j \in 1..Len(rest) |-> rest[(Len(rest) - j) + 1]]
  BY <1>1, <1>2, <1>3 DEF WindowOf, Reverse
<1>6. Len(window[1]) = Len(rest) /\ DOMAIN window[1] = 1..Len(rest)
  BY <1>4, <1>5
<1>7. ASSUME NEW j \in 1..Len(rest) PROVE window[1][j] = logged[Len(logged) + 1 - j]
  <2>1. window[1][j] = rest[(Len(rest) - j) + 1] /\ (Len(rest) - j) + 1 \in 1..Len(rest)
    BY <1>4, <1>5
  <2>2. from + ((Len(rest) - j) + 1) = Len(logged) + 1 - j
    BY <1>1, <1>2, <1>4
  <2> QED
    BY <1>4, <2>1, <2>2
<1> QED
  BY <1>2, <1>4, <1>6, <1>7

LEMMA WhyInvSays == WhyInv => WhySound /\ WhyTypeOK
<1> SUFFICES ASSUME WhyInv PROVE WhySound /\ WhyTypeOK
  OBVIOUS
<1>1. WatchersSeeThePresent
  BY DEF WhyInv, WatchTrue, ExplainInv, BuildExplanation, WatchersSeeThePresent
<1>2. WhyTypeOK
  <2>1. logged \in Seq(LogRow) /\ Len(logged) \in Nat /\ clock \in Nat /\ Len(logged) <= LogCap
        /\ Len(logged) <= clock /\ DOMAIN logged = 1..Len(logged)
        /\ \A k \in 1..Len(logged) : logged[k].time = clock - Len(logged) + k
    BY DEF WhyInv, RowsInOrder, ExplainInv
  <2>2. \A k \in DOMAIN logged : logged[k].time \in 1..clock
    BY <2>1
  <2>3. Len(window) <= 1
    <3>1. PICK view : view = WindowOf(logged)
      OBVIOUS
    <3>2. window = <<>> \/ window = <<view>>
      BY <3>1 DEF WhyInv, WindowTrue
    <3>3. CASE window = <<>>
      BY <3>3
    <3>4. CASE window = <<view>>
      <4>1. Len(window) = 1
        BY <3>4
      <4> QED
        BY <4>1
    <3> QED
      BY <3>2, <3>3, <3>4
  <2>4. /\ DOMAIN whys \subseteq LiveHandles /\ DOMAIN watched \subseteq LiveHandles
        /\ Live \subseteq DOMAIN since /\ DOMAIN causes \subseteq DOMAIN since /\ gone \in 0..MaxLost
    BY DEF WhyInv, WhysTrue, WatchTrue, SinceThen
  <2> QED
    BY <2>1, <2>2, <2>3, <2>4 DEF WhyTypeOK
<1> QED
  BY <1>1, <1>2, UpdatesTold, StandstillsTold, WindowTold DEF WhySound

-----------------------------------------------------------------------------
(* A node whose compute is replaced.                                       *)

LiveShapes ==
  /\ \A n \in Placed : current[n] \in Swap
  /\ exported # <<>> /\ "input" \in DOMAIN exported[1].inputs
       => exported[1].inputs["input"] \in Reading

LiveInv == LiveTypeOK /\ LiveShapes /\ SwapsTakeEffect /\ ShownIsSomeAnswer

LEMMA LiveInitHolds == LiveInit => LiveInv
  BY DEF LiveInit, LiveInv, LiveTypeOK, LiveShapes, SwapsTakeEffect, ShownIsSomeAnswer, Placed

LEMMA DeriveKeeps == ASSUME LiveInv, NEW id, NEW c \in Swap, LiveDerive(id, c) PROVE LiveInv'
<1>1. /\ id \notin DOMAIN version /\ UNCHANGED <<input, overdue, exported>>
      /\ DOMAIN version' = DOMAIN version \cup {id} /\ id \notin Placed
      /\ \A n \in DOMAIN version' : version'[n] = IF n = id THEN 0 ELSE version[n]
      /\ input \in Reading /\ DOMAIN display = Placed /\ Placed \subseteq DOMAIN version
      /\ follows \subseteq Placed /\ overdue \subseteq Placed
  BY DEF LiveDerive, Placing, LiveInv, LiveTypeOK
<1>2. \A n \in DOMAIN version' : version'[n] \in 0..MaxVersion
  BY <1>1, MaxVersionAssumption DEF LiveInv, LiveTypeOK
<1>3. CASE c[input] = Oops
  <2>1. UNCHANGED <<current, display, follows, Placed>>
    BY <1>3 DEF LiveDerive, Placed
  <2> QED
    BY <1>1, <1>2, <2>1
       DEF LiveInv, LiveTypeOK, LiveShapes, SwapsTakeEffect, ShownIsSomeAnswer
<1>4. CASE c[input] # Oops
  <2>1. /\ Placed' = Placed \cup {id} /\ DOMAIN display' = Placed'
        /\ current'[id] = c /\ display'[id] = c[input]
        /\ \A n \in Placed : current'[n] = current[n] /\ display'[n] = display[n]
        /\ follows' = IF Reads(c) THEN follows \cup {id} ELSE follows
    BY <1>1, <1>4 DEF LiveDerive, Placed, Placing
  <2>2. LiveTypeOK' /\ LiveShapes'
    BY <1>1, <1>2, <2>1 DEF LiveInv, LiveTypeOK, LiveShapes
  <2>3. SwapsTakeEffect'
    <3> SUFFICES ASSUME NEW n \in Placed' \ overdue
                 PROVE  display'[n] = current'[n][input] /\ (n \in follows' <=> Reads(current'[n]))
      BY <1>1 DEF SwapsTakeEffect
    <3>1. CASE n = id
      BY <1>1, <2>1, <3>1
    <3>2. CASE n \in Placed
      BY <1>1, <2>1, <3>2 DEF LiveInv, SwapsTakeEffect
    <3> QED
      BY <2>1, <3>1, <3>2
  <2>4. ShownIsSomeAnswer'
    BY <1>1, <1>4, <2>1 DEF LiveInv, ShownIsSomeAnswer
  <2> QED
    BY <2>2, <2>3, <2>4 DEF LiveInv
<1> QED
  BY <1>3, <1>4

LEMMA FrameKeeps ==
  ASSUME LiveInv, NEW value \in Reading, NEW bumped \in SUBSET Placed,
         \A n \in bumped : version[n] < MaxVersion,
         NEW slots, DOMAIN slots = Placed, \A n \in Placed : slots[n] \in Swap,
         Frame(value, bumped, slots), UNCHANGED exported
  PROVE  LiveInv'
<1> DEFINE due     == MustCompute(value, bumped)
           written == {n \in Placed : slots[n] # current[n]}
<1>1. /\ input \in Reading /\ DOMAIN display = Placed /\ Placed \subseteq DOMAIN version
      /\ \A n \in DOMAIN version : version[n] \in 0..MaxVersion
      /\ follows \subseteq Placed /\ overdue \subseteq Placed
  BY DEF LiveInv, LiveTypeOK
<1>2. /\ current' = slots /\ Placed' = Placed /\ due \subseteq Placed /\ bumped \subseteq due
      /\ value # input => follows \subseteq due
  BY <1>1 DEF Frame, Placed, MustCompute
<1>3. CASE \E n \in due : slots[n][value] = Oops
  <2>1. UNCHANGED <<input, version, display, follows>> /\ overdue' = overdue \cup written
    BY <1>3 DEF Frame
  <2>2. LiveTypeOK' /\ LiveShapes'
    BY <1>1, <1>2, <2>1 DEF LiveInv, LiveTypeOK, LiveShapes
  <2>3. SwapsTakeEffect'
    BY <1>2, <2>1 DEF LiveInv, SwapsTakeEffect
  <2>4. ShownIsSomeAnswer'
    BY <1>2, <2>1 DEF LiveInv, ShownIsSomeAnswer
  <2> QED
    BY <2>2, <2>3, <2>4 DEF LiveInv
<1>4. CASE ~\E n \in due : slots[n][value] = Oops
  <2>1. /\ input' = value
        /\ version' = [n \in DOMAIN version |-> IF n \in bumped THEN version[n] + 1 ELSE version[n]]
        /\ display' = [n \in Placed |-> IF n \in due THEN slots[n][value] ELSE display[n]]
        /\ follows' = (follows \ due) \cup {n \in due : Reads(slots[n])}
        /\ overdue' = (overdue \cup (written \ bumped)) \ due
    BY <1>4 DEF Frame
  <2> HIDE DEF due
  <2>2. \A n \in DOMAIN version : version'[n] \in 0..MaxVersion
    BY <1>1, <2>1, MaxVersionAssumption
  <2>3. LiveTypeOK' /\ LiveShapes'
    BY <1>1, <1>2, <2>1, <2>2 DEF LiveInv, LiveTypeOK, LiveShapes
  <2>4. SwapsTakeEffect'
    <3> SUFFICES ASSUME NEW n \in Placed \ overdue'
                 PROVE  display'[n] = slots[n][value] /\ (n \in follows' <=> Reads(slots[n]))
      BY <1>2, <2>1 DEF SwapsTakeEffect
    <3>1. CASE n \in due
      BY <2>1, <3>1
    <3>2. CASE n \notin due
      <4>1. n \notin overdue /\ slots[n] = current[n]
        BY <1>2, <2>1, <3>2
      <4>2. display[n] = current[n][input] /\ (n \in follows <=> Reads(current[n]))
        BY <4>1 DEF LiveInv, SwapsTakeEffect
      <4>3. current[n][input] = current[n][value]
        <5>1. CASE value = input
          BY <5>1
        <5>2. CASE value # input
          BY <1>1, <1>2, <3>2, <4>2, <5>2 DEF Reads
        <5> QED
          BY <5>1, <5>2
      <4> QED
        BY <2>1, <3>2, <4>1, <4>2, <4>3
    <3> QED
      BY <3>1, <3>2
  <2>5. ShownIsSomeAnswer'
    <3> SUFFICES ASSUME NEW n \in Placed
                 PROVE  \E c \in Swap, v \in Reading : display'[n] = c[v] /\ c[v] # Oops
      BY <1>2 DEF ShownIsSomeAnswer
    <3>1. CASE n \in due
      BY <1>4, <2>1, <3>1 DEF due
    <3>2. CASE n \notin due
      BY <2>1, <3>2 DEF LiveInv, ShownIsSomeAnswer
    <3> QED
      BY <3>1, <3>2
  <2> QED
    BY <2>3, <2>4, <2>5 DEF LiveInv
<1> QED
  BY <1>3, <1>4

LEMMA SlotsAre ==
  ASSUME LiveInv, NEW edits \in Edits, DOMAIN edits \subseteq Placed
  PROVE  DOMAIN Slots(edits) = Placed /\ \A n \in Placed : Slots(edits)[n] \in Swap
  BY DEF Slots, Edits, LiveInv, LiveShapes

LEMMA ThrowsKeeps == ASSUME LiveInv, NEW edits \in Edits, ReplaceManyThrows(edits) PROVE LiveInv'
<1>1. /\ DOMAIN edits \subseteq Placed /\ Placed' = Placed
      /\ \A n \in Placed : current'[n] = IF n \in DOMAIN edits THEN edits[n] ELSE current[n]
      /\ overdue' = overdue \cup {n \in DOMAIN edits : current[n] # edits[n]}
      /\ UNCHANGED <<input, version, display, follows, exported>>
  BY DEF ReplaceManyThrows, Slots, Placed
<1>2. \A n \in Placed : current'[n] \in Swap
  BY <1>1 DEF Edits, LiveInv, LiveShapes
<1>3. LiveTypeOK' /\ LiveShapes' /\ ShownIsSomeAnswer'
  BY <1>1, <1>2 DEF LiveInv, LiveTypeOK, LiveShapes, ShownIsSomeAnswer
<1>4. SwapsTakeEffect'
  <2> SUFFICES ASSUME NEW n \in Placed \ overdue'
               PROVE  display[n] = current'[n][input] /\ (n \in follows <=> Reads(current'[n]))
    BY <1>1 DEF SwapsTakeEffect
  <2>1. n \notin overdue /\ current'[n] = current[n]
    BY <1>1
  <2> QED
    BY <2>1 DEF LiveInv, SwapsTakeEffect
<1> QED
  BY <1>3, <1>4 DEF LiveInv

LEMMA LiveStepKeeps == LiveInv /\ [LiveNext]_liveVars => LiveInv'
<1> SUFFICES ASSUME LiveInv, [LiveNext]_liveVars PROVE LiveInv'
  OBVIOUS
<1>1. CASE UNCHANGED liveVars
  BY <1>1 DEF liveVars, LiveInv, LiveTypeOK, LiveShapes, SwapsTakeEffect, ShownIsSomeAnswer, Placed
<1>2. ASSUME NEW id \in LiveId, NEW c \in Swap, Replace(id, c) PROVE LiveInv'
  <2> DEFINE slots == [current EXCEPT ![id] = c]
  <2>1. /\ input \in Reading /\ {id} \in SUBSET Placed /\ UNCHANGED exported
        /\ \A n \in {id} : version[n] < MaxVersion
        /\ DOMAIN slots = Placed /\ \A n \in Placed : slots[n] \in Swap
        /\ Frame(input, {id}, slots)
    BY <1>2 DEF Replace, LiveInv, LiveTypeOK, LiveShapes, Placed
  <2> HIDE DEF slots
  <2> QED
    BY <2>1, FrameKeeps
<1>3. ASSUME NEW edits \in Edits, ReplaceMany(edits) PROVE LiveInv'
  <2>1. /\ input \in Reading /\ DOMAIN edits \in SUBSET Placed /\ UNCHANGED exported
        /\ \A n \in DOMAIN edits : version[n] < MaxVersion
        /\ Frame(input, DOMAIN edits, Slots(edits))
    BY <1>3 DEF ReplaceMany, LiveInv, LiveTypeOK
  <2>2. DOMAIN Slots(edits) = Placed /\ \A n \in Placed : Slots(edits)[n] \in Swap
    BY <2>1, SlotsAre
  <2> QED
    BY <2>1, <2>2, FrameKeeps
<1>4. ASSUME NEW edits \in Edits, NEW value \in Reading, Commits(value, edits) PROVE LiveInv'
  <2>1. /\ DOMAIN edits \in SUBSET Placed /\ UNCHANGED exported
        /\ Frame(value, {}, Slots(edits))
    BY <1>4 DEF Commits
  <2>2. DOMAIN Slots(edits) = Placed /\ \A n \in Placed : Slots(edits)[n] \in Swap
    BY <2>1, SlotsAre
  <2> QED
    BY <2>1, <2>2, FrameKeeps
<1>5. ASSUME NEW json \in BOOLEAN, Export(json) PROVE LiveInv'
  <2>1. UNCHANGED <<input, version, current, display, follows, overdue, Placed>>
    BY <1>5 DEF Export, Placed
  <2>2. LiveShapes'
    <3> DEFINE inputs == [k \in IF json /\ input = Unwritable THEN {} ELSE {"input"} |-> input]
    <3>1. exported'[1] = [inputs |-> inputs, schema |-> 1]
      BY <1>5 DEF Export
    <3>2. exported'[1].inputs = inputs
      BY <3>1
    <3>3. "input" \in DOMAIN inputs => inputs["input"] = input
      OBVIOUS
    <3>4. input \in Reading /\ \A n \in Placed : current[n] \in Swap
      BY DEF LiveInv, LiveTypeOK, LiveShapes
    <3> QED
      BY <2>1, <3>2, <3>3, <3>4 DEF LiveShapes
  <2> QED
    BY <2>1, <2>2 DEF LiveInv, LiveTypeOK, SwapsTakeEffect, ShownIsSomeAnswer
<1>6. ASSUME Import PROVE LiveInv'
  <2> DEFINE value == IF "input" \in DOMAIN exported[1].inputs THEN exported[1].inputs["input"]
                      ELSE input
  <2>1. /\ Frame(value, {}, current) /\ UNCHANGED exported /\ value \in Reading
        /\ DOMAIN current = Placed /\ \A n \in Placed : current[n] \in Swap
    BY <1>6 DEF Import, LiveInv, LiveTypeOK, LiveShapes, Placed
  <2> HIDE DEF value
  <2> QED
    BY <2>1, FrameKeeps
<1> QED
  BY <1>1, <1>2, <1>3, <1>4, <1>5, <1>6, DeriveKeeps, ThrowsKeeps DEF LiveNext

-----------------------------------------------------------------------------
(* What the graph tells of a node is so.                                   *)

\* Of the parts that tell, one moves.
TellInv == /\ part \in {"explain", "why"} => ExplainInv
           /\ part = "why" => WhyInv
           /\ part = "live" => LiveInv

LEMMA TellStepKeeps == TellInv /\ [HistoryNext]_graphVars => TellInv'
<1> SUFFICES ASSUME TellInv, [HistoryNext]_graphVars PROVE TellInv'
  OBVIOUS
<1>1. CASE UNCHANGED graphVars
  <2>1. UNCHANGED <<part, explainVars, whyVars, liveVars>>
    BY <1>1 DEF graphVars
  <2> QED
    BY <2>1, ExplainStepKeeps, WhyStepKeeps, LiveStepKeeps DEF TellInv
<1>2. CASE HistoryNext
  <2>1. /\ part' = part
        /\ part = "explain" => ExplainNext
        /\ part = "why" => WhyNext
        /\ part = "live" => LiveNext
    BY <1>2 DEF HistoryNext
  <2>2. part = "why" => WhyInv /\ WhyInv'
    BY <2>1, WhyStepKeeps DEF TellInv
  <2> QED
    BY <2>1, <2>2, ExplainStepKeeps, LiveStepKeeps DEF TellInv, WhyInv
<1> QED
  BY <1>1, <1>2

\* An explanation shows the lineage the graph has now, with its values and
\* times; the export names no node it does not hold; whyUpdated names the commit
\* that last changed the node, if the log has it, and what made it change, and
\* whyNotUpdated whether it changed, came to the same value or was left alone;
\* watchers have the present explanation, the window the end of the log; and a
\* node whose compute is replaced shows what the new one gives, or what some
\* compute gave: for any graph, caps and computes, whatever is disposed or
\* registered again, and though a node computed to the same value tells nobody.
THEOREM TellingsAreSound == HistorySpec => []TellingsSound
<1>1. HistoryInit => TellInv
  BY ExplainInitHolds, WhyInitHolds, LiveInitHolds DEF HistoryInit, TellInv
<1>2. TellInv => TellingsSound
  BY ExplainInvSays, WhyInvSays DEF TellInv, TellingsSound, LiveInv, LiveSound
<1> QED
  BY <1>1, <1>2, TellStepKeeps, PTL DEF HistorySpec

-----------------------------------------------------------------------------
(* Every part stays within its types.                                      *)

\* What frames put aside: rows of commits, and what each captured node had.
Captured  == [seen : Ring, reads : BOOLEAN]
UndoTyped == \A r \in DOMAIN undo : undo[r] \in Captured

LogTyped == history \in Ring /\ UndoTyped /\ undo = [r \in DOMAIN undo |-> undo[r]]

LEMMA RowsInRing == \A t \in 0..MaxTime : RowsTo(t) \subseteq Ring
<1> SUFFICES ASSUME NEW t \in 0..MaxTime, NEW s \in RowsTo(t) PROVE s \in RowsTo(MaxTime)
  BY DEF Ring, RowsTo
<1> QED
  BY RowsGrow, MaxTimeAssumption

\* The ring moves when its row is appended and when a frame is taken back.
LEMMA RingMoves ==
  ASSUME Next PROVE history' = history \/ phase' \in {"metadata", "idle"}
  BY DEF Next, Read, Subscribe, Unsubscribe, RegisterPlain, DisposePlain, ComputePlain,
         DisposeMetadata, ComputeMetadata, RegisterMetadata, Begin, ComputeThrows, RunThrows,
         AdvanceClock, AppendRow, RecomputeCommitMetadata, CommitMetadataThrows, Publish,
         Finish, Rollback, Discard, FrameOver

LEMMA CapturesOnly ==
  ASSUME LogInv, Next
  PROVE  undo' \in {undo, NoUndo} \/ \E n \in Plain \cup Metadata : undo' = Recorded(n)
<1>1. CASE RecomputeCommitMetadata \/ CommitMetadataThrows
  <2>1. /\ queue # <<>> /\ undo' = Recorded(Head(queue)) /\ queue \in Seq(Metadata)
    BY <1>1 DEF RecomputeCommitMetadata, CommitMetadataThrows, LogInv, LogShapes
  <2> QED
    BY <2>1
<1>2. CASE \/ \E n \in Plain, b \in BOOLEAN : ComputePlain(n, b)
           \/ \E m \in Metadata : ComputeMetadata(m)
           \/ \E n \in Plain \cup Metadata : ComputeThrows(n)
  BY <1>2 DEF ComputePlain, ComputeMetadata, ComputeThrows
<1>3. CASE undo' \in {undo, NoUndo}
  BY <1>3
<1> QED
  BY <1>1, <1>2, <1>3
     DEF Next, Read, Subscribe, Unsubscribe, RegisterPlain, DisposePlain, DisposeMetadata,
         RegisterMetadata, Begin, RunThrows, AdvanceClock, AppendRow, Publish, Finish,
         Rollback, Discard, FrameOver

LEMMA LogStaysTyped ==
  LogInv /\ LogTyped /\ [Next]_vars => LogTyped'
<1> SUFFICES ASSUME LogInv, LogTyped, [Next]_vars PROVE LogTyped'
  OBVIOUS
<1>1. CASE UNCHANGED vars
  BY <1>1 DEF vars, LogTyped, UndoTyped
<1>2. CASE Next
  <2>1. LogInv'
    BY LogStepKeeps
  <2>2. history' \in Ring
    <3>1. CASE history' = history
      BY <3>1 DEF LogTyped
    <3>2. CASE phase' \in {"metadata", "idle"}
      <4>1. history' = RingOf(now') /\ now' \in 0..MaxTime
        BY <2>1, <3>2 DEF LogInv, RingKept, LogShapes
      <4> QED
        BY <4>1, RingIn, RowsInRing, MaxTimeAssumption
    <3> QED
      BY <1>2, <3>1, <3>2, RingMoves
  <2>3. UndoTyped' /\ undo' = [r \in DOMAIN undo' |-> undo'[r]]
    <3>1. CASE undo' = undo
      BY <3>1 DEF LogTyped, UndoTyped
    <3>2. CASE undo' = NoUndo
      BY <3>2 DEF NoUndo, UndoTyped
    <3>3. ASSUME NEW n \in Plain \cup Metadata, undo' = Recorded(n)
          PROVE  UndoTyped' /\ undo' = [r \in DOMAIN undo' |-> undo'[r]]
      <4> DEFINE was(k) == IF k \in DOMAIN undo THEN undo[k]
                           ELSE [seen |-> seen[k], reads |-> k \in reading]
      <4>0. undo' = [k \in DOMAIN undo \cup {n} |-> was(k)]
        BY <3>3 DEF Recorded
      <4>1. was(n) = [seen |-> seen[n], reads |-> n \in reading] \/ n \in DOMAIN undo
        OBVIOUS
      <4>4. \A k \in DOMAIN undo : was(k) = undo[k]
        OBVIOUS
      <4>2. seen[n] \in Ring
        BY RowsInRing DEF LogInv, LogShapes, Reader
      <4>3. was(n) \in Captured \/ n \in DOMAIN undo
        BY <4>1, <4>2 DEF Captured
      <4> HIDE DEF was
      <4>5. undo' = [r \in DOMAIN undo' |-> undo'[r]]
        BY <4>0
      <4> QED
        BY <4>0, <4>3, <4>4, <4>5 DEF LogTyped, UndoTyped
    <3> QED
      BY <1>2, <3>1, <3>2, <3>3, CapturesOnly
  <2> QED
    BY <2>2, <2>3 DEF LogTyped
<1> QED
  BY <1>1, <1>2

LEMMA LogIsTyped == LogInv /\ LogTyped => TypeOK
<1> SUFFICES ASSUME LogInv, LogTyped PROVE TypeOK
  OBVIOUS
<1>1. RowsTo(now) \subseteq Ring /\ RowsTo(beforeNow) \subseteq Ring
  BY RowsInRing DEF LogInv, LogShapes
<1>2. consumers \in Int
  <2>1. Cardinality(subs) \in Nat /\ Cardinality(reading) \in Nat
    BY FS_CardinalityType DEF LogInv, Finitely
  <2>2. Len(metadata) \in Nat
    BY DEF LogInv, LogShapes
  <2> QED
    BY <2>1, <2>2 DEF LogInv, ConsumersCounted
<1>3. log \in LogEntry
  <2>1. log \in [value : RowsTo(now), time : 0..MaxTime]
    BY DEF LogInv, LogShapes
  <2> QED
    BY <1>1, <2>1 DEF LogEntry
<1>4. seen \in [Reader -> Ring]
  <2>1. seen \in [Reader -> RowsTo(now)]
    BY DEF LogInv, LogShapes
  <2> QED
    BY <1>1, <2>1
<1>5. saved \subseteq Ring
  <2>1. saved \subseteq {RingOf(beforeNow)}
    BY DEF LogInv, RingKept, LogShapes
  <2>2. RingOf(beforeNow) \in RowsTo(beforeNow)
    BY RingIn, MaxTimeAssumption DEF LogInv, LogShapes
  <2> QED
    BY <1>1, <2>1, <2>2
<1>6. \E D \in SUBSET (Plain \cup Metadata) : undo \in [D -> Captured]
  <2>1. DOMAIN undo \in SUBSET (Plain \cup Metadata)
    BY DEF LogInv, LogShapes
  <2>2. undo \in [DOMAIN undo -> Captured]
    BY DEF LogTyped, UndoTyped
  <2> QED
    BY <2>1, <2>2
<1>7. /\ now \in 0..MaxTime /\ beforeNow \in 0..MaxTime /\ logAtEntry \in LogEntry
      /\ reading \subseteq Plain /\ metadata \in Seq(Metadata) /\ queue \in Seq(Metadata)
      /\ source \in [Metadata -> Metadata \cup {Log}] /\ subs \subseteq Handle
      /\ phase \in {"idle", "run", "compute", "metadata", "dispatch", "failed"}
      /\ mode \in {"commit", "simulate"} /\ todo \subseteq Plain \cup Metadata
  BY DEF LogInv, LogShapes
<1> QED
  BY <1>2, <1>3, <1>4, <1>5, <1>6, <1>7 DEF TypeOK, LogTyped, Captured

\* The invariant of each part that has it, and types.
HistoryInv ==
  /\ part \in {"log", "rows", "snapshots", "explain", "why", "live", "reads", "lives"}
  /\ part = "log" => LogInv /\ LogTyped
  /\ part = "rows" => IInv
  /\ part = "snapshots" => SnapInv
  /\ part = "reads" => HeldInv
  /\ part = "lives" => LifeInv
  /\ TellInv

LEMMA HistoryTypes == HistoryInv => HistoryTypeOK
<1> SUFFICES ASSUME HistoryInv PROVE HistoryTypeOK
  OBVIOUS
<1>1. CASE part = "log"
  BY <1>1, LogIsTyped DEF HistoryInv, HistoryTypeOK
<1>2. CASE part = "rows"
  <2>1. RetentionTypeOK
    BY <1>2 DEF HistoryInv, IInv, Shapes, Row, RetentionTypeOK
  <2> QED
    BY <1>2, <2>1 DEF HistoryTypeOK
<1>3. CASE part = "snapshots"
  BY <1>3 DEF HistoryInv, SnapInv, HistoryTypeOK
<1>4. CASE part = "explain"
  BY <1>4, ExplainInvSays DEF HistoryInv, TellInv, HistoryTypeOK
<1>5. CASE part = "why"
  BY <1>5, ExplainInvSays, WhyInvSays DEF HistoryInv, TellInv, HistoryTypeOK
<1>6. CASE part = "live"
  BY <1>6 DEF HistoryInv, TellInv, LiveInv, HistoryTypeOK
<1>7. CASE part = "reads"
  BY <1>7 DEF HistoryInv, HeldInv, HistoryTypeOK
<1>8. CASE part = "lives"
  BY <1>8 DEF HistoryInv, LifeInv, HistoryTypeOK
<1> QED
  BY <1>1, <1>2, <1>3, <1>4, <1>5, <1>6, <1>7, <1>8 DEF HistoryInv

\* The variables of the log, the rows, the snapshots, the explanations and their
\* explainers, the replaced computes, the watched reads and the lives of ids stay
\* within their types, in mid-frame too, for any constants.
THEOREM HistoryTyped == HistorySpec => []HistoryTypeOK
<1>1. HistoryInit => HistoryInv
  <2>1. Init => LogTyped
    BY DEF Init, LogTyped, UndoTyped, NoUndo, Ring
  <2> QED
    BY <2>1, LogInitHolds, InitHolds, SnapInitHolds, HeldInitHolds, LifeInitHolds,
       ExplainInitHolds, WhyInitHolds, LiveInitHolds DEF HistoryInit, HistoryInv, TellInv
<1>2. HistoryInv /\ [HistoryNext]_graphVars => HistoryInv'
  <2> SUFFICES ASSUME HistoryInv, [HistoryNext]_graphVars PROVE HistoryInv'
    OBVIOUS
  <2>1. part' = part
    BY DEF HistoryNext, graphVars
  <2>2. [Next]_vars
    BY DEF HistoryNext, OthersStay, LogMoves, graphVars
  <2>3. [RetentionNext]_retentionVars
    BY DEF HistoryNext, OthersStay, graphVars
  <2>4. [SnapNext]_snapVars
    BY DEF HistoryNext, OthersStay, graphVars
  <2>5. [HeldNext]_heldVars
    BY DEF HistoryNext, OthersStay, graphVars
  <2>6. [LifeNext]_lifeVars
    BY DEF HistoryNext, OthersStay, graphVars
  <2>7. TellInv'
    BY TellStepKeeps DEF HistoryInv
  <2> QED
    BY <2>1, <2>2, <2>3, <2>4, <2>5, <2>6, <2>7, LogStepKeeps, LogStaysTyped, StepKeeps,
       SnapStepKeeps, HeldStepKeeps, LifeStepKeeps DEF HistoryInv
<1> QED
  BY <1>1, <1>2, HistoryTypes, PTL DEF HistorySpec
==============================================================================
