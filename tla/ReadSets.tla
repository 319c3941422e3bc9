------------------------------ MODULE ReadSets ------------------------------
(***************************************************************************)
(* subscribeReads of packages/core/src/graph.ts: an observer named by what *)
(* its projection reads.  Each run of the projection records the nodes it  *)
(* came to, a second index holds the registrations under each such node,   *)
(* and Phase G walks the buckets of the changed nodes.  The walk iterates  *)
(* the live Set, so what an observer adds or removes is met by it, and a   *)
(* bucket that becomes empty is dropped from the index under its feet.     *)
(*                                                                         *)
(* A projection reads one place and, by its value, others; it throws when  *)
(* it comes to Poison or to a node that is disposed.  Places are inputs.   *)
(* Projections only read, and an observer does not subscribe itself anew:  *)
(* the walk would come to the new registration, and so on for ever.        *)
(***************************************************************************)
EXTENDS FiniteSets

CONSTANTS Place,       \* inputs
          Worth,       \* their values
          Poison,      \* in Worth: projections throw on it
          Projection,  \* see ProjectionAssumption
          Reader,      \* one per call of subscribeReads
          NoReader,    \* a handle not in use
          NoBucket     \* Phase G is between two buckets

ASSUME ProjectionAssumption ==
  Poison \in Worth /\ Projection \subseteq [first : Place, rest : [Worth -> SUBSET Place]]

\* An entry of subscribeReadsRegistrations.
Registration == [proj : Projection, deps : SUBSET Place]

ASSUME NothingAssumption == NoReader \notin Registration /\ NoBucket \notin Place

VARIABLES
  held,     \* what a read gives: InputEntry.value, or the staged value
  gone,     \* disposed
  regs,     \* subscribeReadsRegistrations: projection and recordedDeps
  index,    \* subscribeReadsByNode
  frame,    \* the commit that runs, and where its Phase G is
  got,      \* history: the value a reader's observer got last
  stale     \* history: readers that last ran in a tx body, threw, or lost a node

readVars == <<held, gone, regs, index, frame, got, stale>>

Enrolled == {r \in Reader : regs[r] # NoReader}
NoFrame == [at |-> "idle", base |-> held, due |-> {}, bucket |-> NoBucket,
         cut |-> FALSE, fired |-> {}]

ReadTypeOK ==
  /\ held \in [Place -> Worth] /\ gone \subseteq Place
  /\ regs \in [Reader -> Registration \cup {NoReader}]
  /\ index \in [Place -> SUBSET Reader]
  /\ frame.at \in {"idle", "body", "readers"} /\ frame.base \in [Place -> Worth]
  /\ frame.due \subseteq Place /\ frame.bucket \in Place \cup {NoBucket}
  /\ frame.cut \in BOOLEAN /\ frame.fired \subseteq Reader
  /\ stale \subseteq Enrolled

-----------------------------------------------------------------------------
(* One run of a projection under activeReadTracker, and the index.         *)

ReadSetOf(p)   == {p.first} \cup p.rest[held[p.first]]
Projected(p)   == [c \in ReadSetOf(p) |-> held[c]]
Throws(p)   == \E c \in ReadSetOf(p) : c \in gone \/ held[c] = Poison

\* reconcileProjectionDeps: the symmetric difference, then the forward record.
ReconcileAddsOnly(r, old, next) ==
  index' = [c \in Place |-> IF c \in next THEN index[c] \cup {r} ELSE index[c]]

Reconcile(r, old, next) ==
  index' = [c \in Place |-> IF c \in next THEN index[c] \cup {r}
                            ELSE IF c \in old THEN index[c] \ {r} ELSE index[c]]

\* The bucket Phase G walks is left when it is emptied: the index forgets it.
BucketGone == frame.cut \/ (frame.bucket # NoBucket /\ index'[frame.bucket] = {})

-----------------------------------------------------------------------------
(* Callers: between frames, in a tx body, or in an observer Phase G calls. *)

CallerReads == frame.at # "readers" \/ frame.fired # {}

\* subscribeReads: a projection that throws leaves nothing behind.
SubscribeReads(r, p) ==
  /\ CallerReads /\ r \notin Enrolled \cup frame.fired
  /\ ~Throws(p)
  /\ regs' = [regs EXCEPT ![r] = [proj |-> p, deps |-> ReadSetOf(p)]]
  /\ Reconcile(r, {}, ReadSetOf(p))
  /\ got' = [got EXCEPT ![r] = Projected(p)]
  /\ stale' = IF frame.at = "body" THEN stale \cup {r} ELSE stale
  /\ UNCHANGED <<held, gone, frame>>

UnsubscribeReads(r) ==
  /\ CallerReads /\ r \in Enrolled
  /\ Reconcile(r, regs[r].deps, {})
  /\ regs' = [regs EXCEPT ![r] = NoReader] /\ got' = [got EXCEPT ![r] = <<>>]
  /\ stale' = stale \ {r}
  /\ frame' = [frame EXCEPT !.cut = BucketGone]
  /\ UNCHANGED <<held, gone>>

\* _dispose refuses while a commit runs.
DisposePlace(c) ==
  /\ frame.at = "idle" /\ c \notin gone
  /\ gone' = gone \cup {c}
  /\ regs' = [r \in Reader |-> IF r \in index[c]
                               THEN [regs[r] EXCEPT !.deps = @ \ {c}] ELSE regs[r]]
  /\ index' = [index EXCEPT ![c] = {}]
  /\ stale' = stale \cup index[c]
  /\ UNCHANGED <<held, frame, got>>

\* input() under a disposed id.
ReregisterPlace(c, v) ==
  /\ frame.at = "idle" /\ c \in gone
  /\ gone' = gone \ {c} /\ held' = [held EXCEPT ![c] = v]
  /\ frame' = [frame EXCEPT !.base = held']
  /\ UNCHANGED <<regs, index, got, stale>>

-----------------------------------------------------------------------------
(* A frame.                                                                *)

BeginTx ==
  /\ frame.at = "idle" /\ frame' = [frame EXCEPT !.at = "body", !.base = held]
  /\ UNCHANGED <<held, gone, regs, index, got, stale>>

WritePlace(c, v) ==
  /\ frame.at = "body" /\ c \notin gone
  /\ held' = [held EXCEPT ![c] = v]
  /\ UNCHANGED <<gone, regs, index, frame, got, stale>>

\* The body, an invariant or a compute throws, or the frame was a simulate.
TakeBack ==
  /\ frame.at = "body"
  /\ held' = frame.base /\ frame' = [NoFrame EXCEPT !.base = frame.base]
  /\ UNCHANGED <<gone, regs, index, got, stale>>

\* anyProjectionDepIn, which the early return of commit asks.
AnyProjectionDepIn(changed) == \E c \in changed : index[c] # {}

\* Publication, and the gate before Phase G.
PublishTx ==
  /\ frame.at = "body"
  /\ LET changed == {c \in Place : held[c] # frame.base[c]}
     IN frame' = IF AnyProjectionDepIn(changed)
                 THEN [NoFrame EXCEPT !.at = "readers", !.due = changed] ELSE NoFrame
  /\ UNCHANGED <<held, gone, regs, index, got, stale>>

\* for (const reg of bucket), once per commit for each registration.
ToRun == IF frame.bucket = NoBucket \/ frame.cut THEN {}
           ELSE index[frame.bucket] \ frame.fired

RunReader(r) ==
  /\ frame.at = "readers" /\ r \in ToRun
  /\ LET p == regs[r].proj
     IN IF Throws(p)
        THEN /\ stale' = stale \cup {r}
             /\ frame' = [frame EXCEPT !.fired = @ \cup {r}]
             /\ UNCHANGED <<regs, index, got>>
        ELSE /\ Reconcile(r, regs[r].deps, ReadSetOf(p))
             /\ regs' = [regs EXCEPT ![r].deps = ReadSetOf(p)]
             /\ got' = [got EXCEPT ![r] = Projected(p)]
             /\ stale' = stale \ {r}
             /\ frame' = [frame EXCEPT !.fired = @ \cup {r}, !.cut = BucketGone]
  /\ UNCHANGED <<held, gone>>

\* for (const changedId of changed)
NextBucket ==
  /\ frame.at = "readers" /\ ToRun = {}
  /\ \/ \E c \in frame.due :
          frame' = [frame EXCEPT !.due = @ \ {c}, !.bucket = c, !.cut = index[c] = {}]
     \/ frame.due = {} /\ frame' = NoFrame
  /\ UNCHANGED <<held, gone, regs, index, got, stale>>

-----------------------------------------------------------------------------

ReadInit ==
  /\ \E v \in Worth \ {Poison} : held = [c \in Place |-> v]
  /\ gone = {} /\ regs = [r \in Reader |-> NoReader]
  /\ index = [c \in Place |-> {}] /\ frame = NoFrame
  /\ got = [r \in Reader |-> <<>>] /\ stale = {}

ReadNext ==
  \/ \E r \in Reader : UnsubscribeReads(r) \/ RunReader(r)
  \/ \E r \in Reader, p \in Projection : SubscribeReads(r, p)
  \/ \E c \in Place : DisposePlace(c)
  \/ \E c \in Place, v \in Worth : ReregisterPlace(c, v) \/ WritePlace(c, v)
  \/ BeginTx \/ TakeBack \/ PublishTx \/ NextBucket

ReadSpec == ReadInit /\ [][ReadNext]_readVars

-----------------------------------------------------------------------------
(* Properties.                                                             *)

\* The two indexes of subscribeReads agree: a registration is in the bucket of
\* a node exactly if it recorded it, through dynamic reads, observers that
\* come and go during Phase G, and disposals.
IndexMirrorsReads ==
  \A c \in Place : index[c] = {r \in Enrolled : c \in regs[r].deps}

\* Between frames a reader has the value its projection would give now, and
\* listens to what it read for it, unless it says so itself: the
\* last run threw, was in a tx body, or one of its nodes was disposed.
ReadersAreCurrent ==
  frame.at = "idle" =>
    \A r \in Enrolled \ stale : /\ got[r] = Projected(regs[r].proj)
                            /\ regs[r].deps = ReadSetOf(regs[r].proj)

ReadSetsSound == IndexMirrorsReads /\ ReadersAreCurrent
=============================================================================
