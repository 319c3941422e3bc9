--------------------------- MODULE ListenersProofs ---------------------------
(***************************************************************************)
(* Those who hear of a commit.  The readers of subscribeReads, for any     *)
(* number of them, any projections and any inputs: the two indexes agree,  *)
(* and between frames a reader has the value its projection would give     *)
(* now.  A slot and the pages on it, for any number of pages, builds and   *)
(* versions, and any values.  And whole commits, for any inputs, derived   *)
(* nodes, values and observers: the input side and the derived side keep   *)
(* to their own specifications, agree, and are unwound together.           *)
(***************************************************************************)
EXTENDS MCListeners, SubscribersProofs

ReadShapes ==
  /\ held \in [Place -> Worth] /\ gone \subseteq Place
  /\ regs \in [Reader -> Registration \cup {NoReader}]
  /\ index \in [Place -> SUBSET Reader]
  /\ got = [r \in Reader |-> got[r]]
  /\ frame \in [at : {"idle", "body", "readers"}, base : [Place -> Worth],
                due : SUBSET Place, bucket : Place \cup {NoBucket},
                cut : BOOLEAN, fired : SUBSET Reader]

\* Nobody listens to a node that is disposed.
NoneOfTheGone == \A r \in Enrolled : regs[r].deps \cap gone = {}

\* r has what its projection gives on the values v, and listens to what it read.
ShowsOn(v, r) ==
  /\ regs[r].deps = {regs[r].proj.first} \cup regs[r].proj.rest[v[regs[r].proj.first]]
  /\ got[r] = [c \in regs[r].deps |-> v[c]]

\* Phase G has still to come to r, by a later bucket or by the one it walks.
Awaited(r) ==
  /\ r \notin frame.fired
  /\ \/ regs[r].deps \cap frame.due # {}
     \/ frame.bucket \in regs[r].deps /\ ~frame.cut

\* What a reader has, through a frame: in the body what the frame began with.
ReadersInFrame ==
  \A r \in Enrolled \ stale :
    /\ frame.at = "idle" => ShowsOn(held, r)
    /\ frame.at = "body" => ShowsOn(frame.base, r)
    /\ frame.at = "readers" => ShowsOn(held, r) \/ Awaited(r)

ReadInv == ReadShapes /\ IndexMirrorsReads /\ NoneOfTheGone /\ ReadersInFrame

-----------------------------------------------------------------------------
(* One run of a projection.                                                *)

LEMMA RegistrationParts ==
  ASSUME ReadShapes, NEW r \in Enrolled
  PROVE  /\ regs[r] \in Registration /\ regs[r].proj \in Projection
         /\ regs[r].deps \subseteq Place
  BY DEF ReadShapes, Enrolled, Registration

LEMMA ReadSetOfPlaces ==
  ASSUME ReadShapes, NEW p \in Projection
  PROVE  ReadSetOf(p) \subseteq Place /\ p.first \in ReadSetOf(p)
  BY ProjectionAssumption DEF ReadShapes, ReadSetOf

LEMMA ShownNow ==
  ASSUME NEW r \in Enrolled
  PROVE  ShowsOn(held, r) <=> /\ regs[r].deps = ReadSetOf(regs[r].proj)
                              /\ got[r] = Projected(regs[r].proj)
  BY DEF ShowsOn, ReadSetOf, Projected

\* Values that agree where a reader listens show it the same.
LEMMA SameWhereItListens ==
  ASSUME NEW v, NEW w, NEW r, ShowsOn(v, r), \A c \in regs[r].deps : w[c] = v[c]
  PROVE  ShowsOn(w, r)
  BY DEF ShowsOn

\* The bucket that is walked stays in the index while somebody is in it.
LEMMA CutOnlyEmpty ==
  ASSUME NEW r, frame.bucket # NoBucket, r \in index'[frame.bucket], ~frame.cut
  PROVE  ~BucketGone
  BY DEF BucketGone

-----------------------------------------------------------------------------
(* Initial states and steps.                                               *)

LEMMA ReadInitHolds == ReadInit => ReadInv
<1> SUFFICES ASSUME ReadInit PROVE ReadInv
  OBVIOUS
<1>1. Enrolled = {}
  BY DEF ReadInit, Enrolled
<1>2. ReadShapes
  BY DEF ReadInit, ReadShapes, NoFrame
<1> QED
  BY <1>1, <1>2 DEF ReadInv, IndexMirrorsReads, NoneOfTheGone, ReadersInFrame, ReadInit

LEMMA SubscribeKeeps ==
  ASSUME ReadInv, NEW r \in Reader, NEW p \in Projection, SubscribeReads(r, p)
  PROVE  ReadInv'
<1> DEFINE S == ReadSetOf(p)
<1> USE DEF ReadInv
<1>1. S \subseteq Place /\ S \cap gone = {}
  BY ReadSetOfPlaces DEF SubscribeReads, Throws
<1>2. /\ regs' = [regs EXCEPT ![r] = [proj |-> p, deps |-> S]]
      /\ index' = [c \in Place |-> IF c \in S THEN index[c] \cup {r} ELSE index[c]]
      /\ got' = [got EXCEPT ![r] = Projected(p)]
      /\ r \notin Enrolled /\ UNCHANGED <<held, gone, frame>>
  BY DEF SubscribeReads, Reconcile
<1>3. [proj |-> p, deps |-> S] \in Registration
  BY <1>1 DEF Registration
<1>4. ReadShapes'
  BY <1>2, <1>3, ReadSetOfPlaces DEF ReadShapes
<1>5. /\ Enrolled' = Enrolled \cup {r}
      /\ regs'[r].proj = p /\ regs'[r].deps = S /\ got'[r] = Projected(p)
      /\ \A q \in Enrolled : q # r /\ regs'[q] = regs[q] /\ got'[q] = got[q]
  BY <1>2, <1>3, NothingAssumption DEF ReadShapes, Enrolled
<1>6. IndexMirrorsReads'
  BY <1>2, <1>5 DEF IndexMirrorsReads
<1>7. NoneOfTheGone'
  BY <1>1, <1>2, <1>5 DEF NoneOfTheGone
<1>8. ReadersInFrame'
  <2>1. ShowsOn(held, r)'
    BY <1>2, <1>5 DEF ShowsOn, ReadSetOf, Projected
  <2>2. \A q \in Enrolled : q \notin stale' => q \notin stale
    BY <1>5 DEF SubscribeReads
  <2>3. frame.at = "body" => r \in stale'
    BY DEF SubscribeReads
  <2>4. \A q \in Enrolled : Awaited(q) => Awaited(q)'
    BY <1>2, <1>5 DEF Awaited
  <2>5. \A q \in Enrolled : /\ ShowsOn(held, q) => ShowsOn(held, q)'
                            /\ ShowsOn(frame.base, q) => ShowsOn(frame.base, q)'
    BY <1>2, <1>5 DEF ShowsOn
  <2> QED
    BY <1>2, <1>5, <2>1, <2>2, <2>3, <2>4, <2>5 DEF ReadersInFrame, ReadShapes
<1> QED
  BY <1>4, <1>6, <1>7, <1>8

LEMMA UnsubscribeKeeps ==
  ASSUME ReadInv, NEW r \in Reader, UnsubscribeReads(r)
  PROVE  ReadInv'
<1> USE DEF ReadInv
<1>1. /\ regs' = [regs EXCEPT ![r] = NoReader]
      /\ index' = [c \in Place |-> IF c \in regs[r].deps THEN index[c] \ {r} ELSE index[c]]
      /\ got' = [got EXCEPT ![r] = <<>>] /\ stale' = stale \ {r}
      /\ frame' = [frame EXCEPT !.cut = BucketGone]
      /\ r \in Enrolled /\ UNCHANGED <<held, gone>>
  BY DEF UnsubscribeReads, Reconcile
<1>2. ReadShapes'
  BY <1>1 DEF ReadShapes, BucketGone
<1>3. /\ Enrolled' = Enrolled \ {r}
      /\ \A q \in Enrolled' : regs'[q] = regs[q] /\ got'[q] = got[q]
  BY <1>1 DEF ReadShapes, Enrolled
<1>4. IndexMirrorsReads'
  BY <1>1, <1>3 DEF IndexMirrorsReads
<1>5. NoneOfTheGone'
  BY <1>1, <1>3 DEF NoneOfTheGone
<1>6. ReadersInFrame'
  <2>1. ASSUME NEW q \in Enrolled', Awaited(q) PROVE Awaited(q)'
    <3>1. frame.bucket \in regs[q].deps => q \in index'[frame.bucket]
      BY <1>3, <1>4, RegistrationParts, <1>1 DEF IndexMirrorsReads
    <3>2. frame.bucket \in regs[q].deps /\ ~frame.cut => ~BucketGone
      BY <3>1, <1>3, RegistrationParts, NothingAssumption, CutOnlyEmpty
    <3> QED
      BY <1>1, <1>3, <2>1, <3>2 DEF Awaited, ReadShapes
  <2>2. \A q \in Enrolled' : /\ ShowsOn(held, q) => ShowsOn(held, q)'
                             /\ ShowsOn(frame.base, q) => ShowsOn(frame.base, q)'
    BY <1>1, <1>3 DEF ShowsOn, ReadShapes
  <2> QED
    BY <1>1, <1>3, <2>1, <2>2 DEF ReadersInFrame, ReadShapes
<1> QED
  BY <1>2, <1>4, <1>5, <1>6

LEMMA DisposePlaceKeeps ==
  ASSUME ReadInv, NEW c \in Place, DisposePlace(c)
  PROVE  ReadInv'
<1> USE DEF ReadInv
<1>1. /\ frame.at = "idle" /\ gone' = gone \cup {c}
      /\ regs' = [r \in Reader |-> IF r \in index[c]
                                   THEN [regs[r] EXCEPT !.deps = @ \ {c}] ELSE regs[r]]
      /\ index' = [index EXCEPT ![c] = {}] /\ stale' = stale \cup index[c]
      /\ UNCHANGED <<held, frame, got>>
  BY DEF DisposePlace
<1>2. \A r \in index[c] : /\ r \in Enrolled /\ regs'[r] \in Registration
                          /\ regs'[r].deps = regs[r].deps \ {c}
  BY <1>1, RegistrationParts DEF IndexMirrorsReads, ReadShapes, Registration, Enrolled
<1>3. \A r \in Enrolled \ index[c] : regs'[r] = regs[r] /\ c \notin regs[r].deps
  BY <1>1 DEF IndexMirrorsReads, Enrolled
<1>4. ReadShapes'
  BY <1>1, <1>2 DEF ReadShapes
<1>5. Enrolled' = Enrolled
  BY <1>1, <1>2, NothingAssumption DEF Enrolled
<1>6. \A r \in Enrolled : regs'[r].deps = regs[r].deps \ {c}
  BY <1>2, <1>3
<1>7. IndexMirrorsReads' /\ NoneOfTheGone'
  BY <1>1, <1>5, <1>6 DEF IndexMirrorsReads, NoneOfTheGone, ReadShapes
<1>8. \A r \in Enrolled \ index[c] : ShowsOn(held, r) => ShowsOn(held, r)'
  BY <1>1, <1>3 DEF ShowsOn
<1>9. ReadersInFrame'
  BY <1>1, <1>5, <1>8 DEF ReadersInFrame
<1> QED
  BY <1>4, <1>7, <1>9

LEMMA ReregisterPlaceKeeps ==
  ASSUME ReadInv, NEW c \in Place, NEW v \in Worth, ReregisterPlace(c, v)
  PROVE  ReadInv'
<1> USE DEF ReadInv
<1>1. /\ frame.at = "idle" /\ c \in gone /\ gone' = gone \ {c}
      /\ held' = [held EXCEPT ![c] = v] /\ frame' = [frame EXCEPT !.base = held']
      /\ UNCHANGED <<regs, index, got, stale>>
  BY DEF ReregisterPlace
<1>2. ReadShapes'
  BY <1>1 DEF ReadShapes
<1>3. Enrolled' = Enrolled /\ IndexMirrorsReads' /\ NoneOfTheGone'
  BY <1>1 DEF Enrolled, IndexMirrorsReads, NoneOfTheGone
<1>4. ASSUME NEW r \in Enrolled, ShowsOn(held, r) PROVE ShowsOn(held, r)'
  <2>1. \A p \in regs[r].deps : held'[p] = held[p]
    BY <1>1, RegistrationParts DEF NoneOfTheGone, ReadShapes
  <2> QED
    BY <1>1, <1>4, <2>1 DEF ShowsOn
<1>5. ReadersInFrame'
  BY <1>1, <1>3, <1>4 DEF ReadersInFrame, ReadShapes
<1> QED
  BY <1>2, <1>3, <1>5

LEMMA BeginTxKeeps == ASSUME ReadInv, BeginTx PROVE ReadInv'
<1> USE DEF ReadInv
<1>1. ReadShapes' /\ Enrolled' = Enrolled
  BY DEF BeginTx, ReadShapes, Enrolled
<1>2. IndexMirrorsReads' /\ NoneOfTheGone'
  BY <1>1 DEF BeginTx, IndexMirrorsReads, NoneOfTheGone
<1>3. \A r \in Enrolled : ShowsOn(held, r) => ShowsOn(frame.base, r)'
  BY DEF BeginTx, ShowsOn, ReadShapes
<1>4. ReadersInFrame'
  BY <1>1, <1>3 DEF BeginTx, ReadersInFrame, ReadShapes
<1> QED
  BY <1>1, <1>2, <1>4

LEMMA WriteKeeps ==
  ASSUME ReadInv, NEW c \in Place, NEW v \in Worth, WritePlace(c, v)
  PROVE  ReadInv'
<1> USE DEF ReadInv
<1>1. ReadShapes' /\ Enrolled' = Enrolled
  BY DEF WritePlace, ReadShapes, Enrolled
<1>2. IndexMirrorsReads' /\ NoneOfTheGone'
  BY <1>1 DEF WritePlace, IndexMirrorsReads, NoneOfTheGone
<1>3. ReadersInFrame'
  BY <1>1 DEF WritePlace, ReadersInFrame, ShowsOn
<1> QED
  BY <1>1, <1>2, <1>3

LEMMA TakeBackKeeps == ASSUME ReadInv, TakeBack PROVE ReadInv'
<1> USE DEF ReadInv
<1>1. /\ frame.at = "body" /\ held' = frame.base /\ frame'.at = "idle"
      /\ UNCHANGED <<gone, regs, index, got, stale>>
  BY DEF TakeBack, NoFrame
<1>2. ReadShapes' /\ Enrolled' = Enrolled
  BY <1>1 DEF TakeBack, ReadShapes, NoFrame, Enrolled
<1>3. IndexMirrorsReads' /\ NoneOfTheGone'
  BY <1>1, <1>2 DEF IndexMirrorsReads, NoneOfTheGone
<1>4. ReadersInFrame'
  BY <1>1, <1>2 DEF ReadersInFrame, ShowsOn
<1> QED
  BY <1>2, <1>3, <1>4

\* Whoever listens to a changed node is due; the others are shown what they have.
LEMMA PublishKeeps == ASSUME ReadInv, PublishTx PROVE ReadInv'
<1> DEFINE written == {c \in Place : held[c] # frame.base[c]}
<1> USE DEF ReadInv
<1>1. /\ frame.at = "body" /\ UNCHANGED <<held, gone, regs, index, got, stale>>
      /\ frame' = IF AnyProjectionDepIn(written)
                  THEN [NoFrame EXCEPT !.at = "readers", !.due = written] ELSE NoFrame
  BY DEF PublishTx
<1>2. ReadShapes' /\ Enrolled' = Enrolled
  BY <1>1 DEF ReadShapes, NoFrame, Enrolled
<1>3. IndexMirrorsReads' /\ NoneOfTheGone'
  BY <1>1, <1>2 DEF IndexMirrorsReads, NoneOfTheGone
<1>4. \A r \in Enrolled \ stale : ShowsOn(held, r) \/ regs[r].deps \cap written # {}
  <2> SUFFICES ASSUME NEW r \in Enrolled \ stale, regs[r].deps \cap written = {}
               PROVE  ShowsOn(held, r)
    OBVIOUS
  <2>1. ShowsOn(frame.base, r)
    BY <1>1 DEF ReadersInFrame
  <2>2. \A c \in regs[r].deps : held[c] = frame.base[c]
    BY RegistrationParts
  <2> QED
    BY <2>1, <2>2, SameWhereItListens
<1>5. \A r \in Enrolled : ShowsOn(held, r) => ShowsOn(held, r)'
  BY <1>1 DEF ShowsOn
<1>6. CASE AnyProjectionDepIn(written)
  <2>1. frame'.at = "readers" /\ frame'.due = written /\ frame'.fired = {}
    BY <1>1, <1>6 DEF NoFrame
  <2>2. \A r \in Enrolled : regs[r].deps \cap written # {} => Awaited(r)'
    BY <1>1, <2>1 DEF Awaited
  <2> QED
    BY <1>1, <1>2, <1>3, <1>4, <1>5, <2>1, <2>2 DEF ReadersInFrame
<1>7. CASE ~AnyProjectionDepIn(written)
  <2>1. frame'.at = "idle"
    BY <1>1, <1>7 DEF NoFrame
  <2>2. \A r \in Enrolled : regs[r].deps \cap written = {}
    BY <1>7, RegistrationParts DEF AnyProjectionDepIn, IndexMirrorsReads
  <2> QED
    BY <1>1, <1>2, <1>3, <1>4, <1>5, <2>1, <2>2 DEF ReadersInFrame
<1> QED
  BY <1>6, <1>7

\* A run gives its reader the present value, or is known to have thrown; it does
\* not take the bucket from under the readers that are still in it.
LEMMA RunKeeps ==
  ASSUME ReadInv, NEW r \in Reader, RunReader(r)
  PROVE  ReadInv'
<1> DEFINE p == regs[r].proj
           S == ReadSetOf(p)
<1> USE DEF ReadInv
<1>1. /\ frame.at = "readers" /\ r \in ToRun /\ UNCHANGED <<held, gone>>
      /\ frame.bucket \in Place
  BY DEF RunReader, ToRun, ReadShapes
<1>2. r \in Enrolled
  BY <1>1 DEF ToRun, IndexMirrorsReads
<1>3. CASE Throws(p)
  <2>1. /\ stale' = stale \cup {r} /\ frame' = [frame EXCEPT !.fired = @ \cup {r}]
        /\ UNCHANGED <<regs, index, got>>
    BY <1>3 DEF RunReader
  <2>2. ReadShapes' /\ Enrolled' = Enrolled
    BY <1>1, <2>1 DEF ReadShapes, Enrolled
  <2>3. IndexMirrorsReads' /\ NoneOfTheGone'
    BY <1>1, <2>1, <2>2 DEF IndexMirrorsReads, NoneOfTheGone
  <2>4. \A q \in Enrolled : ShowsOn(held, q) => ShowsOn(held, q)'
    BY <1>1, <2>1 DEF ShowsOn
  <2>5. \A q \in Enrolled \ {r} : Awaited(q) => Awaited(q)'
    BY <1>1, <2>1 DEF Awaited, ReadShapes
  <2>6. ReadersInFrame'
    BY <1>1, <2>1, <2>2, <2>4, <2>5 DEF ReadersInFrame, ReadShapes
  <2> QED
    BY <2>2, <2>3, <2>6
<1>4. CASE ~Throws(p)
  <2>1. /\ index' = [c \in Place |-> IF c \in S THEN index[c] \cup {r}
                                    ELSE IF c \in regs[r].deps THEN index[c] \ {r}
                                    ELSE index[c]]
        /\ regs' = [regs EXCEPT ![r].deps = S] /\ got' = [got EXCEPT ![r] = Projected(p)]
        /\ stale' = stale \ {r}
        /\ frame' = [frame EXCEPT !.fired = @ \cup {r}, !.cut = BucketGone]
    BY <1>4 DEF RunReader, Reconcile
  <2>2. S \subseteq Place /\ S \cap gone = {} /\ p \in Projection
    BY <1>2, <1>4, RegistrationParts, ReadSetOfPlaces DEF Throws
  <2>3. regs'[r] \in Registration /\ regs'[r].proj = p /\ regs'[r].deps = S
    BY <1>2, <2>1, <2>2, RegistrationParts DEF Registration, ReadShapes
  <2>4. ReadShapes'
    BY <1>1, <2>1, <2>3 DEF ReadShapes, BucketGone
  <2>5. /\ Enrolled' = Enrolled
        /\ \A q \in Enrolled \ {r} : regs'[q] = regs[q] /\ got'[q] = got[q]
    BY <1>2, <2>1, <2>3, NothingAssumption DEF Enrolled, ReadShapes
  <2>6. IndexMirrorsReads'
    BY <1>2, <2>1, <2>3, <2>5 DEF IndexMirrorsReads
  <2>7. NoneOfTheGone'
    BY <1>1, <2>2, <2>3, <2>5 DEF NoneOfTheGone
  <2>8. ReadersInFrame'
    <3>1. ShowsOn(held, r)'
      BY <1>1, <2>1, <2>3 DEF ShowsOn, ReadSetOf, Projected, ReadShapes
    <3>2. ASSUME NEW q \in Enrolled \ {r}, Awaited(q) PROVE Awaited(q)'
      <4>1. frame.bucket \in regs[q].deps => q \in index'[frame.bucket]
        BY <1>1, <2>5, <2>6 DEF IndexMirrorsReads
      <4>2. frame.bucket \in regs[q].deps /\ ~frame.cut => ~BucketGone
        BY <1>1, <4>1, NothingAssumption, CutOnlyEmpty
      <4> QED
        BY <2>1, <2>5, <3>2, <4>2 DEF Awaited, ReadShapes
    <3>3. \A q \in Enrolled \ {r} : ShowsOn(held, q) => ShowsOn(held, q)'
      BY <1>1, <2>5 DEF ShowsOn
    <3>4. frame'.at = "readers"
      BY <1>1, <2>1 DEF ReadShapes
    <3> QED
      BY <1>1, <2>1, <2>5, <3>1, <3>2, <3>3, <3>4 DEF ReadersInFrame
  <2> QED
    BY <2>4, <2>6, <2>7, <2>8
<1> QED
  BY <1>3, <1>4

\* The walk leaves a bucket when all in it have run, and ends when none is due.
LEMMA BucketKeeps == ASSUME ReadInv, NextBucket PROVE ReadInv'
<1> USE DEF ReadInv
<1>1. frame.at = "readers" /\ ToRun = {} /\ UNCHANGED <<held, gone, regs, index, got, stale>>
  BY DEF NextBucket
<1>2. \A r \in Enrolled : Awaited(r) => regs[r].deps \cap frame.due # {}
  BY <1>1, RegistrationParts, NothingAssumption DEF Awaited, ToRun, IndexMirrorsReads
<1>3. Enrolled' = Enrolled /\ IndexMirrorsReads' /\ NoneOfTheGone'
  BY <1>1 DEF Enrolled, IndexMirrorsReads, NoneOfTheGone
<1>4. \A r \in Enrolled : ShowsOn(held, r) => ShowsOn(held, r)'
  BY <1>1 DEF ShowsOn
<1>5. ASSUME NEW c \in frame.due,
             frame' = [frame EXCEPT !.due = @ \ {c}, !.bucket = c, !.cut = index[c] = {}]
      PROVE  ReadInv'
  <2>1. ReadShapes'
    BY <1>1, <1>5 DEF ReadShapes
  <2>2. c \in Place /\ frame'.at = "readers"
    BY <1>1, <1>5 DEF ReadShapes
  <2>3. ASSUME NEW r \in Enrolled, Awaited(r) PROVE Awaited(r)'
    <3>1. CASE c \in regs[r].deps
      <4>1. index[c] # {}
        BY <2>2, <3>1 DEF IndexMirrorsReads
      <4> QED
        BY <1>1, <1>5, <2>3, <3>1, <4>1 DEF Awaited, ReadShapes
    <3>2. CASE c \notin regs[r].deps
      BY <1>1, <1>2, <1>5, <2>3, <3>2 DEF Awaited, ReadShapes
    <3> QED
      BY <3>1, <3>2
  <2> QED
    BY <1>1, <1>3, <1>4, <2>1, <2>2, <2>3 DEF ReadersInFrame
<1>6. ASSUME frame.due = {}, frame' = NoFrame PROVE ReadInv'
  <2>1. ReadShapes' /\ frame'.at = "idle"
    BY <1>1, <1>6 DEF ReadShapes, NoFrame
  <2> QED
    BY <1>1, <1>2, <1>3, <1>4, <1>6, <2>1 DEF ReadersInFrame
<1> QED
  BY <1>5, <1>6 DEF NextBucket

LEMMA ReadStepKeeps == ReadInv /\ [ReadNext]_readVars => ReadInv'
<1> SUFFICES ASSUME ReadInv, [ReadNext]_readVars PROVE ReadInv'
  OBVIOUS
<1>1. CASE UNCHANGED readVars
  <2>1. ReadShapes' /\ IndexMirrorsReads' /\ NoneOfTheGone' /\ Enrolled' = Enrolled
    BY <1>1 DEF readVars, ReadInv, ReadShapes, IndexMirrorsReads, NoneOfTheGone, Enrolled
  <2>2. \A r \in Enrolled : /\ ShowsOn(held, r) => ShowsOn(held, r)'
                            /\ ShowsOn(frame.base, r) => ShowsOn(frame.base, r)'
                            /\ Awaited(r) => Awaited(r)'
    BY <1>1 DEF readVars, ShowsOn, Awaited
  <2> QED
    BY <1>1, <2>1, <2>2 DEF readVars, ReadInv, ReadersInFrame
<1>2. CASE ReadNext
  BY <1>2, SubscribeKeeps, UnsubscribeKeeps, DisposePlaceKeeps, ReregisterPlaceKeeps, BeginTxKeeps,
     WriteKeeps, TakeBackKeeps, PublishKeeps, RunKeeps, BucketKeeps DEF ReadNext
<1> QED
  BY <1>1, <1>2

\* The two indexes of subscribeReads agree through dynamic reads, disposals, and
\* observers that come and go under the walk; and between frames each reader has
\* the value its projection would give and listens to all that it read for it.
THEOREM ReadersSound == ReadSpec => []ReadSetsSound
<1>1. ReadInv => ReadSetsSound
  BY ShownNow DEF ReadInv, ReadSetsSound, ReadersAreCurrent, ReadersInFrame
<1> QED
  BY ReadInitHolds, ReadStepKeeps, <1>1, PTL DEF ReadSpec

-----------------------------------------------------------------------------
(* Pages and the slot they share.                                          *)

Stages == {"closed", "open", "threw"}
Errors == {"none", "parse", "migrate-threw", "migrate-missing", "serialise", "quota"}
Held   == [data : Data \cup {Gone, "initial"}, shape : Version]

PageState == [stage : Stages, options : Options, error : Errors, value : Held]

\* The shapes of what pages and slot hold, with each envelope of the shape of
\* its version; the last is what a page of that version takes over unmigrated.
PagesOK == pages \in [Page -> PageState]
SlotOK  == \/ slot \in {Marker(k) : k \in {"absent", "garbled", "null"}}
           \/ \E v \in Version, x \in Held : x.shape = v /\ slot = Envelope(v, x)

PersistInv == PagesOK /\ SlotOK /\ PersistSound

-----------------------------------------------------------------------------
(* Values.                                                                 *)

LEMMA InitialHeld == ASSUME NEW v \in Version PROVE Initial(v) \in Held /\ Initial(v).shape = v
  BY DEF Initial, Held

LEMMA StoredHeld == ASSUME NEW x \in Held PROVE Stored(x) \in Held /\ Stored(x).shape = x.shape
  BY DEF Stored, Held

LEMMA SlotKinds ==
  ASSUME SlotOK
  PROVE  /\ slot.kind \in {"absent", "garbled", "null", "envelope"}
         /\ slot.kind = "envelope" =>
              /\ slot.version \in Version /\ slot.value \in Held
              /\ slot.value.shape = slot.version
  BY DEF SlotOK, Marker, Envelope

\* What a page is given has the shape of its build, read as it is, migrated or
\* started anew.
LEMMA LoadedHeld ==
  ASSUME SlotOK, NEW o \in Options, slot.kind # "null"
  PROVE  /\ LoadInitial(o).value \in Held /\ LoadInitial(o).value.shape = o.version
         /\ LoadInitial(o).error \in Errors
<1>1. o.version \in Version /\ o.migrate \in {"missing", "works", "throws"}
  BY DEF Options
<1>2. Initial(o.version) \in Held /\ Initial(o.version).shape = o.version
  BY <1>1, InitialHeld
<1>3. CASE slot.kind \in {"absent", "garbled"}
  BY <1>2, <1>3 DEF LoadInitial, Errors
<1>4. CASE slot.kind = "envelope"
  <2>1. slot.version \in Version /\ slot.value \in Held /\ slot.value.shape = slot.version
    BY <1>4, SlotKinds
  <2>2. CASE SameVersion(o)
    BY <1>4, <2>1, <2>2 DEF LoadInitial, SameVersion, Errors
  <2>3. CASE ~SameVersion(o) /\ o.migrate = "works"
    <3>1. Migrated(slot.value, o.version) \in Held
          /\ Migrated(slot.value, o.version).shape = o.version
      BY <1>1, <2>1 DEF Migrated, Held
    <3> QED
      BY <1>4, <2>3, <3>1 DEF LoadInitial, Errors
  <2>4. CASE ~SameVersion(o) /\ o.migrate \in {"throws", "missing"}
    BY <1>2, <1>4, <2>4 DEF LoadInitial, Errors
  <2> QED
    BY <1>1, <2>2, <2>3, <2>4
<1> QED
  BY <1>3, <1>4, SlotKinds

LEMMA DroppedOK == ASSUME SlotOK, NEW e PROVE
  /\ slot' = Dropped(e) => SlotOK'
  /\ Dropped(e) \in {slot, Marker("absent")}
  BY DEF SlotOK, Dropped

LEMMA ShapeOfSlot == SlotOK => (slot.kind = "envelope" => slot.value.shape = slot.version)
  BY SlotKinds

-----------------------------------------------------------------------------
(* Initial states and steps.                                               *)

LEMMA PersistInitHolds == PersistInit => PersistInv
<1> SUFFICES ASSUME PersistInit PROVE PersistInv
  OBVIOUS
<1>1. PICK o \in Options : pages = [p \in Page |-> [stage |-> "closed", options |-> o,
                                       error |-> "none", value |-> Initial(o.version)]]
  BY DEF PersistInit
<1>2. Initial(o.version) \in Held
  BY InitialHeld DEF Options
<1>3. PagesOK /\ \A p \in Page : pages[p].stage = "closed"
  BY <1>1, <1>2 DEF PagesOK, PageState, Stages, Errors
<1>4. SlotOK /\ lastWrite = "nobody"
  BY DEF PersistInit, SlotOK
<1> QED
  BY <1>3, <1>4, PageAssumption, ShapeOfSlot
  DEF PersistInv, PersistSound, ShapesMatchVersions, SilenceMeansSaved

\* A page that loses its claim to be the last writer owes nothing; the others
\* keep theirs only if the slot stays.
LEMMA OpenKeeps ==
  ASSUME PersistInv, NEW p \in Page, NEW o \in Options, OpenPage(p, o) PROVE PersistInv'
<1> DEFINE loaded == LoadInitial(o)
<1>1. /\ loaded.value \in Held /\ loaded.value.shape = o.version /\ loaded.error \in Errors
  BY LoadedHeld DEF PersistInv, OpenPage
<1>2. /\ pages' = [pages EXCEPT ![p] = [stage |-> "open", options |-> o,
                                        value |-> loaded.value, error |-> loaded.error]]
      /\ slot' = Dropped(loaded.error)
      /\ lastWrite' = IF slot' = slot /\ lastWrite # p THEN lastWrite ELSE "nobody"
      /\ honest' = honest
  BY DEF OpenPage
<1> HIDE DEF loaded
<1>3. PagesOK'
  BY <1>1, <1>2 DEF PersistInv, PagesOK, PageState, Stages
<1>4. SlotOK'
  BY <1>2, DroppedOK DEF PersistInv
<1>5. ShapesMatchVersions'
  <2>1. slot'.kind = "envelope" => slot'.value.shape = slot'.version
    BY <1>4 DEF SlotOK, Marker, Envelope
  <2>2. ASSUME NEW q \in Page, pages'[q].stage = "open"
        PROVE  pages'[q].value.shape = pages'[q].options.version
    BY <1>1, <1>2, <2>2 DEF PersistInv, PagesOK, PersistSound, ShapesMatchVersions
  <2> QED
    BY <2>1, <2>2 DEF ShapesMatchVersions
<1>6. SilenceMeansSaved'
  <2> SUFFICES ASSUME NEW q \in Page, honest', lastWrite' = q, pages'[q].error = "none"
               PROVE  slot' = Envelope(pages'[q].options.version, Stored(pages'[q].value))
    BY DEF SilenceMeansSaved
  <2>1. slot' = slot /\ lastWrite = q /\ q # p
    BY <1>2, PageAssumption
  <2>2. pages'[q] = pages[q]
    BY <1>2, <2>1 DEF PersistInv, PagesOK
  <2> QED
    BY <1>2, <2>1, <2>2 DEF PersistInv, PersistSound, SilenceMeansSaved
<1> QED
  BY <1>3, <1>4, <1>5, <1>6 DEF PersistInv, PersistSound

LEMMA OpenThrowsKeeps ==
  ASSUME PersistInv, NEW p \in Page, NEW o \in Options, OpenThrows(p, o) PROVE PersistInv'
<1>1. /\ slot.kind = "null" /\ slot' = slot /\ lastWrite' = lastWrite /\ honest' = honest
      /\ pages' = [pages EXCEPT ![p].stage = "threw", ![p].options = o]
  BY DEF OpenThrows
<1>2. PagesOK' /\ SlotOK'
  BY <1>1 DEF PersistInv, PagesOK, PageState, Stages, SlotOK
<1>3. ShapesMatchVersions'
  BY <1>1 DEF PersistInv, PagesOK, PageState, PersistSound, ShapesMatchVersions
<1>4. SilenceMeansSaved'
  <2> SUFFICES ASSUME NEW q \in Page, honest', lastWrite' = q, pages'[q].error = "none"
               PROVE  FALSE
    BY DEF SilenceMeansSaved
  <2>1. pages[q].error = "none"
    BY <1>1 DEF PersistInv, PagesOK, PageState
  <2>2. slot = Envelope(pages[q].options.version, Stored(pages[q].value))
    BY <1>1, <2>1 DEF PersistInv, PersistSound, SilenceMeansSaved
  <2> QED
    BY <1>1, <2>2 DEF Envelope
<1> QED
  BY <1>2, <1>3, <1>4 DEF PersistInv, PersistSound

\* A change makes its page the last writer, and the slot says the same unless
\* an error was reported.
LEMMA ChangeKeeps ==
  ASSUME PersistInv, NEW p \in Page, NEW x \in ValueOf(pages[p].options.version), Change(p, x)
  PROVE  PersistInv'
<1> DEFINE v == pages[p].options.version
<1>1. v \in Version /\ x \in Held /\ x.shape = v
  BY DEF PersistInv, PagesOK, PageState, Options, ValueOf, Held
<1>2. lastWrite' = p /\ honest' = honest
  BY DEF Change, WriteFails
<1>3. PICK e \in Errors : pages' = [pages EXCEPT ![p].value = x, ![p].error = e]
  BY DEF Change, WriteFails, Errors
<1>4. /\ SlotOK'
      /\ honest /\ pages'[p].error = "none" => slot' = Envelope(v, Stored(x))
  <2>1. CASE slot' = Envelope(v, Stored(x))
    <3>1. Stored(x) \in Held /\ Stored(x).shape = v
      BY <1>1, StoredHeld
    <3> QED
      BY <1>1, <2>1, <3>1 DEF SlotOK
  <2>2. CASE WriteFails(p, x, "serialise") /\ slot' = Dropped("serialise")
    <3>1. pages'[p].error = "serialise"
      BY <2>2 DEF WriteFails, PersistInv, PagesOK, PageState
    <3> QED
      BY <2>2, <3>1, DroppedOK DEF PersistInv
  <2>3. CASE WriteFails(p, x, IF honest THEN "quota" ELSE "none") /\ slot' = slot
    <3>1. honest => pages'[p].error = "quota"
      BY <2>3 DEF WriteFails, PersistInv, PagesOK, PageState
    <3> QED
      BY <2>3, <3>1 DEF PersistInv, SlotOK
  <2> QED
    BY <2>1, <2>2, <2>3 DEF Change
<1> HIDE DEF v
<1>5. PagesOK'
  BY <1>1, <1>3 DEF PersistInv, PagesOK, PageState
<1>6. pages'[p].value = x /\ pages'[p].options.version = v
  BY <1>3 DEF PersistInv, PagesOK, PageState, v
<1>7. ShapesMatchVersions'
  <2>1. slot'.kind = "envelope" => slot'.value.shape = slot'.version
    BY <1>4 DEF SlotOK, Marker, Envelope
  <2>2. ASSUME NEW q \in Page, pages'[q].stage = "open"
        PROVE  pages'[q].value.shape = pages'[q].options.version
    <3>1. CASE q = p
      BY <1>1, <1>6, <3>1
    <3>2. CASE q # p
      <4>1. pages'[q] = pages[q]
        BY <1>3, <3>2 DEF PersistInv, PagesOK
      <4> QED
        BY <2>2, <4>1 DEF PersistInv, PersistSound, ShapesMatchVersions
    <3> QED
      BY <3>1, <3>2
  <2> QED
    BY <2>1, <2>2 DEF ShapesMatchVersions
<1>8. SilenceMeansSaved'
  BY <1>2, <1>4, <1>6 DEF SilenceMeansSaved
<1> QED
  BY <1>4, <1>5, <1>7, <1>8 DEF PersistInv, PersistSound

LEMMA CloseKeeps == ASSUME PersistInv, NEW p \in Page, ClosePage(p) PROVE PersistInv'
<1>1. /\ slot' = slot /\ lastWrite' = lastWrite /\ honest' = honest
      /\ pages' = [pages EXCEPT ![p].stage = "closed"]
  BY DEF ClosePage
<1>2. PagesOK' /\ SlotOK'
  BY <1>1 DEF PersistInv, PagesOK, PageState, Stages, SlotOK
<1>3. \A q \in Page : /\ pages'[q].value = pages[q].value /\ pages'[q].error = pages[q].error
                       /\ pages'[q].options = pages[q].options
                       /\ pages'[q].stage \in {"closed", pages[q].stage}
  BY <1>1 DEF PersistInv, PagesOK, PageState
<1> QED
  BY <1>1, <1>2, <1>3 DEF PersistInv, PersistSound, ShapesMatchVersions, SilenceMeansSaved

LEMMA PersistStepKeeps == PersistInv /\ [PersistNext]_persistVars => PersistInv'
<1> SUFFICES ASSUME PersistInv, [PersistNext]_persistVars PROVE PersistInv'
  OBVIOUS
<1>1. CASE \E p \in Page, o \in Options : OpenPage(p, o)
  BY <1>1, OpenKeeps
<1>2. CASE \E p \in Page, o \in Options : OpenThrows(p, o)
  BY <1>2, OpenThrowsKeeps
<1>3. CASE \E p \in Page : \E x \in ValueOf(pages[p].options.version) : Change(p, x)
  BY <1>3, ChangeKeeps
<1>4. CASE \E p \in Page : ClosePage(p)
  BY <1>4, CloseKeeps
<1>5. CASE UNCHANGED persistVars
  BY <1>5 DEF persistVars, PersistInv, PagesOK, SlotOK, PersistSound, ShapesMatchVersions,
              SilenceMeansSaved
<1> QED
  BY <1>1, <1>2, <1>3, <1>4, <1>5 DEF PersistNext

\* loadInitial and the write after each commit, with any number of tabs of any
\* builds on one key: no page shows a value in another build's shape, no
\* envelope claims a version its value does not have, and whoever wrote last
\* and heard of no error has its value in the slot.
THEOREM SlotAndPagesAgree == PersistSpec => []PersistSound
<1>1. PersistInv => PersistSound
  BY DEF PersistInv
<1> QED
  BY PersistInitHolds, PersistStepKeeps, <1>1, PTL DEF PersistSpec

-----------------------------------------------------------------------------
(* What a reload finds, and what errors leave.                             *)

LEMMA ReloadStep ==
  ASSUME PersistInv, [PersistNext]_persistVars, NEW p \in Page,
         pages[p].stage = "closed", pages'[p].stage = "open",
         pages'[p].options.version = pages[p].options.version,
         honest, lastWrite = p, pages[p].error = "none"
  PROVE  pages'[p].value = Stored(pages[p].value)
<1>1. slot = Envelope(pages[p].options.version, Stored(pages[p].value))
  BY DEF PersistInv, PersistSound, SilenceMeansSaved
<1>2. PICK o \in Options : OpenPage(p, o)
  <2>1. pages' # pages
    OBVIOUS
  <2>2. PICK q \in Page : \/ \E o \in Options : OpenPage(q, o) \/ OpenThrows(q, o)
                          \/ \E x \in ValueOf(pages[q].options.version) : Change(q, x)
                          \/ ClosePage(q)
    BY <2>1 DEF PersistNext, persistVars
  <2>3. ASSUME NEW o \in Options, OpenPage(q, o) PROVE q = p
    BY <2>3 DEF OpenPage, PersistInv, PagesOK
  <2>4. ASSUME NEW o \in Options, OpenThrows(q, o) PROVE FALSE
    BY <2>4 DEF OpenThrows, PersistInv, PagesOK, PageState
  <2>5. ASSUME NEW x \in ValueOf(pages[q].options.version), Change(q, x) PROVE FALSE
    BY <2>5 DEF Change, WriteFails, PersistInv, PagesOK, PageState
  <2>6. ASSUME ClosePage(q) PROVE FALSE
    BY <2>6 DEF ClosePage, PersistInv, PagesOK, PageState
  <2> QED
    BY <2>2, <2>3, <2>4, <2>5, <2>6
<1>3. pages'[p].options = o /\ pages'[p].value = LoadInitial(o).value
  BY <1>2 DEF OpenPage, PersistInv, PagesOK
<1>4. slot.kind = "envelope" /\ SameVersion(o) /\ slot.value = Stored(pages[p].value)
  BY <1>1, <1>3 DEF SameVersion, Envelope
<1> QED
  BY <1>3, <1>4 DEF LoadInitial

LEMMA DropStep ==
  ASSUME [PersistNext]_persistVars, preserve, slot.kind # "absent"
  PROVE  slot'.kind # "absent"
<1>1. slot' = slot \/ \E v, x : slot' = Envelope(v, x)
  BY DEF PersistNext, persistVars, OpenPage, OpenThrows, Change, ClosePage, Dropped
<1> QED
  BY <1>1 DEF Envelope

\* A page that closes or crashes between two commits and is opened again by the
\* same build starts from what it had, if the storage tells of its failures and
\* told of none; and with preserveOnError no error empties the slot.
THEOREM SavedStays == PersistSpec => SavedIsKept
<1>1. PersistInv /\ [PersistNext]_persistVars =>
        [\A p \in Page :
           /\ pages[p].stage = "closed" /\ pages'[p].stage = "open"
           /\ pages'[p].options.version = pages[p].options.version
           /\ honest /\ lastWrite = p /\ pages[p].error = "none"
           => pages'[p].value = Stored(pages[p].value)]_persistVars
  BY ReloadStep
<1>2. [PersistNext]_persistVars =>
        [preserve /\ slot.kind # "absent" => slot'.kind # "absent"]_persistVars
  BY DropStep
<1> QED
  BY PersistInitHolds, PersistStepKeeps, <1>1, <1>2, PTL
  DEF PersistSpec, SavedIsKept, ReloadRestores, NothingIsDroppedUnasked

-----------------------------------------------------------------------------
(***************************************************************************)
(* Whole commits.  The two sides of CommitGraph have inductive invariants  *)
(* of their own; what is proved here is that each side, as the pipeline    *)
(* drives it, moves by its own steps only, and what ties the two together. *)
(***************************************************************************)

\* The input side again, with what is proved of it.
T == INSTANCE CommitTxProofs WITH
       val <- cell, lastWrite <- writtenAt, phase <- at, mode <- entry,
       undo <- undoRows, live <- liveRows, slot <- oneRow,
       changed <- changedInputs, MidTxRegistration <- FALSE

\* C and T instantiate the same definitions; the provers are told so once.
SameCellsFact ==
  /\ \A i \in Input : /\ C!CellBefore(i) = T!CellBefore(i)
                      /\ C!Rows(i) = T!Rows(i) /\ C!SlotRows(i) = T!SlotRows(i)
                      /\ C!Published(i) = T!Published(i)
  /\ C!StoreOf = T!StoreOf /\ C!CellsBefore = T!CellsBefore /\ (C!Undecided <=> T!Undecided)
  /\ C!Touched = T!Touched

LEMMA SameCells == SameCellsFact
BY DEF SameCellsFact, C!CellBefore, T!CellBefore, C!Rows, T!Rows, C!SlotRows, T!SlotRows,
       C!UndoRow, T!UndoRow, C!Published, T!Published, C!StagedRows, T!StagedRows,
       C!StoreOf, T!StoreOf, C!CellsBefore, T!CellsBefore, C!Undecided, T!Undecided,
       C!Touched, T!Touched

LEMMA SameCellsNext == SameCellsFact'
BY SameCells, PTL

LEMMA SameInit == C!Init => T!Init
BY DEF C!Init, T!Init

LEMMA SameType == T!TypeOK => C!TypeOK
BY DEF C!TypeOK, T!TypeOK, C!Time, T!Time, C!Phases, T!Phases, C!Modes, T!Modes,
       C!Write, T!Write, C!Row, T!Row

LEMMA SameBegin == \A m \in C!Modes : m \in T!Modes /\ (C!Begin(m) <=> T!Begin(m))
BY DEF C!Modes, T!Modes, C!Begin, T!Begin, C!cells, T!cells, C!sentinels, T!sentinels,
       C!arrays, T!arrays

LEMMA SameTxSet == \A i \in Input, v \in Value : C!TxSet(i, v) <=> T!TxSet(i, v)
BY DEF C!TxSet, T!TxSet, C!FastWrite, T!FastWrite, C!Restage, T!Restage, C!Stage, T!Stage,
       C!FirstDirectWrite, T!FirstDirectWrite, C!UndoRow, T!UndoRow, C!NewRow, T!NewRow,
       C!cells, T!cells, C!sentinels, T!sentinels, C!frame, T!frame, C!arrays, T!arrays

LEMMA SameEarly ==
  /\ C!RunThrows <=> T!RunThrows
  /\ C!RunReturns <=> T!RunReturns
  /\ C!CheckInvariants <=> T!CheckInvariants
  /\ C!PublishScalar <=> T!PublishScalar
  /\ C!PublishRows <=> T!PublishRows
<1> USE DEF C!cells, T!cells, C!sentinels, T!sentinels, C!frame, T!frame, C!arrays, T!arrays,
            C!UndoRow, T!UndoRow
<1>1. C!RunThrows <=> T!RunThrows
  BY DEF C!RunThrows, T!RunThrows
<1>2. C!RunReturns <=> T!RunReturns
  BY SameCells DEF SameCellsFact, C!RunReturns, T!RunReturns, C!Reverted, T!Reverted, C!StampsAfterRevert, T!StampsAfterRevert
<1>3. C!CheckInvariants <=> T!CheckInvariants
  BY DEF C!CheckInvariants, T!CheckInvariants, C!InvariantsHold, T!InvariantsHold,
         C!DirectWritesHold, T!DirectWritesHold
<1>4. C!PublishScalar <=> T!PublishScalar
  BY DEF C!PublishScalar, T!PublishScalar, C!OneStagedRow, T!OneStagedRow,
         C!ScalarSlot, T!ScalarSlot
<1>5. C!PublishRows <=> T!PublishRows
  BY SameCells DEF SameCellsFact, C!PublishRows, T!PublishRows, C!OneStagedRow, T!OneStagedRow
<1> QED
  BY <1>1, <1>2, <1>3, <1>4, <1>5

LEMMA SameLate ==
  /\ C!Tick <=> T!Tick
  /\ C!RecomputeReturns <=> T!RecomputeReturns
  /\ C!RecomputeThrows <=> T!RecomputeThrows
  /\ C!Seal <=> T!Seal
  /\ C!SealEmpty <=> T!SealEmpty
  /\ C!MetadataThrows <=> T!MetadataThrows
  /\ C!Finish <=> T!Finish
  /\ C!Rollback <=> T!Rollback
  /\ C!SimulateReturns <=> T!SimulateReturns
<1> USE DEF C!cells, T!cells, C!sentinels, T!sentinels, C!frame, T!frame, C!arrays, T!arrays,
            C!CloseFrame, T!CloseFrame, C!ClearArrays, T!ClearArrays
<1>1. C!Tick <=> T!Tick
  BY SameCells DEF SameCellsFact, C!Tick, T!Tick
<1>2. /\ C!RecomputeReturns <=> T!RecomputeReturns
      /\ C!RecomputeThrows <=> T!RecomputeThrows
      /\ C!MetadataThrows <=> T!MetadataThrows
  BY DEF C!RecomputeReturns, T!RecomputeReturns, C!RecomputeThrows, T!RecomputeThrows,
         C!MetadataThrows, T!MetadataThrows
<1>3. C!Seal <=> T!Seal
  BY DEF C!Seal, T!Seal
<1>4. C!SealEmpty <=> T!SealEmpty
  BY DEF C!SealEmpty, T!SealEmpty
<1>5. C!Finish <=> T!Finish
  BY DEF C!Finish, T!Finish
<1>6. C!Restore <=> T!Restore
  BY SameCells DEF SameCellsFact, C!Restore, T!Restore, C!StagingForgot, T!StagingForgot,
                   C!StagedRows, T!StagedRows
<1>7. C!Rollback <=> T!Rollback
  BY <1>6 DEF C!Rollback, T!Rollback
<1>8. C!SimulateReturns <=> T!SimulateReturns
  BY <1>6 DEF C!SimulateReturns, T!SimulateReturns
<1> QED
  BY <1>1, <1>2, <1>3, <1>4, <1>5, <1>7, <1>8

-----------------------------------------------------------------------------
(* Where the two sides are.                                                *)

\* Phase D has a pass exactly where the transaction recomputes for changed inputs,
\* and observers hear of nothing that is not sealed.
Link ==
  /\ stage \in {"quiet", "dispatch", "hung"}
  /\ stage = "dispatch" => at = "dispatch"
  /\ stage = "hung" => phase = "failed"
  /\ phase = "walk" => at \in {"recompute", "seal"}
  /\ phase = "failed" => at = "failed" \/ (at = "seal" /\ entry = "simulate")
  /\ phase # "idle" => changedInputs # {}
  /\ phase = "idle" /\ at \in {"recompute", "seal"} => changedInputs = {}

\* The inductive invariant of whole commits.
WholeInv == T!IInv /\ IInv /\ Link /\ LayersAgree

\* The derived side moves by a step of its own or not at all.
LEMMA StepOfObservers ==
  ASSUME T!IInv, Link, CommitNext
  PROVE  SubNext \/ UNCHANGED allVars
<1>1. cell \in [Input -> Value] /\ KindOf(entry) \in {"commit", "simulate"}
  BY DEF T!IInv, T!TypeOK, KindOf
<1>2. CASE (\E m \in C!Modes : Enter(m)) \/ BeforePhaseD \/ EndPhaseD \/ SealNothing \/ FinishFrame
  BY <1>2 DEF Enter, BeforePhaseD, EndPhaseD, SealNothing, FinishFrame
<1>3. CASE StartPhaseD
  BY <1>1, <1>3 DEF StartPhaseD, SubNext
<1>4. CASE (\E d \in Derived : WalkOn(d) \/ WalkThrows(d)) \/ UnwindNode
  BY <1>4 DEF WalkOn, WalkThrows, UnwindNode, FrameStep, SubNext
<1>5. ASSUME LeaveWalk PROVE SubNext
  <2>1. stage # "hung"
    BY <1>5 DEF LeaveWalk, LeaveUnpublished, Link
  <2> QED
    BY <1>5, <2>1 DEF LeaveWalk, FrameStep, SubNext
<1>6. CASE SealFrame \/ MetadataFails \/ SimulationDone \/ UnwindFrame
  BY <1>5, <1>6 DEF SealFrame, MetadataFails, SimulationDone, UnwindFrame, FrameStep, SubNext
<1>7. CASE Dispatch \/ WatchOrNot
  BY <1>7 DEF Dispatch, WatchOrNot, FrameStep, SubNext
<1>8. CASE \E d \in Derived : DisposeDerived(d) \/ \E p \in Program : AddDerived(d, p)
  BY <1>8 DEF DisposeDerived, AddDerived, SubNext, Register, Node
<1> QED
  BY <1>2, <1>3, <1>4, <1>6, <1>7, <1>8 DEF CommitNext

\* A step of the derived side outside the frame of the inputs moves at most which
\* inputs have dependents, and as CommitTx has it.
LEMMA AddIsKnown ==
  ASSUME IInv, Link, NEW d \in Derived, NEW p \in Program, AddDerived(d, p)
  PROVE  T!Next \/ UNCHANGED T!vars
<1> DEFINE S == {i \in Input : hasDependents'[i] /\ ~hasDependents[i]}
<1>1. /\ UNCHANGED inputSide /\ phase = "idle" /\ at \in {"idle", "dispatch"}
      /\ d \notin entries /\ SetDeps(d, Reads(p, val))
  BY DEF AddDerived, CallerRuns, OutsideFrames, RegisterDerived, Link
<1>2. deps[d] = {}
  BY <1>1 DEF IInv, EdgesMirror
<1>3. /\ hasDependents \in [Input -> BOOLEAN]
      /\ hasDependents' = [i \in Input |-> IF i \in Reads(p, val) /\ dependents[i] = {}
                                           THEN TRUE ELSE hasDependents[i]]
  BY <1>1, <1>2 DEF SetDeps, IInv, TypeOK
<1>4. hasDependents' = [i \in Input |-> hasDependents[i] \/ i \in S]
  BY <1>3
<1>5. CASE S = {}
  <2>1. hasDependents' = hasDependents
    BY <1>3, <1>5
  <2> QED
    BY <1>1, <2>1 DEF inputSide, T!vars, T!cells, T!sentinels, T!frame, T!arrays
<1>6. CASE S # {}
  <2>1. T!RegisterDependent(S)
    BY <1>1, <1>4, <1>6 DEF inputSide, T!RegisterDependent, T!cells, T!sentinels, T!frame, T!arrays
  <2> QED
    BY <2>1 DEF T!Next
<1> QED
  BY <1>5, <1>6

LEMMA DisposalIsKnown ==
  ASSUME IInv, NEW d \in Derived, DisposeDerived(d)
  PROVE  T!Next \/ UNCHANGED T!vars
<1> DEFINE S == {i \in Input : hasDependents[i] /\ ~hasDependents'[i]}
<1>1. UNCHANGED inputSide /\ at = "idle" /\ SetDeps(d, {})
  BY DEF DisposeDerived, DisposeNode, Dispose
<1>2. /\ hasDependents \in [Input -> BOOLEAN]
      /\ hasDependents' \in [Input -> BOOLEAN]
      /\ \A i \in Input : hasDependents'[i] => hasDependents[i]
  BY <1>1 DEF SetDeps, IInv, TypeOK
<1>3. hasDependents' = [i \in Input |-> hasDependents[i] /\ i \notin S]
  BY <1>2
<1>4. CASE S = {}
  <2>1. hasDependents' = hasDependents
    BY <1>2, <1>4
  <2> QED
    BY <1>1, <2>1 DEF inputSide, T!vars, T!cells, T!sentinels, T!frame, T!arrays
<1>5. CASE S # {}
  <2>1. T!DropDependents(S)
    BY <1>1, <1>3, <1>5 DEF inputSide, T!DropDependents, T!cells, T!sentinels, T!frame, T!arrays
  <2> QED
    BY <2>1 DEF T!Next
<1> QED
  BY <1>4, <1>5

\* And so does the input side, of which a step of Phase D can be a Rewire.
LEMMA StepOfInputs ==
  ASSUME IInv, IInv', Link, CommitNext
  PROVE  T!Next \/ UNCHANGED T!vars
<1>1. CASE \E m \in C!Modes : Enter(m)
  BY <1>1, SameBegin DEF Enter, T!Next
<1>2. CASE BeforePhaseD
  BY <1>2, SameTxSet, SameEarly DEF BeforePhaseD, T!Next, T!Pipeline
<1>3. CASE \/ StartPhaseD \/ EndPhaseD \/ SealFrame \/ SealNothing \/ MetadataFails
           \/ UnwindFrame \/ FinishFrame \/ \E d \in Derived : WalkThrows(d)
  BY <1>3, SameLate DEF StartPhaseD, EndPhaseD, SealFrame, SealNothing, MetadataFails,
     UnwindFrame, FinishFrame, WalkThrows, T!Next, T!Pipeline
<1>4. CASE (\E d \in Derived : WalkOn(d)) \/ UnwindNode
  <2>1. /\ UNCHANGED inputSide /\ phase # "idle"
        /\ at \in {"recompute", "failed"} \/ (at = "seal" /\ entry = "simulate")
    BY <1>4 DEF WalkOn, WalkNode, Skip, Compute, ComputeThrows, CycleThrows, UnwindNode,
                RestoreInputs, RestoreNode, RestoreDerived, Spin, Link
  <2>2. T!Rewire
    BY <2>1 DEF T!Rewire, Link, IInv, TypeOK, inputSide, T!cells, T!sentinels, T!frame, T!arrays
  <2> QED
    BY <2>2 DEF T!Next
<1>5. CASE Dispatch \/ WatchOrNot \/ SimulationDone
  <2>1. UNCHANGED inputSide /\ hasDependents' = hasDependents
    BY <1>5 DEF Dispatch, Deliver, EndDispatch, WatchOrNot, Subscribe, Unsubscribe,
                SimulationDone, LeaveWalk, LeaveUnpublished, vars, graph
  <2> QED
    BY <2>1 DEF inputSide, T!vars, T!cells, T!sentinels, T!frame, T!arrays
<1> QED
  BY <1>1, <1>2, <1>3, <1>4, <1>5, AddIsKnown, DisposalIsKnown DEF CommitNext

-----------------------------------------------------------------------------
(* All or nothing.                                                         *)

\* Outside Phase D and its unwinding the derived side moves between frames only.
LEMMA StillBefore ==
  ASSUME Link, CommitNext, C!Undecided \/ C!Undecided', phase = "idle", phase' = "idle"
  PROVE  Before' = Before
<1>1. CASE UNCHANGED allVars
  BY <1>1 DEF allVars, vars, graph, Before
<1>2. CASE StartPhaseD
  BY <1>2 DEF StartPhaseD, BeginFrame, SubscribeInBody, Begin, allVars, vars, graph, Before
<1>3. CASE \/ Dispatch \/ WatchOrNot
           \/ \E d \in Derived : DisposeDerived(d) \/ \E p \in Program : AddDerived(d, p)
  <2>1. at \in {"idle", "dispatch"} /\ at' = at
    BY <1>3 DEF Dispatch, Deliver, EndDispatch, WatchOrNot, OutsideFrames, DisposeDerived,
                AddDerived, inputSide, Link
  <2> QED
    BY <2>1 DEF C!Undecided
<1>4. CASE \/ (\E d \in Derived : WalkOn(d) \/ WalkThrows(d)) \/ UnwindNode \/ SimulationDone
  BY <1>4 DEF WalkOn, WalkThrows, WalkNode, Skip, Compute, ComputeThrows, CycleThrows,
              UnwindNode, RestoreInputs, RestoreNode, RestoreDerived, Spin, SimulationDone,
              LeaveWalk, LeaveUnpublished
<1> QED
  BY <1>1, <1>2, <1>3, <1>4 DEF CommitNext, Enter, BeforePhaseD, EndPhaseD, SealFrame,
     SealNothing, MetadataFails, UnwindFrame, FinishFrame

\* The derived side publishes with the seal only.
LEMMA OnlyTheSealPublishes ==
  ASSUME Link, CommitNext, Publish
  PROVE  C!Seal
<1>1. phase = "walk" /\ phase' = "idle"
  BY DEF Publish, EndPass
<1>2. at \in {"recompute", "seal"}
  BY <1>1 DEF Link
<1>3. CASE UNCHANGED allVars
  BY <1>1, <1>3 DEF allVars, vars
<1>4. CASE (\E d \in Derived : WalkOn(d) \/ WalkThrows(d)) \/ SimulationDone \/ UnwindNode
  BY <1>1, <1>4 DEF WalkOn, WalkThrows, SimulationDone, LeaveWalk, LeaveUnpublished,
     UnwindNode, RestoreInputs, RestoreNode, RestoreDerived, Spin
<1>5. CASE \/ StartPhaseD \/ Dispatch \/ WatchOrNot
           \/ \E d \in Derived : DisposeDerived(d) \/ \E p \in Program : AddDerived(d, p)
  BY <1>1, <1>2, <1>5 DEF StartPhaseD, C!Tick, Dispatch, Deliver, EndDispatch, WatchOrNot,
     OutsideFrames, DisposeDerived, AddDerived, CallerRuns, Link
<1>6. CASE MetadataFails \/ UnwindFrame
  BY <1>1, <1>6 DEF MetadataFails, LeaveWalk, LeaveUnpublished, UnwindFrame, TakenBack, Abort,
     allVars, vars
<1> QED
  BY <1>3, <1>4, <1>5, <1>6 DEF CommitNext, Enter, BeforePhaseD, EndPhaseD, SealFrame,
     SealNothing, FinishFrame

\* Nothing else than the seal moves what the derived side would be unwound to.
LEMMA BeforeStays ==
  ASSUME IInv, T!IInv, Link, CommitNext, C!Undecided \/ C!Undecided', ~C!Seal
  PROVE  Before' = Before
<1>1. CASE phase = "idle" /\ phase' = "idle"
  BY <1>1, StillBefore
<1>2. CASE InFrame \/ InFrame'
  <2>1. [Next]_vars
    BY StepOfObservers, StepOfGraph
  <2>2. CASE UNCHANGED vars
    BY <2>2 DEF vars, graph, Before
  <2>3. CASE Next
    BY <1>2, <2>3, BeforeKept, OnlyTheSealPublishes
  <2> QED
    BY <2>1, <2>2, <2>3
<1> QED
  BY <1>1, <1>2 DEF InFrame

ClockBefore == IF C!Undecided THEN beforeNow ELSE now

\* And nothing else moves what the whole frame would be unwound to.
LEMMA WholeStays ==
  ASSUME WholeInv, T!IInv', IInv', CommitNext,
         C!Undecided \/ C!Undecided', ~C!Seal, ~C!SealEmpty
  PROVE  /\ Before' = Before
         /\ C!CellsBefore' = C!CellsBefore
         /\ ClockBefore' = ClockBefore /\ record' = record
<1>1. Before' = Before
  BY BeforeStays DEF WholeInv
<1>2. T!Next \/ UNCHANGED T!vars
  BY StepOfInputs DEF WholeInv
<1>3. /\ (C!Undecided <=> T!Undecided) /\ (C!Undecided' <=> T!Undecided')
      /\ C!CellsBefore = T!CellsBefore /\ C!CellsBefore' = T!CellsBefore'
  BY SameCells, SameCellsNext DEF SameCellsFact
<1>4. ~T!Seal /\ ~T!SealEmpty
  BY SameLate
<1>5. T!CellsBefore' = T!CellsBefore /\ T!ClockOf' = T!ClockOf /\ record' = record
  <2>1. CASE T!Next
    <3>1. ~(at = "idle" /\ at' = "idle")
      BY DEF C!Undecided
    <3>2. T!CellsBefore' = T!CellsBefore
      BY <1>4, <2>1, <3>1, T!CellsStep, PipelineAssumption DEF WholeInv
    <3>3. T!ClockOf' = T!ClockOf /\ record' = record
      BY <1>3, <1>4, <2>1, T!ClockKept, PipelineAssumption
    <3> QED
      BY <3>2, <3>3
  <2>2. CASE UNCHANGED T!vars
    BY <2>2 DEF T!vars, T!cells, T!frame, T!arrays, T!sentinels, T!CellsBefore, T!ClockOf, T!Undecided,
                T!CellBefore, T!Rows, T!SlotRows, T!UndoRow
  <2> QED
    BY <1>2, <2>1, <2>2
<1>6. ClockBefore = T!ClockOf /\ ClockBefore' = T!ClockOf'
  BY <1>3 DEF ClockBefore, T!ClockOf
<1> QED
  BY <1>1, <1>3, <1>5, <1>6

-----------------------------------------------------------------------------
(* The two sides agree.                                                    *)

\* What Phase D starts from is what has moved.
LEMMA StartAgrees ==
  ASSUME WholeInv, StartPhaseD, changedInputs # {}
  PROVE  /\ phase' = "walk" /\ seed' = changedInputs /\ at' = "recompute"
         /\ UNCHANGED <<cell, changedInputs, stage>>
         /\ \A i \in Input : val'[i] = cell[i]
<1>1. /\ at = "tick" /\ at' = "recompute" /\ UNCHANGED <<cell, changedInputs>>
  BY DEF StartPhaseD, C!Tick, C!arrays
<1>2. PICK m \in {"commit", "simulate"} : Begin(m, cell) /\ stage' = stage
  BY DEF StartPhaseD, BeginFrame, SubscribeInBody, KindOf, subVars
<1>3. phase = "idle" /\ phase' = "walk"
  BY <1>2 DEF Begin
<1>4. \A i \in Input : ValBefore(i) = val[i]
  BY <1>3 DEF WholeInv, IInv, FrameOK, ValBefore
<1>5. \A i \in Input : T!StoreOf[i] = val[i]
  BY <1>4, BeforeParts, SameCells DEF WholeInv, LayersAgree, BeforeSplit, SameCellsFact
<1>6. changedInputs = {i \in Input : cell[i] # T!StoreOf[i]}
  BY <1>1, T!ChangedIsMoved, PipelineAssumption DEF WholeInv, T!Decided
<1>7. seed' = {i \in Input : cell[i] # val[i]}
  BY <1>2 DEF Begin
<1>8. seed' = changedInputs
  BY <1>5, <1>6, <1>7
<1>9. \A i \in Input : val'[i] = IF i \in seed' THEN cell[i] ELSE val[i]
  BY <1>2, <1>7, NodeKinds DEF Begin
<1> QED
  BY <1>1, <1>2, <1>3, <1>7, <1>8, <1>9

LEMMA LinkKept ==
  ASSUME WholeInv, CommitNext
  PROVE  Link'
<1>0. phase \in {"idle", "walk", "failed"}
  BY DEF WholeInv, IInv, TypeOK
<1>1. CASE \E m \in C!Modes : Enter(m)
  BY <1>0, <1>1 DEF Enter, C!Begin, C!arrays, WholeInv, Link, allVars, vars, subVars
<1>2. CASE BeforePhaseD
  BY <1>0, <1>2 DEF BeforePhaseD, C!TxSet, C!FastWrite, C!Restage, C!Stage, C!RunThrows, C!RunReturns,
     C!CheckInvariants, C!PublishScalar, C!PublishRows, WholeInv, Link, allVars, vars, subVars,
     C!arrays
<1>3. CASE StartPhaseD
  <2>1. CASE changedInputs = {}
    BY <1>3, <2>1 DEF StartPhaseD, C!Tick, C!arrays, WholeInv, Link, allVars, vars, subVars
  <2>2. CASE changedInputs # {}
    BY <1>3, <2>2, StartAgrees DEF WholeInv, Link, StartPhaseD, C!Tick
  <2> QED
    BY <2>1, <2>2
<1>4. ASSUME NEW d \in Derived, WalkOn(d) PROVE Link'
  BY <1>4 DEF WalkOn, WalkNode, Skip, Compute, ComputeThrows, CycleThrows, WholeInv, Link, inputSide
<1>5. ASSUME NEW d \in Derived, WalkThrows(d) PROVE Link'
  <2>1. phase' = "failed" /\ stage' = stage
    BY <1>5 DEF WalkThrows, WalkNode
  <2>2. at = "recompute" /\ at' = "failed" /\ changedInputs # {} /\ changedInputs' = changedInputs
    BY <1>5 DEF WalkThrows, C!RecomputeThrows, C!arrays
  <2> QED
    BY <2>1, <2>2 DEF WholeInv, Link
<1>6. CASE EndPhaseD \/ SealNothing \/ FinishFrame
  <2>1. UNCHANGED <<phase, stage>>
    BY <1>6 DEF EndPhaseD, SealNothing, FinishFrame, allVars, vars, subVars
  <2>2. CASE EndPhaseD
    <3>1. at = "recompute" /\ at' = "seal" /\ changedInputs' = changedInputs
      BY <2>2 DEF EndPhaseD, C!RecomputeReturns, C!arrays
    <3> QED
      BY <2>1, <3>1 DEF WholeInv, Link
  <2>3. CASE SealNothing
    <3>1. at = "seal" /\ at' = "idle" /\ changedInputs = {} /\ entry # "simulate"
      BY <2>3 DEF SealNothing, C!SealEmpty, C!CloseFrame
    <3> QED
      BY <1>0, <2>1, <3>1 DEF WholeInv, Link
  <2>4. CASE FinishFrame
    <3>1. at = "dispatch" /\ at' = "idle" /\ stage = "quiet"
      BY <2>4 DEF FinishFrame, C!Finish, C!CloseFrame
    <3> QED
      BY <1>0, <2>1, <3>1 DEF WholeInv, Link
  <2> QED
    BY <1>6, <2>2, <2>3, <2>4
<1>7. CASE SealFrame
  BY <1>7 DEF SealFrame, C!Seal, C!frame, C!arrays, PublishFrame, Publish, EndPass, WholeInv, Link,
     allVars, vars, subVars
<1>8. CASE MetadataFails \/ SimulationDone
  BY <1>8 DEF MetadataFails, C!MetadataThrows, C!frame, C!arrays, SimulationDone, LeaveWalk,
     LeaveUnpublished, WholeInv, Link, allVars, vars, subVars, inputSide
<1>9. CASE UnwindNode
  BY <1>9 DEF UnwindNode, RestoreInputs, RestoreNode, RestoreDerived, Spin, WholeInv, Link,
     vars, subVars, inputSide
<1>10. CASE UnwindFrame
  BY <1>10 DEF UnwindFrame, C!Rollback, C!SimulateReturns, C!Restore, C!CloseFrame, TakenBack,
     Abort, EndPass, WholeInv, Link, allVars, vars, subVars
<1>11. CASE Dispatch
  BY <1>11 DEF Dispatch, Deliver, EndDispatch, WholeInv, Link, vars, inputSide
<1>12. CASE WatchOrNot
  BY <1>12 DEF WatchOrNot, Subscribe, Unsubscribe, WholeInv, Link, vars, inputSide
<1>13. ASSUME NEW d \in Derived, DisposeDerived(d) PROVE Link'
  BY <1>13 DEF DisposeDerived, DisposeNode, Dispose, WholeInv, Link, inputSide
<1>14. ASSUME NEW d \in Derived, NEW p \in Program, AddDerived(d, p) PROVE Link'
  BY <1>14 DEF AddDerived, RegisterDerived, WholeInv, Link, subVars, inputSide
<1> QED
  BY <1>1, <1>2, <1>3, <1>4, <1>5, <1>6, <1>7, <1>8, <1>9, <1>10, <1>11, <1>12, <1>13, <1>14
     DEF CommitNext

\* LayersAgree in the words of the two sides.
Layers ==
  /\ \A i \in Input : ValBefore(i) = T!StoreOf[i]
  /\ phase = "walk" => seed = changedInputs /\ \A i \in Input : val[i] = cell[i]

LEMMA LayersAre == LayersAgree <=> Layers
BY BeforeParts, SameCells DEF LayersAgree, Layers, BeforeSplit, SameCellsFact

LEMMA LayersAreNext == LayersAgree' <=> Layers'
BY LayersAre, PTL

\* A walk goes on over the inputs it started from.
LEMMA WalkAgrees ==
  ASSUME WholeInv, IInv', CommitNext, phase' = "walk"
  PROVE  seed' = changedInputs' /\ \A i \in Input : val'[i] = cell'[i]
<1>1. phase = "walk" => seed = changedInputs /\ \A i \in Input : val[i] = cell[i]
  BY DEF WholeInv, LayersAgree
<1>2. phase = "walk" => at \in {"recompute", "seal"}
  BY DEF WholeInv, Link
<1>3. CASE StartPhaseD
  <2>1. CASE changedInputs = {}
    BY <1>2, <1>3, <2>1 DEF StartPhaseD, C!Tick, allVars, vars
  <2>2. CASE changedInputs # {}
    BY <1>3, <2>2, StartAgrees
  <2> QED
    BY <2>1, <2>2
<1>4. ASSUME NEW d \in Derived, WalkOn(d)
      PROVE  seed' = changedInputs' /\ \A i \in Input : val'[i] = cell'[i]
  <2>1. /\ phase = "walk" /\ seed' = seed
        /\ \A i \in Input : val'[i] = val[i]
    <3>1. \A i \in Input : i # d
      BY NodesAssumption
    <3>2. val \in Valuation
      BY DEF WholeInv, IInv, TypeOK
    <3> QED
      BY <1>4, <3>1, <3>2, NodeKinds DEF WalkOn, WalkNode, Skip, Compute, Store, ComputeThrows,
         CycleThrows, Valuation
  <2> QED
    BY <1>1, <1>4, <2>1 DEF WalkOn, inputSide
<1>5. CASE EndPhaseD
  BY <1>1, <1>5 DEF EndPhaseD, C!RecomputeReturns, C!cells, C!arrays, allVars, vars, pass
<1>6. CASE \/ (\E m \in C!Modes : Enter(m)) \/ BeforePhaseD \/ FinishFrame \/ SealNothing
  <2>1. phase = "walk"
    BY <1>6 DEF Enter, BeforePhaseD, FinishFrame, SealNothing, allVars, vars
  <2>2. changedInputs # {}
    BY <2>1 DEF WholeInv, Link
  <2> QED
    BY <1>2, <1>6, <2>1, <2>2 DEF Enter, C!Begin, BeforePhaseD, C!TxSet, C!FastWrite, C!Restage,
       C!Stage, C!RunThrows, C!RunReturns, C!CheckInvariants, C!PublishScalar, C!PublishRows,
       FinishFrame, C!Finish, SealNothing, C!SealEmpty
<1>7. CASE \/ SealFrame \/ MetadataFails \/ SimulationDone \/ UnwindNode \/ UnwindFrame
           \/ \E d \in Derived : WalkThrows(d)
  BY <1>7 DEF SealFrame, PublishFrame, Publish, EndPass, MetadataFails, LeaveWalk,
     LeaveUnpublished, SimulationDone, UnwindNode, RestoreInputs, RestoreNode, RestoreDerived,
     Spin, UnwindFrame, TakenBack, Abort, WalkThrows, allVars, vars
<1>8. CASE \/ Dispatch \/ WatchOrNot
           \/ \E d \in Derived : DisposeDerived(d) \/ \E p \in Program : AddDerived(d, p)
  <2>1. at \in {"idle", "dispatch"} /\ phase' = phase
    BY <1>8 DEF Dispatch, Deliver, EndDispatch, WatchOrNot, OutsideFrames, Subscribe,
       Unsubscribe, DisposeDerived, DisposeNode, Dispose, AddDerived, RegisterDerived,
       WholeInv, Link, vars
  <2> QED
    BY <1>2, <2>1
<1> QED
  BY <1>3, <1>4, <1>5, <1>6, <1>7, <1>8 DEF CommitNext

\* What seals is one of the two steps that end a frame well.
LEMMA SealSteps ==
  ASSUME CommitNext, C!Seal \/ C!SealEmpty
  PROVE  SealFrame \/ SealNothing
<1>1. at = "seal" /\ at' \in {"dispatch", "idle"} /\ entry # "simulate"
  BY DEF C!Seal, C!SealEmpty, C!CloseFrame
<1>2. ~UNCHANGED inputSide
  BY <1>1 DEF inputSide
<1>3. ~((\E m \in C!Modes : Enter(m)) \/ BeforePhaseD \/ StartPhaseD)
  BY <1>1 DEF Enter, C!Begin, BeforePhaseD, C!TxSet, C!FastWrite, C!Restage, C!Stage,
     C!RunThrows, C!RunReturns, C!CheckInvariants, C!PublishScalar, C!PublishRows, StartPhaseD,
     C!Tick
<1>4. ~((\E d \in Derived : WalkOn(d) \/ WalkThrows(d)) \/ EndPhaseD \/ MetadataFails)
  BY <1>1 DEF WalkOn, WalkThrows, C!RecomputeThrows, EndPhaseD, C!RecomputeReturns,
     MetadataFails, C!MetadataThrows
<1>5. ~(SimulationDone \/ UnwindNode \/ UnwindFrame)
  BY <1>1, <1>2 DEF SimulationDone, UnwindNode, UnwindFrame, C!Rollback, C!SimulateReturns
<1>6. ~(Dispatch \/ FinishFrame \/ WatchOrNot
        \/ \E d \in Derived : DisposeDerived(d) \/ \E p \in Program : AddDerived(d, p))
  BY <1>1, <1>2 DEF Dispatch, FinishFrame, C!Finish, WatchOrNot, DisposeDerived, AddDerived
<1> QED
  BY <1>3, <1>4, <1>5, <1>6 DEF CommitNext

\* Between frames the derived side has the cells; the seal gives it them.
LEMMA SealAgrees ==
  ASSUME WholeInv, IInv', CommitNext, C!Seal \/ C!SealEmpty
  PROVE  \A i \in Input : ValBefore(i)' = T!StoreOf'[i]
<1>1. /\ at = "seal" /\ cell' = cell /\ at' \in {"dispatch", "idle"} /\ phase # "failed"
  BY DEF C!Seal, C!SealEmpty, C!CloseFrame, C!cells, WholeInv, Link
<1>2. cell \in [Input -> Value]
  BY DEF WholeInv, T!IInv, T!TypeOK
<1>3. \A i \in Input : T!StoreOf'[i] = cell[i]
  BY <1>1, <1>2 DEF T!StoreOf, T!Undecided
<1>4. CASE phase = "walk"
  <2>1. PublishFrame
    BY <1>4, SealSteps DEF SealFrame, SealNothing, C!SealEmpty, WholeInv, Link
  <2> QED
    BY <1>3, <1>4, <2>1 DEF PublishFrame, Publish, ValBefore, WholeInv, LayersAgree
<1>5. CASE phase = "idle"
  <2>1. changedInputs = {}
    BY <1>1, <1>5 DEF WholeInv, Link
  <2>2. UNCHANGED <<val, undo>>
    BY <1>5, SealSteps DEF SealFrame, SealNothing, allVars, vars
  <2>3. \A i \in Input : cell[i] = T!StoreOf[i]
    BY <1>1, <2>1, T!ChangedIsMoved, PipelineAssumption DEF WholeInv, T!Decided
  <2> QED
    BY <1>3, <2>2, <2>3, LayersAre DEF WholeInv, Layers, ValBefore
<1> QED
  BY <1>1, <1>4, <1>5 DEF WholeInv, IInv, TypeOK

\* Between frames neither has its inputs moved.
LEMMA RestAgrees ==
  ASSUME WholeInv, T!IInv', CommitNext, ~C!Undecided, ~C!Undecided'
  PROVE  \A i \in Input : ValBefore(i)' = T!StoreOf'[i]
<1>1. at \in {"idle", "dispatch"} /\ at' \in {"idle", "dispatch"}
  BY DEF C!Undecided
<1>2. phase = "idle"
  BY <1>1 DEF WholeInv, Link, IInv, TypeOK
<1>3. CASE UNCHANGED inputSide
  <2>1. \A i \in Input : ValBefore(i) = val[i]
    BY <1>2 DEF WholeInv, IInv, FrameOK, ValBefore
  <2>2. undo' = undo /\ \A i \in Input : val'[i] = val[i]
    <3>1. val \in [Node -> Value]
      BY DEF WholeInv, IInv, TypeOK, Valuation
    <3>2. CASE Dispatch \/ WatchOrNot
      BY <3>2 DEF Dispatch, Deliver, EndDispatch, WatchOrNot, Subscribe, Unsubscribe, vars
    <3>3. ASSUME NEW d \in Derived, DisposeDerived(d)
          PROVE  undo' = undo /\ \A i \in Input : val'[i] = val[i]
      BY <3>3 DEF DisposeDerived, DisposeNode, Dispose
    <3>4. ASSUME NEW d \in Derived, NEW p \in Program, AddDerived(d, p)
          PROVE  undo' = undo /\ \A i \in Input : val'[i] = val[i]
      BY <3>1, <3>4, NodeKinds, NodesAssumption DEF AddDerived, RegisterDerived
    <3>5. ~((\E d \in Derived : WalkOn(d)) \/ SimulationDone \/ UnwindNode)
      BY <1>1, <1>2 DEF WalkOn, SimulationDone, UnwindNode, RestoreInputs, RestoreNode,
         RestoreDerived, Spin
    <3>6. ~((\E m \in C!Modes : Enter(m)) \/ BeforePhaseD \/ StartPhaseD \/ FinishFrame)
      BY <1>1, <1>3 DEF Enter, C!Begin, BeforePhaseD, C!TxSet, C!FastWrite, C!Restage, C!Stage,
         C!RunThrows, C!RunReturns, C!CheckInvariants, C!PublishScalar, C!PublishRows,
         StartPhaseD, C!Tick, FinishFrame, C!Finish, C!CloseFrame, inputSide
    <3>7. ~((\E d \in Derived : WalkThrows(d)) \/ EndPhaseD \/ SealFrame \/ SealNothing
            \/ MetadataFails \/ UnwindFrame)
      BY <1>1 DEF WalkThrows, C!RecomputeThrows, EndPhaseD, C!RecomputeReturns, SealFrame, C!Seal,
         SealNothing, C!SealEmpty, MetadataFails, C!MetadataThrows, UnwindFrame, C!Rollback,
         C!SimulateReturns
    <3> QED
      BY <3>2, <3>3, <3>4, <3>5, <3>6, <3>7 DEF CommitNext
  <2>3. T!StoreOf' = T!StoreOf
    BY <1>1, <1>3 DEF inputSide, T!StoreOf, T!Undecided
  <2> QED
    BY <2>1, <2>2, <2>3, LayersAre DEF WholeInv, Layers, ValBefore
<1>4. CASE FinishFrame
  <2>1. UNCHANGED <<val, undo, cell>>
    BY <1>4 DEF FinishFrame, C!Finish, C!cells, allVars, vars
  <2>2. T!StoreOf' = T!StoreOf
    BY <1>1, <2>1 DEF T!StoreOf, T!Undecided
  <2> QED
    BY <2>1, <2>2, LayersAre DEF WholeInv, Layers, ValBefore
<1>5. CASE ~UNCHANGED inputSide /\ ~FinishFrame
  BY <1>1, <1>5 DEF CommitNext, Enter, C!Begin, BeforePhaseD, C!TxSet, C!FastWrite, C!Restage,
     C!Stage, C!RunThrows, C!RunReturns, C!CheckInvariants, C!PublishScalar, C!PublishRows,
     StartPhaseD, C!Tick, WalkOn, WalkThrows, C!RecomputeThrows, EndPhaseD, C!RecomputeReturns,
     SealFrame, C!Seal, SealNothing, C!SealEmpty, MetadataFails, C!MetadataThrows, SimulationDone,
     UnwindNode, UnwindFrame, C!Rollback, C!SimulateReturns, Dispatch, WatchOrNot,
     DisposeDerived, AddDerived
<1> QED
  BY <1>3, <1>4, <1>5

LEMMA LayersKept ==
  ASSUME WholeInv, T!IInv', IInv', CommitNext
  PROVE  LayersAgree'
<1>1. \A i \in Input : ValBefore(i)' = T!StoreOf'[i]
  <2>1. CASE C!Seal \/ C!SealEmpty
    BY <2>1, SealAgrees
  <2>2. CASE ~C!Undecided /\ ~C!Undecided'
    BY <2>2, RestAgrees
  <2>3. CASE (C!Undecided \/ C!Undecided') /\ ~C!Seal /\ ~C!SealEmpty
    <3>1. Before' = Before /\ T!CellsBefore' = T!CellsBefore
      BY <2>3, WholeStays, SameCells, SameCellsNext DEF SameCellsFact
    <3>2. \A i \in Input : ValBefore(i)' = Before'[i][1] /\ ValBefore(i) = Before[i][1]
      BY BeforeParts, BeforePartsNext DEF BeforeSplit
    <3>3. \A i \in Input : /\ T!StoreOf[i] = T!CellsBefore[i][1]
                           /\ T!StoreOf'[i] = T!CellsBefore'[i][1]
      BY DEF T!StoreOf, T!CellsBefore
    <3> QED
      BY <3>1, <3>2, <3>3, LayersAre DEF WholeInv, Layers
  <2> QED
    BY <2>1, <2>2, <2>3
<1>2. phase' = "walk" => seed' = changedInputs' /\ \A i \in Input : val'[i] = cell'[i]
  BY WalkAgrees
<1> QED
  BY <1>1, <1>2, LayersAreNext DEF Layers

-----------------------------------------------------------------------------
(* The invariant of whole commits, and what follows from it.               *)

LEMMA CommitInitHolds == CommitInit => WholeInv
<1> SUFFICES ASSUME CommitInit PROVE WholeInv
  OBVIOUS
<1>1. T!IInv
  BY SameInit, T!InitKeeps, PipelineAssumption DEF CommitInit
<1>2. IInv /\ phase = "idle" /\ DOMAIN undo = {} /\ at = "idle" /\ stage = "quiet"
  BY InitKeeps DEF CommitInit, SubInit, Init, C!Init
<1>3. Layers
  BY <1>2 DEF CommitInit, Layers, ValBefore, T!StoreOf, T!Undecided
<1> QED
  BY <1>1, <1>2, <1>3, LayersAre DEF WholeInv, Link

LEMMA CommitStepKeeps == WholeInv /\ [CommitNext]_commitVars => WholeInv'
<1> SUFFICES ASSUME WholeInv, [CommitNext]_commitVars PROVE WholeInv'
  OBVIOUS
<1>1. CASE UNCHANGED commitVars
  <2>1. UNCHANGED <<allVars, inputSide, vars, subVars, graph, pass>>
    BY <1>1 DEF commitVars, allVars, vars
  <2>2. UNCHANGED T!vars
    BY <2>1 DEF inputSide, vars, graph, T!vars, T!cells, T!sentinels, T!frame, T!arrays
  <2>3. T!IInv'
    BY <2>2, T!NextKeeps, PipelineAssumption DEF WholeInv
  <2>4. IInv'
    BY <2>1, NextKeeps DEF WholeInv
  <2>5. Link'
    BY <2>1 DEF WholeInv, Link, vars, pass, subVars, inputSide
  <2>6. Layers'
    <3>1. T!StoreOf' = T!StoreOf
      BY <2>2 DEF T!vars, T!cells, T!frame, T!arrays, T!sentinels, T!StoreOf, T!Undecided,
                  T!CellBefore, T!Rows, T!SlotRows, T!UndoRow
    <3> QED
      BY <2>1, <3>1, LayersAre DEF WholeInv, Layers, ValBefore, vars, pass, inputSide
  <2> QED
    BY <2>3, <2>4, <2>5, <2>6, LayersAreNext DEF WholeInv
<1>2. CASE CommitNext
  <2>1. [Next]_vars
    BY <1>2, StepOfObservers, StepOfGraph DEF WholeInv
  <2>2. IInv'
    BY <2>1, NextKeeps DEF WholeInv
  <2>3. [T!Next]_T!vars
    BY <1>2, <2>2, StepOfInputs DEF WholeInv
  <2>4. T!IInv'
    BY <2>3, T!NextKeeps, PipelineAssumption DEF WholeInv
  <2> QED
    BY <1>2, <2>2, <2>4, LinkKept, LayersKept DEF WholeInv
<1> QED
  BY <1>1, <1>2

LEMMA WholeInvariant == CommitSpec => []WholeInv
BY CommitInitHolds, CommitStepKeeps, PTL DEF CommitSpec

\* The undo rows of the inputs and the snapshots of the derived side rebuild the
\* same values at every step of a frame, and Phase D walks from exactly the inputs
\* that the commit reports, over the cells that it published.
THEOREM CommitSidesAgree == CommitSpec => []LayersAgree
<1>1. WholeInv => LayersAgree
  BY DEF WholeInv
<1> QED
  BY <1>1, WholeInvariant, PTL

LEMMA AtomicStep ==
  WholeInv /\ WholeInv' /\ [CommitNext]_commitVars =>
    [(C!Undecided \/ C!Undecided') /\ ~(C!Seal \/ C!SealEmpty) =>
       WholeBefore' = WholeBefore]_commitVars
<1> SUFFICES ASSUME WholeInv, WholeInv', CommitNext, C!Undecided \/ C!Undecided',
                    ~C!Seal, ~C!SealEmpty
             PROVE  WholeBefore' = WholeBefore
  OBVIOUS
<1> QED
  BY WholeStays DEF WholeInv, WholeBefore, ClockBefore

\* Between the opening of a frame and its seal nothing moves the values, the edges,
\* the stamps, the clock or the last Commit that a rollback returns to: commit,
\* hydrate and simulate are all or nothing across both sides, wherever they throw.
THEOREM CommitsAreAtomic == CommitSpec => FrameIsAtomic
BY AtomicStep, WholeInvariant, PTL DEF CommitSpec, FrameIsAtomic

\* Driven by the transaction, the derived side and its observers do what
\* Subscribers lets them do: every theorem about them holds in whole commits.
THEOREM WholeKeepsDerivedSide == CommitSpec => SubSpec
<1>1. CommitInit => SubInit
  BY DEF CommitInit
<1>2. WholeInv /\ [CommitNext]_commitVars => [SubNext]_allVars
  BY StepOfObservers DEF WholeInv, commitVars
<1> QED
  BY <1>1, <1>2, WholeInvariant, PTL DEF CommitSpec, SubSpec

LEMMA SameRest ==
  /\ \A x \in [Input -> Value], n \in Nat : C!MigrateFrom(x, n) <=> T!MigrateFrom(x, n)
  /\ \A S \in SUBSET Input : /\ C!RegisterDependent(S) <=> T!RegisterDependent(S)
                             /\ C!DropDependents(S) <=> T!DropDependents(S)
  /\ C!Rewire <=> T!Rewire
<1> USE DEF C!cells, T!cells, C!sentinels, T!sentinels, C!frame, T!frame, C!arrays, T!arrays
<1>1. \A x \in [Input -> Value], n \in Nat : C!MigrateFrom(x, n) <=> T!MigrateFrom(x, n)
  BY DEF C!MigrateFrom, T!MigrateFrom
<1>2. \A S \in SUBSET Input : /\ C!RegisterDependent(S) <=> T!RegisterDependent(S)
                              /\ C!DropDependents(S) <=> T!DropDependents(S)
  BY DEF C!RegisterDependent, T!RegisterDependent, C!DropDependents, T!DropDependents
<1>3. C!Rewire <=> T!Rewire
  BY DEF C!Rewire, T!Rewire
<1> QED
  BY <1>1, <1>2, <1>3

LEMMA SameNext == T!Next => C!Next
<1>1. C!Modes = T!Modes
  BY DEF C!Modes, T!Modes
<1>2. T!Pipeline => C!Pipeline
  BY SameEarly, SameLate DEF T!Pipeline, C!Pipeline
<1> QED
  BY <1>1, <1>2, SameBegin, SameTxSet, SameRest DEF T!Next, C!Next

\* The input side does what CommitTx lets it do, Phase D and its rewiring of
\* hasDependents included: what CommitTx leaves to chance covers what happens.
THEOREM WholeKeepsInputSide == CommitSpec => C!Spec
<1>1. CommitInit => C!Init
  BY DEF CommitInit
<1>2. WholeInv /\ WholeInv' /\ [CommitNext]_commitVars => [C!Next]_C!vars
  <2>1. UNCHANGED commitVars => UNCHANGED C!vars
    BY DEF commitVars, allVars, inputSide, vars, graph, C!vars, C!cells, C!sentinels, C!frame, C!arrays
  <2>2. UNCHANGED T!vars => UNCHANGED C!vars
    BY DEF T!vars, T!cells, T!sentinels, T!frame, T!arrays, C!vars, C!cells, C!sentinels, C!frame, C!arrays
  <2> QED
    BY <2>1, <2>2, StepOfInputs, SameNext DEF WholeInv
<1> QED
  BY <1>1, <1>2, WholeInvariant, PTL DEF CommitSpec, C!Spec

LEMMA SameProperties ==
  /\ T!SentinelsAgree => C!SentinelsAgree
  /\ T!OneUndoRowPerCell => C!OneUndoRowPerCell
  /\ T!InvariantsGatePublication => C!InvariantsGatePublication
BY DEF T!SentinelsAgree, C!SentinelsAgree, T!StagedRows, C!StagedRows, T!Rows, C!Rows,
       T!OneUndoRowPerCell, C!OneUndoRowPerCell, T!Undecided, C!Undecided,
       T!InvariantsGatePublication, C!InvariantsGatePublication

\* So what is proved of either side alone holds of the pipeline: the sentinels mark
\* the touched inputs, one undo row is kept for each, a violated invariant publishes
\* nothing, the edges mirror each other without a cycle, no derived value is torn,
\* the changed nodes are exactly those that moved, and each observer is current
\* and hears of a commit once.
THEOREM CommitsAreSound ==
  CommitSpec =>
    /\ [](C!TypeOK /\ C!SentinelsAgree /\ C!OneUndoRowPerCell /\ C!InvariantsGatePublication)
    /\ [](SubTypeOK /\ EdgesMirror /\ NoCycle /\ GlitchFree /\ ChangedExact)
    /\ [](RefcountsCountPaths /\ ObserversAreCurrent)
    /\ CalledOnce
<1>1. WholeInv => C!TypeOK /\ C!SentinelsAgree /\ C!OneUndoRowPerCell /\ C!InvariantsGatePublication
  BY SameType, SameProperties, T!InvariantImplies, PipelineAssumption DEF WholeInv, T!IInv
<1>2. SubSpec => [](EdgesMirror /\ NoCycle /\ GlitchFree /\ ChangedExact)
  BY WatchedGraphSound, GraphUndisturbed, CyclesDoNotSurvive, PTL
<1> QED
  BY <1>1, <1>2, WholeInvariant, WholeKeepsDerivedSide, CountsArePaths, ObserversKeepUp,
     ObserversTyped, OneCallPerCommit, PTL

-----------------------------------------------------------------------------
(* Together: each part of the listeners behaves as it does alone.          *)

\* Where frames do not move as a whole, the input side rests.
ListenInv ==
  /\ part = "commits" => WholeInv
  /\ part # "commits" => at = "idle"

LEMMA ListenInitHolds == ListenInit => ListenInv
<1> SUFFICES ASSUME ListenInit PROVE ListenInv
  OBVIOUS
<1>1. SubInit /\ C!Init /\ at = "idle"
  BY DEF ListenInit, C!Init
<1>2. ASSUME part = "commits" PROVE CommitInit
  BY <1>1, <1>2 DEF ListenInit, CommitInit, Node
<1> QED
  BY <1>1, <1>2, CommitInitHolds DEF ListenInv

LEMMA ListenStepKeeps == ListenInv /\ [ListenNext]_listenVars => ListenInv'
<1> SUFFICES ASSUME ListenInv, [ListenNext]_listenVars PROVE ListenInv'
  OBVIOUS
<1>1. part' = part
  BY DEF ListenNext, listenVars
<1>2. part = "commits" => [CommitNext]_commitVars
  BY DEF ListenNext, listenVars
<1>3. part # "commits" => at' = at
  BY DEF ListenNext, listenVars, commitVars, inputSide
<1> QED
  BY <1>1, <1>2, <1>3, CommitStepKeeps DEF ListenInv

LEMMA ListenInvariant == ListenSpec => []ListenInv
BY ListenInitHolds, ListenStepKeeps, PTL DEF ListenSpec

LEMMA NodesAlone == ListenSpec => SubSpec
<1>1. ListenInit => SubInit
  BY DEF ListenInit
<1>2. ListenInv /\ [ListenNext]_listenVars => [SubNext]_allVars
  <2> SUFFICES ASSUME ListenInv, [ListenNext]_listenVars PROVE [SubNext]_allVars
    OBVIOUS
  <2>1. CASE part = "commits"
    <3>1. [CommitNext]_commitVars
      BY <2>1 DEF ListenNext, listenVars
    <3> QED
      BY <2>1, <3>1, StepOfObservers DEF ListenInv, WholeInv, commitVars
  <2>2. CASE part # "commits"
    BY <2>2 DEF ListenNext, listenVars, commitVars
  <2> QED
    BY <2>1, <2>2
<1> QED
  BY <1>1, <1>2, ListenInvariant, PTL DEF ListenSpec, SubSpec

LEMMA ReadsAlone == ListenSpec => ReadSpec
<1>1. ListenInit => ReadInit
  BY DEF ListenInit
<1>2. [ListenNext]_listenVars => [ReadNext]_readVars
  BY DEF ListenNext, listenVars
<1> QED
  BY <1>1, <1>2, PTL DEF ListenSpec, ReadSpec

LEMMA StorageAlone == ListenSpec => PersistSpec
<1>1. ListenInit => PersistInit
  BY DEF ListenInit
<1>2. [ListenNext]_listenVars => [PersistNext]_persistVars
  BY DEF ListenNext, listenVars
<1> QED
  BY <1>1, <1>2, PTL DEF ListenSpec, PersistSpec

LEMMA FramesAreAtomic == ListenSpec => FrameIsAtomic
<1>1. ListenInv /\ ListenInv' /\ [ListenNext]_listenVars =>
        [(C!Undecided \/ C!Undecided') /\ ~(C!Seal \/ C!SealEmpty) =>
           WholeBefore' = WholeBefore]_commitVars
  <2> SUFFICES ASSUME ListenInv, ListenInv', [ListenNext]_listenVars
               PROVE  [(C!Undecided \/ C!Undecided') /\ ~(C!Seal \/ C!SealEmpty) =>
                         WholeBefore' = WholeBefore]_commitVars
    OBVIOUS
  <2>1. part' = part
    BY DEF ListenNext, listenVars
  <2>2. CASE part = "commits"
    <3>1. [CommitNext]_commitVars
      BY <2>2 DEF ListenNext, listenVars
    <3> QED
      BY <2>1, <2>2, <3>1, AtomicStep DEF ListenInv
  <2>3. CASE part # "commits"
    BY <2>1, <2>3 DEF ListenInv, C!Undecided
  <2> QED
    BY <2>2, <2>3
<1> QED
  BY <1>1, ListenInvariant, PTL DEF ListenSpec, FrameIsAtomic

\* A frame is all or nothing across both sides; no observer is called twice for
\* one commit, a group of many changed nodes neither and a transient one in one
\* commit only; and what a page has saved is there when the page is opened again,
\* or is dropped as its options ask.
THEOREM AtomicToldOnceAndKept == ListenSpec => AtomicToldOnceKept
  BY FramesAreAtomic, NodesAlone, StorageAlone, OneCallPerCommit, SavedStays, PTL
     DEF AtomicToldOnceKept

\* Where frames move as a whole, what the undo rows of the inputs and what the
\* snapshots of the derived side rebuild agree at every step.
THEOREM ListenersSidesAgree == ListenSpec => []SidesAgree
<1>1. ListenInv => SidesAgree
  BY DEF ListenInv, WholeInv, SidesAgree
<1> QED
  BY <1>1, ListenInvariant, PTL

-----------------------------------------------------------------------------
(* Types.                                                                  *)

\* Only a reader can be stale.
StaleOK == stale \subseteq Enrolled

LEMMA StaleEnrolled ==
  ASSUME ReadInv, StaleOK, [ReadNext]_readVars
  PROVE  StaleOK'
<1> SUFFICES stale' \subseteq Enrolled'
  BY DEF StaleOK
<1> USE DEF StaleOK
<1>1. CASE UNCHANGED readVars
  BY <1>1 DEF readVars, Enrolled
<1>2. ASSUME NEW r \in Reader, UnsubscribeReads(r) PROVE stale' \subseteq Enrolled'
  BY <1>2 DEF UnsubscribeReads, Enrolled, ReadInv, ReadShapes
<1>3. ASSUME NEW r \in Reader, RunReader(r) PROVE stale' \subseteq Enrolled'
  <2>1. \A g \in Enrolled : g \in Enrolled'
    <3>1. CASE regs' = regs
      BY <3>1 DEF Enrolled
    <3>2. CASE regs' = [regs EXCEPT ![r].deps = ReadSetOf(regs[r].proj)]
      <4>1. CASE r \in Enrolled
        <5>1. regs'[r] = [regs[r] EXCEPT !.deps = ReadSetOf(regs[r].proj)]
          BY <3>2 DEF ReadInv, ReadShapes
        <5>2. regs'[r] \in Registration
          BY <4>1, <5>1, RegistrationParts, ReadSetOfPlaces DEF ReadInv, Registration
        <5> QED
          BY <3>2, <5>2, NothingAssumption DEF Enrolled, ReadInv, ReadShapes
      <4>2. CASE r \notin Enrolled
        BY <3>2, <4>2 DEF Enrolled, ReadInv, ReadShapes
      <4> QED
        BY <4>1, <4>2
    <3> QED
      BY <1>3, <3>1, <3>2 DEF RunReader
  <2>2. r \in Enrolled
    <3>1. \E c \in Place : r \in index[c]
      BY <1>3 DEF RunReader, ToRun, ReadInv, ReadShapes
    <3> QED
      BY <3>1 DEF ReadInv, IndexMirrorsReads
  <2> QED
    BY <1>3, <2>1, <2>2 DEF RunReader
<1>4. ASSUME NEW r \in Reader, NEW p \in Projection, SubscribeReads(r, p)
      PROVE  stale' \subseteq Enrolled'
  <2>1. regs' = [regs EXCEPT ![r] = [proj |-> p, deps |-> ReadSetOf(p)]]
    BY <1>4 DEF SubscribeReads
  <2>2. [proj |-> p, deps |-> ReadSetOf(p)] \in Registration
    BY ReadSetOfPlaces DEF ReadInv, Registration
  <2>3. Enrolled' = Enrolled \cup {r}
    BY <2>1, <2>2, NothingAssumption DEF Enrolled, ReadInv, ReadShapes
  <2> QED
    BY <1>4, <2>3 DEF SubscribeReads
<1>5. ASSUME NEW c \in Place, DisposePlace(c) PROVE stale' \subseteq Enrolled'
  <2>1. index[c] \subseteq Enrolled /\ stale' = stale \cup index[c]
    BY <1>5 DEF DisposePlace, ReadInv, IndexMirrorsReads
  <2>2. regs' = [r \in Reader |-> IF r \in index[c]
                                 THEN [regs[r] EXCEPT !.deps = @ \ {c}] ELSE regs[r]]
    BY <1>5 DEF DisposePlace
  <2>3. ASSUME NEW r \in Enrolled PROVE r \in Enrolled'
    <3>1. [regs[r] EXCEPT !.deps = @ \ {c}] \in Registration
      BY RegistrationParts DEF ReadInv, Registration
    <3> QED
      BY <2>2, <3>1, NothingAssumption DEF Enrolled
  <2> QED
    BY <2>1, <2>3
<1>6. CASE \/ \E c \in Place, v \in Worth : ReregisterPlace(c, v) \/ WritePlace(c, v)
           \/ BeginTx \/ TakeBack \/ PublishTx \/ NextBucket
  BY <1>6 DEF ReregisterPlace, WritePlace, BeginTx, TakeBack, PublishTx, NextBucket, Enrolled
<1> QED
  BY <1>1, <1>2, <1>3, <1>4, <1>5, <1>6 DEF ReadNext

LEMMA ReadersTyped == ReadSpec => []ReadTypeOK
<1>1. ReadInit => StaleOK
  BY DEF ReadInit, StaleOK
<1>2. ReadInv /\ StaleOK /\ [ReadNext]_readVars => StaleOK'
  BY StaleEnrolled
<1>3. ReadInv /\ StaleOK => ReadTypeOK
  BY DEF StaleOK, ReadInv, ReadShapes, ReadTypeOK
<1> QED
  BY ReadInitHolds, ReadStepKeeps, <1>1, <1>2, <1>3, PTL DEF ReadSpec

-----------------------------------------------------------------------------

\* What a page may show, and what a slot may hold.
Known == Readable \cup {Initial(w) : w \in Version}
MayShow == Readable \cup AnyValue \cup {Initial(w) : w \in Version}

PagesShow ==
  /\ slot \in Slots
  /\ \A p \in Page : pages[p].value \in MayShow

LEMMA KnownStays ==
  ASSUME NEW x \in Known, NEW v \in Version
  PROVE  Migrated(x, v) \in Known
<1>1. CASE x \in Readable
  BY <1>1 DEF Readable, Migrated, Known
<1>2. ASSUME NEW w \in Version, x = Initial(w) PROVE Migrated(x, v) = Initial(v)
  BY <1>2 DEF Initial, Migrated
<1> QED
  BY <1>1, <1>2 DEF Known

LEMMA SlotOfKnown ==
  /\ \A v \in Version, x \in Known : Envelope(v, x) \in Slots
  /\ Marker("absent") \in Slots
  /\ \A s \in Slots : s.kind = "envelope" => s.value \in Known
<1>1. \A v \in Version, x \in Known : Envelope(v, x) \in Slots
  BY DEF Slots, Known
<1>2. Marker("absent") \in Slots
  BY DEF Slots
<1>3. ASSUME NEW s \in Slots, s.kind = "envelope" PROVE s.value \in Known
  <2>1. CASE s \in {Marker(k) : k \in {"absent", "garbled", "null"}}
    BY <1>3, <2>1 DEF Marker
  <2>2. ASSUME NEW v \in Version, NEW x \in Known, s = Envelope(v, x) PROVE s.value \in Known
    BY <2>2 DEF Envelope
  <2> QED
    BY <2>1, <2>2 DEF Slots, Known
<1> QED
  BY <1>1, <1>2, <1>3

LEMMA LoadedKnown ==
  ASSUME PersistInv, PagesShow, NEW o \in Options, slot.kind # "null"
  PROVE  LoadInitial(o).value \in Known
<1>1. o.version \in Version /\ o.migrate \in {"missing", "works", "throws"}
  BY DEF Options
<1>2. Initial(o.version) \in Known
  BY <1>1 DEF Known
<1>3. slot.kind = "envelope" => slot.value \in Known
  BY SlotOfKnown DEF PagesShow
<1>4. slot.kind \in {"absent", "garbled", "envelope"}
  BY SlotKinds DEF PersistInv
<1>5. slot.kind = "envelope" => Migrated(slot.value, o.version) \in Known
  BY <1>1, <1>3, KnownStays
<1>6. CASE slot.kind = "envelope" /\ SameVersion(o)
  BY <1>3, <1>6 DEF LoadInitial
<1>7. CASE slot.kind = "envelope" /\ ~SameVersion(o)
  BY <1>1, <1>2, <1>5, <1>7 DEF LoadInitial
<1>8. CASE slot.kind \in {"absent", "garbled"}
  BY <1>2, <1>8 DEF LoadInitial
<1> QED
  BY <1>4, <1>6, <1>7, <1>8

LEMMA PagesKeepShowing ==
  ASSUME PersistInv, PagesShow, [PersistNext]_persistVars
  PROVE  PagesShow'
<1>1. CASE UNCHANGED persistVars
  BY <1>1 DEF persistVars, PagesShow
<1>2. ASSUME NEW p \in Page, NEW o \in Options, OpenPage(p, o) PROVE PagesShow'
  <2>1. /\ slot' \in {slot, Marker("absent")}
        /\ pages' = [pages EXCEPT ![p] = [stage |-> "open", options |-> o,
                       value |-> LoadInitial(o).value, error |-> LoadInitial(o).error]]
        /\ LoadInitial(o).value \in MayShow
    BY <1>2, LoadedKnown DEF OpenPage, Dropped, Known, MayShow
  <2>2. \A q \in Page : pages'[q].value = IF q = p THEN LoadInitial(o).value ELSE pages[q].value
    BY <2>1 DEF PersistInv, PagesOK
  <2> QED
    BY <2>1, <2>2, SlotOfKnown DEF PagesShow
<1>3. ASSUME NEW p \in Page, NEW o \in Options, OpenThrows(p, o) PROVE PagesShow'
  <2>1. slot' = slot /\ pages' = [pages EXCEPT ![p].stage = "threw", ![p].options = o]
    BY <1>3 DEF OpenThrows
  <2>2. \A q \in Page : pages'[q].value = pages[q].value
    BY <2>1 DEF PersistInv, PagesOK, PageState
  <2> QED
    BY <2>1, <2>2 DEF PagesShow
<1>4. ASSUME NEW p \in Page, NEW x \in ValueOf(pages[p].options.version), Change(p, x)
      PROVE  PagesShow'
  <2>1. pages[p] \in PageState /\ pages[p].options.version \in Version
    BY DEF PersistInv, PagesOK, PageState, Options
  <2>2. x \in AnyValue /\ x \in MayShow
    BY <2>1 DEF ValueOf, AnyValue, MayShow
  <2>3. \E e : pages' = [pages EXCEPT ![p].value = x, ![p].error = e]
    BY <1>4 DEF Change, WriteFails
  <2>4. \A q \in Page : pages'[q].value = IF q = p THEN x ELSE pages[q].value
    BY <2>3 DEF PersistInv, PagesOK, PageState
  <2>5. x.data # Refused => Stored(x) \in Known
    BY <2>2, DataAssumption DEF Stored, Known, Readable, AnyValue
  <2>6. slot' \in {slot, Marker("absent")} \/
        (x.data # Refused /\ slot' = Envelope(pages[p].options.version, Stored(x)))
    BY <1>4 DEF Change, Dropped
  <2>7. slot' \in Slots
    BY <2>1, <2>5, <2>6, SlotOfKnown DEF PagesShow
  <2> QED
    BY <2>2, <2>4, <2>7 DEF PagesShow
<1>5. ASSUME NEW p \in Page, ClosePage(p) PROVE PagesShow'
  <2>1. slot' = slot /\ pages' = [pages EXCEPT ![p].stage = "closed"]
    BY <1>5 DEF ClosePage
  <2>2. \A q \in Page : pages'[q].value = pages[q].value
    BY <2>1 DEF PersistInv, PagesOK, PageState
  <2> QED
    BY <2>1, <2>2 DEF PagesShow
<1> QED
  BY <1>1, <1>2, <1>3, <1>4, <1>5 DEF PersistNext

PersistFlags == honest \in BOOLEAN /\ preserve \in BOOLEAN /\ lastWrite \in Page \cup {"nobody"}

LEMMA FlagsStay == PersistFlags /\ [PersistNext]_persistVars => PersistFlags'
<1> SUFFICES ASSUME PersistFlags, [PersistNext]_persistVars PROVE PersistFlags'
  OBVIOUS
<1>1. UNCHANGED <<honest, preserve>>
  BY DEF PersistNext, persistVars, OpenPage, OpenThrows, Change, ClosePage
<1>2. lastWrite' \in Page \cup {"nobody"}
  BY DEF PersistFlags, PersistNext, persistVars, OpenPage, OpenThrows, Change, WriteFails, ClosePage
<1> QED
  BY <1>1, <1>2 DEF PersistFlags

LEMMA StorageTyped == PersistSpec => []PersistTypeOK
<1>1. PersistInit => PagesShow /\ PersistFlags
  <2> SUFFICES ASSUME PersistInit PROVE PagesShow /\ PersistFlags
    OBVIOUS
  <2>1. PICK o \in Options :
          pages = [p \in Page |-> [stage |-> "closed", options |-> o, error |-> "none",
                                   value |-> Initial(o.version)]]
    BY DEF PersistInit
  <2>2. Initial(o.version) \in MayShow
    BY DEF MayShow, Options
  <2>3. slot \in Slots
    BY DEF PersistInit, Slots
  <2> QED
    BY <2>1, <2>2, <2>3 DEF PersistInit, PagesShow, PersistFlags
<1>2. PersistInv /\ PagesShow /\ [PersistNext]_persistVars => PagesShow'
  BY PagesKeepShowing
<1>3. PersistInv /\ PagesShow /\ PersistFlags => PersistTypeOK
  BY DEF PersistInv, PagesOK, PageState, Stages, Errors, PagesShow, MayShow, PersistFlags,
         PersistTypeOK
<1> QED
  BY PersistInitHolds, PersistStepKeeps, FlagsStay, <1>1, <1>2, <1>3, PTL DEF PersistSpec

PartOK == part \in {"commits", "nodes", "reads", "storage"}

\* The variables of the four parts keep their types, for any inputs, nodes,
\* observers, projections, pages and values.
THEOREM ListenersTyped == ListenSpec => []ListenersTypeOK
<1>1. ListenInit => PartOK
  BY DEF ListenInit, PartOK
<1>2. PartOK /\ [ListenNext]_listenVars => PartOK'
  BY DEF ListenNext, listenVars, PartOK
<1>3. ListenInv /\ part = "commits" => C!TypeOK
  BY SameType DEF ListenInv, WholeInv, T!IInv
<1>4. PartOK /\ ListenInv /\ SubTypeOK /\ ReadTypeOK /\ PersistTypeOK => ListenersTypeOK
  BY <1>3 DEF ListenersTypeOK, PartOK
<1> QED
  BY NodesAlone, ReadsAlone, StorageAlone, ObserversTyped, ReadersTyped, StorageTyped,
     ListenInvariant, <1>1, <1>2, <1>4, PTL DEF ListenSpec
=============================================================================
