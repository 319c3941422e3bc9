----------------------------- MODULE Conflicts -----------------------------
(***************************************************************************)
(* The conflict registry of packages/sync/src/conflict.ts: an input node   *)
(* with one resolution record per settled conflict, a derived node with    *)
(* the set the application's compute emits at this time, and a derived     *)
(* node that lays the first over the second.  A mutator reads both,        *)
(* decides, and commits a new map.                                         *)
(***************************************************************************)
EXTENDS GraphClock

CONSTANTS Conflict,   \* the ids the application's compute may emit
          NoRecord    \* no resolution yet

VARIABLES
  emitted,     \* the ids in the derived open set
  records,     \* the resolution map
  refusedFor,  \* the state named by the last ForbiddenConflictTransitionError
  openAt       \* history: what was emitted at each time of the clock

conflictVars == <<emitted, records, refusedFor, openAt>>

Verdicts == {"resolved", "ignored", "superseded"}
Record   == {r \in [kind : Verdicts, at : Time, by : Conflict \cup {NoRecord}] :
               r.kind = "superseded" <=> r.by # NoRecord}
Kinds    == Verdicts \cup {"open", "unknown"}

ConflictTypeOK ==
  /\ emitted \subseteq Conflict
  /\ records \in [Conflict -> Record \cup {NoRecord}]
  /\ refusedFor \in Kinds
  /\ openAt \in [Time -> SUBSET Conflict]

-----------------------------------------------------------------------------

\* currentKindOf: a record speaks before the open set.
CurrentKindOf(c) ==
  IF records[c] # NoRecord THEN records[c].kind
  ELSE IF c \in emitted THEN "open" ELSE "unknown"

\* The derived node: every emitted conflict, with its record laid over it.
Overlay ==
  [c \in emitted |-> IF records[c] = NoRecord THEN "open" ELSE records[c].kind]

\* A conflict that gave way to another may be settled all the same.
MayLeaveUntilSettled(kind) == kind \in {"open", "superseded"}

\* reduceConflict: the only edges lead out of open.
MayLeave(kind) == kind = "open"

\* patch: the record, stamped with the clock before its own commit.
Verdict(verdict, by) == [kind |-> verdict, at |-> now, by |-> by]

-----------------------------------------------------------------------------

ConflictInit ==
  /\ emitted = {}
  /\ records = [c \in Conflict |-> NoRecord]
  /\ refusedFor = "open"
  /\ openAt = [t \in Time |-> {}]

\* The application commits an input its compute reads; the open set follows.
Reemit(set) ==
  /\ set # emitted
  /\ Tick
  /\ emitted' = set
  /\ openAt' = [openAt EXCEPT ![now'] = set]
  /\ UNCHANGED <<records, refusedFor>>

\* resolve, ignore and supersede share applyEvent.  The superseding id is taken
\* as it comes.
Decide(c, verdict, by) ==
  /\ verdict = "superseded" <=> by # NoRecord
  /\ IF MayLeave(CurrentKindOf(c))
     THEN /\ Tick
          /\ records' = [records EXCEPT ![c] = Verdict(verdict, by)]
          /\ openAt' = [openAt EXCEPT ![now'] = emitted]
          /\ UNCHANGED refusedFor
     ELSE /\ refusedFor' = CurrentKindOf(c)
          /\ UNCHANGED <<records, openAt, now>>
  /\ UNCHANGED emitted

\* A commit of somebody else: the open set stays as it is.
ConflictsStay ==
  /\ UNCHANGED <<emitted, records, refusedFor>>
  /\ openAt' = IF now' = now THEN openAt ELSE [openAt EXCEPT ![now'] = emitted]

ConflictNext ==
  \/ \E set \in SUBSET Conflict : Reemit(set)
  \/ \E c \in Conflict, verdict \in Verdicts, by \in Conflict \cup {NoRecord} :
        Decide(c, verdict, by)

-----------------------------------------------------------------------------

\* A verdict is taken once: whatever the open set does, leaving and coming
\* back included, no later call replaces the record of a conflict.
VerdictsAreFinal ==
  [][\A c \in Conflict : records[c] # NoRecord => records'[c] = records[c]]_<<now, conflictVars>>

\* A record is about a conflict that was open at the very time it is stamped
\* with: nothing is settled before it was raised or after it went away.
VerdictsWereTakenWhileOpen ==
  \A c \in Conflict :
    records[c] # NoRecord => records[c].at < now /\ c \in openAt[records[c].at]

\* What subscribers of the registry are shown as open is exactly what a
\* mutator would still accept, among the conflicts of the open set and beyond.
ShownOpenIsDecidable ==
  \A c \in Conflict :
    MayLeave(CurrentKindOf(c)) <=> c \in emitted /\ Overlay[c] = "open"

\* Open set and resolution map tell one story, to mutators and to subscribers.
ConflictsSound == VerdictsWereTakenWhileOpen /\ ShownOpenIsDecidable
=============================================================================
