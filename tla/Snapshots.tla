------------------------------ MODULE Snapshots ------------------------------
(***************************************************************************)
(* snapshot, hydrate and inputSerializableMemo of packages/core/src/       *)
(* graph.ts.  A snapshot holds the inputs whose value JSON can carry, and  *)
(* a digest of which nodes exist: hydrate refuses a graph with others.     *)
(* Whether a value can be carried is asked once and remembered per input,  *)
(* until the commit, simulate or rollback that changes the cell forgets    *)
(* it; but a direct write changes the cell in the middle of the tx body,   *)
(* where snapshot and exportModel may be called too.                       *)
(*                                                                         *)
(* An input in Staged has dependents, so its writes wait in rows until  *)
(* the body is over; the others write into the cell and keep an undo row.  *)
(* The digest is modelled without collisions, as the set it is taken of.   *)
(***************************************************************************)
EXTENDS Integers, FiniteSets

CONSTANTS Source,     \* ids of inputs
          Staged,     \* those with dependents
          Content,    \* what they hold
          Unkept,     \* in Content: isSerializable refuses it
          Formulas    \* ids of derived nodes

ASSUME StagedAssumption == Staged \subseteq Source
ASSUME UnkeptAssumption == Unkept \in Content

VARIABLES
  stored,    \* the cells of the registered inputs
  schema,    \* which derived nodes are registered
  memo,      \* inputSerializableMemo
  priors,    \* the prior values of the cells written directly
  pending,   \* the staged rows
  running,   \* "none", "commit" or "simulate": whose body runs
  snap,      \* a snapshot the application keeps
  misled     \* history: inputs asked for in mid-body whose write was then undone

snapVars == <<stored, schema, memo, priors, pending, running, snap, misled>>

Stores    == UNION {[D -> Content] : D \in SUBSET Source}
Nothing  == <<>>
Snapshot == [inputs : Stores, schemaHash : SUBSET (Source \cup Formulas)]

SnapTypeOK ==
  /\ {stored, priors, pending} \subseteq Stores
  /\ schema \subseteq Formulas
  /\ DOMAIN memo \subseteq DOMAIN stored /\ \A i \in DOMAIN memo : memo[i] \in BOOLEAN
  /\ running \in {"none", "commit", "simulate"}
  /\ snap \in Snapshot
  /\ misled \subseteq DOMAIN stored

-----------------------------------------------------------------------------
(* What may be carried, as it is and as it is remembered.                  *)

Serialisable(v) == v # Unkept
IsKept(i)       == IF i \in DOMAIN memo THEN memo[i] ELSE Serialisable(stored[i])

Without(f, S) == [i \in DOMAIN f \ S |-> f[i]]
Put(f, i, v)  == [k \in DOMAIN f \cup {i} |-> IF k = i THEN v ELSE f[k]]
Patched(f, g) == [k \in DOMAIN f \cup DOMAIN g |-> IF k \in DOMAIN g THEN g[k] ELSE f[k]]

SchemaHash == DOMAIN stored \cup schema

\* snapshot, and the inputs of exportModel: each input is asked for.
Taken == [inputs |-> [i \in {j \in DOMAIN stored : IsKept(j)} |-> stored[i]],
          schemaHash |-> SchemaHash]

Save ==
  /\ memo' = [i \in DOMAIN stored |-> IsKept(i)]
  /\ snap' = Taken
  /\ UNCHANGED <<stored, schema, priors, pending, running, misled>>

-----------------------------------------------------------------------------
(* Registration and disposal, between frames.                              *)

AddInput(i, v) ==
  /\ running = "none" /\ i \notin DOMAIN stored
  /\ stored' = Put(stored, i, v)
  /\ UNCHANGED <<schema, memo, priors, pending, running, snap, misled>>

DropInput(i) ==
  /\ running = "none" /\ i \in DOMAIN stored \ Staged
  /\ stored' = Without(stored, {i}) /\ memo' = Without(memo, {i})
  /\ misled' = misled \ {i}
  /\ UNCHANGED <<schema, priors, pending, running, snap>>

ToggleFormula(d) ==
  /\ running = "none"
  /\ schema' = IF d \in schema THEN schema \ {d} ELSE schema \cup {d}
  /\ UNCHANGED <<stored, memo, priors, pending, running, snap, misled>>

-----------------------------------------------------------------------------
(* Frames.                                                                 *)

OpenFrame(kind) ==
  /\ running = "none" /\ running' = kind
  /\ UNCHANGED <<stored, schema, memo, priors, pending, snap, misled>>

WriteDirect(i, v) ==
  /\ running # "none" /\ i \in DOMAIN stored \ Staged /\ stored[i] # v
  /\ priors' = Patched(Put(priors, i, stored[i]), priors)
  /\ stored' = [stored EXCEPT ![i] = v]
  /\ UNCHANGED <<schema, memo, pending, running, snap, misled>>

\* The first staged write of a value the cell has already is not recorded.
WriteStaged(i, v) ==
  /\ running # "none" /\ i \in DOMAIN stored \cap Staged
  /\ i \in DOMAIN pending \/ stored[i] # v
  /\ pending' = Put(pending, i, v)
  /\ UNCHANGED <<stored, schema, memo, priors, running, snap, misled>>

\* The rows that made a difference.
Reverted == {i \in DOMAIN priors : stored[i] = priors[i]}
Applied  == {i \in DOMAIN pending : stored[i] # pending[i]}
Altered  == (DOMAIN priors \ Reverted) \cup Applied

EndFrame(cells, forgotten) ==
  /\ stored' = cells
  /\ memo' = Without(memo, forgotten)
  /\ misled' = (misled \cup {i \in Reverted \cap DOMAIN memo :
                               memo[i] # Serialisable(priors[i])}) \ forgotten
  /\ priors' = Nothing /\ pending' = Nothing /\ running' = "none"
  /\ UNCHANGED <<schema, snap>>

\* The body throws: every row is put back, and what it was asked is forgotten.
BodyThrows == running # "none" /\ EndFrame(Patched(stored, priors), DOMAIN priors)

ForgetsDirectOnly == DOMAIN priors \ Reverted
Forgotten == Altered

\* Phase B of a commit that publishes; nothing is retained in Phase F.6.
FrameCommits ==
  /\ running = "commit"
  /\ EndFrame(Patched(stored, [i \in Applied |-> pending[i]]), Forgotten)

\* An invariant takes the frame back before Phase B reaches the staged rows, a
\* compute or the end of a simulation after it.
FrameTakenBack ==
  /\ running # "none"
  /\ \E undone \in {Forgotten \ Staged, Forgotten} : EndFrame(Patched(stored, priors), undone)

\* hydrate: the digest must match; inputs the snapshot lacks are left alone.
Hydrate ==
  /\ running = "none" /\ snap.schemaHash = SchemaHash
  /\ stored' = Patched(stored, [i \in DOMAIN stored \cap DOMAIN snap.inputs |-> snap.inputs[i]])
  /\ LET altered == {i \in DOMAIN stored : stored'[i] # stored[i]}
     IN memo' = Without(memo, altered) /\ misled' = misled \ altered
  /\ UNCHANGED <<schema, priors, pending, running, snap>>

-----------------------------------------------------------------------------

SnapInit ==
  /\ stored = Nothing /\ schema = {} /\ memo = Nothing
  /\ priors = Nothing /\ pending = Nothing /\ running = "none"
  /\ snap = [inputs |-> Nothing, schemaHash |-> {}] /\ misled = {}

SnapNext ==
  \/ \E i \in Source, v \in Content : AddInput(i, v) \/ WriteDirect(i, v) \/ WriteStaged(i, v)
  \/ \E i \in Source : DropInput(i)
  \/ \E d \in Formulas : ToggleFormula(d)
  \/ \E kind \in {"commit", "simulate"} : OpenFrame(kind)
  \/ Save \/ BodyThrows \/ FrameCommits \/ FrameTakenBack \/ Hydrate

SnapSpec == SnapInit /\ [][SnapNext]_snapVars

-----------------------------------------------------------------------------
(* Properties.                                                             *)

\* Between frames the remembered answer is the true one, but for an input that
\* was asked for in mid-body, between a direct write and the write that undid
\* it: no arm forgets that answer, until the cell next changes.
MemoIsTrue ==
  running = "none" =>
    \A i \in DOMAIN memo \ misled : memo[i] = Serialisable(stored[i])

\* A snapshot between frames therefore has every input that can be carried,
\* with its value, and no other.
SnapshotIsExact ==
  running = "none" =>
    \A i \in DOMAIN stored \ misled :
      /\ (i \in DOMAIN Taken.inputs) = Serialisable(stored[i])
      /\ i \in DOMAIN Taken.inputs => Taken.inputs[i] = stored[i]

SnapshotsSound == MemoIsTrue /\ SnapshotIsExact
=============================================================================
