----------------------------- MODULE LiveDerived ------------------------------
(***************************************************************************)
(* Derived nodes whose compute can be replaced, and the export and import  *)
(* of inputs: packages/devtools/src/liveDerivation.ts and snapshot.ts.     *)
(*                                                                         *)
(* The node that the graph knows reads a hidden version input and calls    *)
(* the compute in a slot beside the graph.  A commit that is taken back    *)
(* leaves the slot as it is, and so does a call inside a transaction body, *)
(* whose own commit is refused: until the node is next computed its value  *)
(* is that of a compute that has been replaced.                            *)
(*                                                                         *)
(* The computes read one input of the application or none; a compute may   *)
(* throw.  The clock is left out.                                          *)
(***************************************************************************)
EXTENDS Integers

CONSTANTS LiveId,      \* ids of live derivations
          Reading,     \* values of the application's input
          Swap,        \* computes: what each gives for a value of the input
          Unwritable,  \* a value that JSON leaves out
          Oops,        \* the outcome of a compute that throws
          MaxVersion   \* bound on the version inputs

ASSUME MaxVersionAssumption == MaxVersion \in Nat

VARIABLES
  input,     \* the application's input
  version,   \* the version inputs that are registered
  current,   \* the compute in the slot of each registered node
  display,   \* the value of each node
  follows,   \* the nodes that read the input when they were last computed
  overdue,   \* history: nodes not computed since their slot was written
  exported   \* the snapshots taken: <<>>, or the one kept

liveVars == <<input, version, current, display, follows, overdue, exported>>

Placed == DOMAIN current

\* A compute whose outcome depends on the input reads it.
Reads(c) == \E v, w \in Reading : c[v] # c[w]

Placing(f, id, x) == [n \in DOMAIN f \cup {id} |-> IF n = id THEN x ELSE f[n]]

-----------------------------------------------------------------------------

LiveInit ==
  /\ input \in Reading
  /\ version = <<>> /\ current = <<>> /\ display = <<>>
  /\ follows = {} /\ overdue = {} /\ exported = <<>>

\* liveDerived: the version input stays behind if the first compute throws, and
\* its id is taken from then on.
LiveDerive(id, c) ==
  /\ id \notin DOMAIN version
  /\ version' = Placing(version, id, 0)
  /\ IF c[input] = Oops THEN UNCHANGED <<current, display, follows>>
     ELSE /\ current' = Placing(current, id, c) /\ display' = Placing(display, id, c[input])
          /\ follows' = IF Reads(c) THEN follows \cup {id} ELSE follows
  /\ UNCHANGED <<input, overdue, exported>>

Slots(edits) == [n \in Placed |-> IF n \in DOMAIN edits THEN edits[n] ELSE current[n]]

\* The wrapped compute reads the version first, so every bump computes it.
MustCompute(value, bumped) == bumped \cup (IF value # input THEN follows ELSE {})

\* A commit that writes the input and the version inputs of some nodes, over the
\* slots as they are by then: Phase D computes those nodes and the ones that
\* read the input.  If one of them throws, the slots alone are kept.
Frame(value, bumped, slots) ==
  LET due     == MustCompute(value, bumped)
      written == {n \in Placed : slots[n] # current[n]}
  IN /\ current' = slots
     /\ IF \E n \in due : slots[n][value] = Oops
        THEN /\ overdue' = overdue \cup written
             /\ UNCHANGED <<input, version, display, follows>>
        ELSE /\ input' = value
             /\ version' = [n \in DOMAIN version |->
                              IF n \in bumped THEN version[n] + 1 ELSE version[n]]
             /\ display' = [n \in Placed |-> IF n \in due THEN slots[n][value] ELSE display[n]]
             /\ follows' = (follows \ due) \cup {n \in due : Reads(slots[n])}
             /\ overdue' = (overdue \cup (written \ bumped)) \ due

\* replace of the compute that is in the slot already does nothing.
Replace(id, c) ==
  /\ id \in Placed /\ current[id] # c /\ version[id] < MaxVersion
  /\ Frame(input, {id}, [current EXCEPT ![id] = c])
  /\ UNCHANGED exported

\* replaceMany: all slots, then one commit.  It does not ask what was in them.
ReplaceMany(edits) ==
  /\ DOMAIN edits # {} /\ DOMAIN edits \subseteq Placed
  /\ \A n \in DOMAIN edits : version[n] < MaxVersion
  /\ Frame(input, DOMAIN edits, Slots(edits))
  /\ UNCHANGED exported

\* One of the handles is of another graph: the edits before it are in their
\* slots, and there is no commit.
ReplaceManyThrows(edits) ==
  /\ DOMAIN edits \subseteq Placed
  /\ current' = Slots(edits)
  /\ overdue' = overdue \cup {n \in DOMAIN edits : current[n] # edits[n]}
  /\ UNCHANGED <<input, version, display, follows, exported>>

\* The application commits, and its body may call replace: the commit within is
\* refused and the error swallowed.
Commits(value, edits) ==
  /\ DOMAIN edits \subseteq Placed
  /\ value # input \/ DOMAIN edits # {}
  /\ Frame(value, {}, Slots(edits))
  /\ UNCHANGED exported

\* exportSnapshot, kept as an object or as JSON.
Export(json) ==
  /\ exported' = <<[inputs |-> [k \in IF json /\ input = Unwritable THEN {} ELSE {"input"} |-> input],
                    schema |-> 1]>>
  /\ UNCHANGED <<input, version, current, display, follows, overdue>>

\* importSnapshot: one commit, of what the snapshot has and the caller knows.
Import ==
  /\ exported # <<>>
  /\ Frame(IF "input" \in DOMAIN exported[1].inputs THEN exported[1].inputs["input"] ELSE input,
           {}, current)
  /\ UNCHANGED exported

Edits == UNION {[S -> Swap] : S \in SUBSET LiveId}

LiveNext ==
  \/ \E id \in LiveId, c \in Swap : LiveDerive(id, c) \/ Replace(id, c)
  \/ \E edits \in Edits : \/ ReplaceMany(edits) \/ ReplaceManyThrows(edits)
                          \/ \E value \in Reading : Commits(value, edits)
  \/ \E json \in BOOLEAN : Export(json)
  \/ Import

-----------------------------------------------------------------------------
(* Properties.                                                             *)

LiveTypeOK ==
  /\ input \in Reading /\ DOMAIN display = Placed /\ Placed \subseteq DOMAIN version
  /\ \A n \in DOMAIN version : version[n] \in 0..MaxVersion
  /\ follows \subseteq Placed /\ overdue \subseteq Placed

\* A node shows what the compute in its slot gives, and follows the input if
\* that one reads it, as soon as replace returns; but for a replacement made in
\* a body that did not move the node, and one that failed: the value is taken
\* back then, and the slot is not.
SwapsTakeEffect ==
  \A n \in Placed \ overdue :
    display[n] = current[n][input] /\ (n \in follows <=> Reads(current[n]))

\* No node ever shows the failure of a compute, or a value none of them gives.
ShownIsSomeAnswer ==
  \A n \in Placed : \E c \in Swap, v \in Reading : display[n] = c[v] /\ c[v] # Oops

LiveSound == SwapsTakeEffect /\ ShownIsSomeAnswer
=============================================================================
