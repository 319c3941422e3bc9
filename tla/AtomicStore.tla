----------------------------- MODULE AtomicStore -----------------------------
(***************************************************************************)
(* What a causl graph promises about its input cells, and nothing about    *)
(* how: one transaction at a time edits a draft, and either the whole      *)
(* draft becomes the store and the clock ticks once, or the draft is       *)
(* thrown away and neither the store nor the clock has moved.              *)
(* CommitTx is shown to implement this specification.                      *)
(***************************************************************************)
EXTENDS Integers

CONSTANTS Input, Value

VARIABLES store,    \* the committed value of every input
          draft,    \* what the open transaction would publish, and reads
          clock,    \* GraphTime of the store
          open,     \* a transaction is being evaluated
          record    \* the last published Commit: its time and changed inputs

vars == <<store, draft, clock, open, record>>

NoCommit == [time |-> 0, changed |-> {}]

Init == /\ store \in [Input -> Value]
        /\ draft = store
        /\ clock = 0
        /\ open = FALSE
        /\ record = NoCommit

Begin == /\ ~open
         /\ open' = TRUE
         /\ UNCHANGED <<store, draft, clock, record>>

Set(i, v) == /\ open
             /\ draft' = [draft EXCEPT ![i] = v]
             /\ UNCHANGED <<store, clock, open, record>>

Publish == /\ open
           /\ open' = FALSE
           /\ store' = draft
           /\ clock' = clock + 1
           /\ record' = [time    |-> clock + 1,
                         changed |-> {i \in Input : draft[i] # store[i]}]
           /\ UNCHANGED draft

Abort == /\ open
         /\ open' = FALSE
         /\ draft' = store
         /\ UNCHANGED <<store, clock, record>>

\* The migration boundary loads a snapshot into a graph that never committed.
Load == /\ ~open
        /\ clock = 0
        /\ store' \in [Input -> Value]
        /\ draft' = store'
        /\ clock' \in Nat
        /\ UNCHANGED <<open, record>>

Next == \/ Begin \/ Publish \/ Abort \/ Load
        \/ \E i \in Input, v \in Value : Set(i, v)

Spec == Init /\ [][Next]_vars
=============================================================================
