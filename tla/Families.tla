------------------------------ MODULE Families ------------------------------
(***************************************************************************)
(* useCauslFamily of packages/react: one node per key for the components   *)
(* of a provider, made by the first render that asks for the key and       *)
(* disposed of in a microtask after the last of them is gone.              *)
(*                                                                         *)
(* React renders a component, perhaps throws the rendering away, and runs  *)
(* the effect of one it keeps in a later task; microtasks run in between.  *)
(* StrictMode runs cleanup and effect of a new component once more.        *)
(*                                                                         *)
(* A factory registers its node under the key, so a handle finds the node  *)
(* that has the key now, and may read the nodes of other keys.             *)
(***************************************************************************)
EXTENDS Integers, Sequences, FiniteSets

CONSTANTS Mount,       \* components that may be on the page
          Key,
          Uses,        \* the keys whose nodes the factory of a key reads
          MaxEntries,  \* bound on the entries ever made
          MaxTasks     \* bound on the microtasks that wait at a time

ASSUME MountAssumption == IsFiniteSet(Mount)

VARIABLES
  entries,   \* every FamilyEntry made: key, refcount, was it ever counted?
  families,  \* the map of the provider: the entry of a key, or 0
  alive,     \* the keys under which the graph has a node
  mounts,    \* the components: stage, key and the entry their effect counted
  tasks,     \* the microtasks, by their entry
  orphans,   \* history: nodes whose disposal the graph refused
  overtaken  \* history: components whose entry went between render and effect

familyVars == <<entries, families, alive, mounts, tasks, orphans, overtaken>>

Out == [stage |-> "out"]
FamilyEntry == [key : Key, refcount : Int, counted : BOOLEAN]

FamilyTypeOK ==
  /\ entries \in Seq(FamilyEntry)
  /\ families \in [Key -> 0..Len(entries)]
  /\ alive \subseteq Key /\ orphans \subseteq alive /\ overtaken \subseteq Mount
  /\ mounts \in [Mount -> {Out} \cup [stage : {"rendered", "mounted"}, key : Key,
                                       entry : 0..MaxEntries]]
  /\ tasks \in Seq(DOMAIN entries)

-----------------------------------------------------------------------------
(* Rendering.  One that would register a node twice or read one that is    *)
(* not there throws, and leaves no trace.                                  *)

FactoryReturns(k) == k \notin alive /\ Uses[k] \subseteq alive

Render(c, k) ==
  /\ mounts[c] = Out
  /\ mounts' = [mounts EXCEPT ![c] = [stage |-> "rendered", key |-> k, entry |-> 0]]
  /\ \/ families[k] # 0 /\ UNCHANGED <<entries, families, alive>>
     \/ /\ families[k] = 0 /\ FactoryReturns(k) /\ Len(entries) < MaxEntries
        /\ entries' = Append(entries, [key |-> k, refcount |-> 0, counted |-> FALSE])
        /\ families' = [families EXCEPT ![k] = Len(entries')]
        /\ alive' = alive \cup {k}
  /\ overtaken' = overtaken \ {c}
  /\ UNCHANGED <<tasks, orphans>>

\* React throws the rendering away: nobody tells the hook.
Abandon(c) ==
  /\ mounts[c].stage = "rendered"
  /\ mounts' = [mounts EXCEPT ![c] = Out]
  /\ UNCHANGED <<entries, families, alive, tasks, orphans, overtaken>>

-----------------------------------------------------------------------------
(* The effect, its cleanup, and the microtask.                             *)

\* The effect looks the key up again, and counts on nothing if it is gone.
Counted(all, e) == IF e = 0 THEN all
                   ELSE [all EXCEPT ![e] = [key |-> all[e].key, counted |-> TRUE,
                                            refcount |-> all[e].refcount + 1]]

Discounted(all, e) == [all EXCEPT ![e].refcount = @ - 1]
TaskFor(all, e)    == IF all[e].refcount <= 0 THEN Append(tasks, e) ELSE tasks

\* Under StrictMode cleanup and effect follow again in the same task.
Effect(c, strict) ==
  /\ mounts[c].stage = "rendered" /\ Len(tasks) < MaxTasks
  /\ LET e == families[mounts[c].key]
     IN /\ mounts' = [mounts EXCEPT ![c] = [stage |-> "mounted", entry |-> e,
                                              key |-> mounts[c].key]]
        /\ entries' = Counted(entries, e)
        /\ tasks' = IF strict /\ e # 0 THEN TaskFor(Discounted(entries', e), e) ELSE tasks
  /\ UNCHANGED <<families, alive, orphans, overtaken>>

Unmount(c) ==
  /\ mounts[c].stage = "mounted" /\ Len(tasks) < MaxTasks
  /\ mounts' = [mounts EXCEPT ![c] = Out]
  /\ LET e == mounts[c].entry
     IN IF e = 0 THEN UNCHANGED <<entries, tasks>>
        ELSE entries' = Discounted(entries, e) /\ tasks' = TaskFor(entries', e)
  /\ UNCHANGED <<families, alive, orphans, overtaken>>

Waiting(k) == {c \in Mount : mounts[c].stage = "rendered" /\ mounts[c].key = k}

\* A microtask that does not look at the count again.
NotReplaced(e) == families[entries[e].key] = e
IsUnused(e)    == entries[e].refcount <= 0 /\ families[entries[e].key] = e

\* The key leaves the map before dispose, which refuses a node others read.
RunMicrotask ==
  /\ tasks # <<>> /\ tasks' = Tail(tasks)
  /\ LET e == Head(tasks)  k == entries[e].key
     IN IF IsUnused(e)
        THEN /\ families' = [families EXCEPT ![k] = 0]
             /\ overtaken' = overtaken \cup Waiting(k)
             /\ IF \E r \in alive : k \in Uses[r]
                THEN orphans' = orphans \cup {k} /\ UNCHANGED alive
                ELSE alive' = alive \ {k} /\ UNCHANGED orphans
        ELSE UNCHANGED <<families, overtaken, alive, orphans>>
  /\ UNCHANGED <<entries, mounts>>

-----------------------------------------------------------------------------

FamilyInit ==
  /\ entries = <<>> /\ families = [k \in Key |-> 0] /\ alive = {}
  /\ mounts = [c \in Mount |-> Out] /\ tasks = <<>>
  /\ orphans = {} /\ overtaken = {}

FamilyNext ==
  \/ \E c \in Mount : Abandon(c) \/ Unmount(c) \/ \E strict \in BOOLEAN : Effect(c, strict)
  \/ \E c \in Mount, k \in Key : Render(c, k)
  \/ RunMicrotask

FamilySpec == FamilyInit /\ [][FamilyNext]_familyVars

-----------------------------------------------------------------------------
(* Properties.                                                             *)

\* The count of an entry is that of the components whose effect counted on it,
\* whatever entry has the key by the time they go.
CountsAreTrue ==
  \A e \in DOMAIN entries :
    entries[e].refcount =
      Cardinality({c \in Mount : mounts[c].stage = "mounted" /\ mounts[c].entry = e})

\* A component on the page has its node, and keeps it from being disposed of,
\* except one that was overtaken by a microtask between its render and effect.
MountedHasItsNode ==
  \A c \in Mount :
    mounts[c].stage = "mounted" =>
      \/ /\ mounts[c].entry # 0 /\ families[mounts[c].key] = mounts[c].entry
         /\ mounts[c].key \in alive
      \/ mounts[c].entry = 0 /\ c \in overtaken

\* Once the microtasks have run, an entry nobody counts on is one that no
\* effect ever counted: it was rendered for and the rendering has not arrived
\* or never will.  Every other node is gone, but those the graph refused.
NothingLingers ==
  /\ tasks = <<>> =>
       \A k \in Key : families[k] # 0 /\ entries[families[k]].refcount = 0
                        => ~entries[families[k]].counted
  /\ alive = {k \in Key : families[k] # 0} \cup orphans

FamiliesSound == CountsAreTrue /\ MountedHasItsNode /\ NothingLingers
=============================================================================
