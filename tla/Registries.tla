----------------------------- MODULE Registries -----------------------------
(***************************************************************************)
(* The two things packages/react keeps per graph and not per component:    *)
(* the snapshot <Hydrate> applied last, and the promise useCauslSuspense   *)
(* throws for a resource that is idle.  Both outlive the components, which *)
(* come and go, twice under StrictMode.                                    *)
(*                                                                         *)
(* A hydration is a commit, so it wakes whoever sleeps on the promise.     *)
(* External: React throws the promise's renderer away and tries it again   *)
(* when the promise is resolved.                                           *)
(*                                                                         *)
(* At the end, the package as a whole: families, hooks and registries      *)
(* share nothing but the graph.                                            *)
(***************************************************************************)
EXTENDS Families, Hooks

CONSTANTS Root,        \* graphs
          Dump,        \* snapshots that fit the schema of both
          Hydrator,    \* <Hydrate> elements
          Sleeper,     \* components that call useCauslSuspense
          None,        \* no snapshot
          MaxPromises, \* bound on the promises ever made
          MaxEdits     \* bound on the hydrations of a graph

VARIABLES
  hydrated,  \* hydratedSnapshotByGraph
  applied,   \* history: the snapshots each graph was hydrated with, in order
  hosts,     \* the graph of a mounted <Hydrate>, with its first snapshot
  idle,      \* idlePromiseByGraph: the number of the promise, or 0
  promises,  \* those made so far: resolved?
  asleep     \* the promise a component waits for, or 0

registryVars == <<hydrated, applied, hosts, idle, promises, asleep>>

Off == <<>>

RegistryTypeOK ==
  /\ hydrated \in [Root -> Dump \cup {None}]
  /\ applied \in [Root -> Seq(Dump)]
  /\ hosts \in [Hydrator -> {Off} \cup (Root \X Dump)]
  /\ promises \in Seq(BOOLEAN) /\ idle \in [Root -> 0..Len(promises)]
  /\ asleep \in [Sleeper -> 0..Len(promises)]

-----------------------------------------------------------------------------
(* What every commit of g does: the observer of the idle promise forgets   *)
(* it, leaves, and resolves it.                                            *)

Wakes(g) ==
  /\ promises' = [n \in DOMAIN promises |-> promises[n] \/ n = idle[g]]
  /\ idle' = [idle EXCEPT ![g] = 0]

Commits(g) ==
  /\ Wakes(g)
  /\ UNCHANGED <<hydrated, applied, hosts, asleep>>

-----------------------------------------------------------------------------
(* <Hydrate>                                                               *)

\* The layout effect; the second run of StrictMode finds the snapshot applied.
HydrateEffect(g, s) ==
  IF hydrated[g] = s THEN UNCHANGED <<hydrated, applied, idle, promises>>
  ELSE /\ hydrated' = [hydrated EXCEPT ![g] = s]
       /\ applied' = [applied EXCEPT ![g] = Append(@, s)]
       /\ Wakes(g)

\* (Where hydrate throws nothing is recorded, and React unmounts the tree.)
MountHydrate(h, g, s) ==
  /\ hosts[h] = Off /\ Len(applied[g]) < MaxEdits
  /\ HydrateEffect(g, s)
  /\ hosts' = [hosts EXCEPT ![h] = <<g, s>>]
  /\ UNCHANGED asleep

\* The effect runs again when the graph of the provider changes, and then for
\* the snapshot of the present rendering.
SwapGraph(h, g, s) ==
  /\ hosts[h] # Off /\ hosts[h][1] # g /\ Len(applied[g]) < MaxEdits
  /\ HydrateEffect(g, s)
  /\ hosts' = [hosts EXCEPT ![h] = <<g, s>>]
  /\ UNCHANGED asleep

\* StrictMode, or a tree that is hidden and shown: the same effect again.
RunAgain(h) ==
  /\ hosts[h] # Off /\ Len(applied[hosts[h][1]]) < MaxEdits
  /\ HydrateEffect(hosts[h][1], hosts[h][2])
  /\ UNCHANGED <<hosts, asleep>>

UnmountHydrate(h) ==
  /\ hosts[h] # Off /\ hosts' = [hosts EXCEPT ![h] = Off]
  /\ UNCHANGED <<hydrated, applied, idle, promises, asleep>>

-----------------------------------------------------------------------------
(* useCauslSuspense over a resource that is idle.                          *)

\* idlePromiseFor, in the middle of a rendering.
FallAsleep(c, g) ==
  /\ asleep[c] = 0
  /\ \/ idle[g] # 0 /\ UNCHANGED <<idle, promises>>
     \/ /\ idle[g] = 0 /\ Len(promises) < MaxPromises
        /\ promises' = Append(promises, FALSE)
        /\ idle' = [idle EXCEPT ![g] = Len(promises')]
  /\ asleep' = [asleep EXCEPT ![c] = idle'[g]]
  /\ UNCHANGED <<hydrated, applied, hosts>>

\* It is tried again, and may find any state.
WakeUp(c) ==
  /\ asleep[c] # 0 /\ promises[asleep[c]]
  /\ asleep' = [asleep EXCEPT ![c] = 0]
  /\ UNCHANGED <<hydrated, applied, hosts, idle, promises>>

-----------------------------------------------------------------------------

RegistryInit ==
  /\ hydrated = [g \in Root |-> None] /\ applied = [g \in Root |-> <<>>]
  /\ hosts = [h \in Hydrator |-> Off]
  /\ idle = [g \in Root |-> 0] /\ promises = <<>> /\ asleep = [c \in Sleeper |-> 0]

RegistryNext ==
  \/ \E g \in Root : Commits(g) \/ \E c \in Sleeper : FallAsleep(c, g)
  \/ \E h \in Hydrator : \/ RunAgain(h) \/ UnmountHydrate(h)
                     \/ \E g \in Root, s \in Dump : MountHydrate(h, g, s) \/ SwapGraph(h, g, s)
  \/ \E c \in Sleeper : WakeUp(c)

RegistrySpec == RegistryInit /\ [][RegistryNext]_registryVars

-----------------------------------------------------------------------------
(* Properties.                                                             *)

\* A graph is never hydrated twice in a row with the same snapshot, whichever
\* components mount it: what was committed since is not overwritten.
NeverTwiceInARow ==
  \A g \in Root : \A n \in 1..(Len(applied[g]) - 1) : applied[g][n] # applied[g][n + 1]

\* Whoever sleeps on an idle graph is woken by its next commit: the promise has
\* been resolved, or it is the one whose observer waits.
SleepersAreWoken ==
  \A c \in Sleeper :
    asleep[c] # 0 => promises[asleep[c]] \/ \E g \in Root : idle[g] = asleep[c]

\* No promise is thrown that is resolved already: React would try at once and
\* come back to it.
FreshPromises == \A g \in Root : idle[g] # 0 => ~promises[idle[g]]

RegistriesSound == NeverTwiceInARow /\ SleepersAreWoken /\ FreshPromises

-----------------------------------------------------------------------------
(* packages/react.                                                         *)

ReactSpec == FamilySpec /\ HookSpec /\ RegistrySpec

\* A component of the page has its node, shows its value, and sleeps or hydrates
\* once where others do the same.
ReactSound == FamiliesSound /\ HooksSound /\ RegistriesSound
=============================================================================
