-------------------------------- MODULE Hooks --------------------------------
(***************************************************************************)
(* useCauslNode, useCausl, useCauslShallow and useCauslTypedArrayNode of   *)
(* packages/react: one component that shows a node of the graph it is      *)
(* provided with.  All four give useSyncExternalStore a subscription and a *)
(* getSnapshot; they differ in what they subscribe to and in what they     *)
(* keep from one call of getSnapshot to the next.                          *)
(*                                                                         *)
(* External: useSyncExternalStore takes a snapshot when it renders, one    *)
(* when it has subscribed and one whenever it is told, and renders again   *)
(* if it is not the object that is shown.  Objects are known by a number.  *)
(* The selector of useCausl returns the object of the cell, the one of     *)
(* useCauslShallow a new object around it each time.                       *)
(***************************************************************************)
EXTENDS Integers

CONSTANTS Store,      \* graphs
          Hook,       \* hooks to try: "node", "selector", "shallow", "typed"
          Element,    \* typed array constructors
          MaxObjects, \* bound on the objects ever made
          Absent      \* in the place of a cell, a snapshot or a subscription

Object == 1..MaxObjects
Seen   == [val : {0, 1}, obj : Object, as : Element]
Kept   == [from : Store, raw : Object, seen : Seen]
Ears   == [graph : Store, life : Nat]

ASSUME StoreAssumption  == Store # {} /\ Element # {} /\ MaxObjects \in Nat
ASSUME AbsentAssumption == Absent \notin Kept /\ Absent \notin Ears

VARIABLES
  hook,      \* which hook the component calls
  cellOf,    \* the node in each graph: value, object and life, or Absent
  lives,     \* how often the node of each graph was registered
  objects,   \* how many objects there are
  provided,  \* the graph of the provider
  element,   \* the constructor the component passes
  shown,     \* what is on the screen, or Absent
  keeps,     \* lastValue, or the cache of the typed array hook
  listens,   \* the subscription: graph and life, or Absent
  dirty,     \* is a rendering due?
  attached,  \* is the subscription that of the last rendering?
  unheard,   \* history: registered again since the component was last told
  recast     \* history: the constructor changed since an array was made

hookVars == <<hook, cellOf, lives, objects, provided, element, shown, keeps,
              listens, dirty, attached, unheard, recast>>

HookTypeOK ==
  /\ hook \in Hook /\ provided \in Store /\ element \in Element
  /\ cellOf \in [Store -> {Absent} \cup [val : {0, 1}, obj : Object]]
  /\ lives \in [Store -> Nat] /\ objects \in 0..MaxObjects
  /\ shown \in {Absent} \cup Seen
  /\ keeps \in {Absent} \cup Kept
  /\ listens \in {Absent} \cup Ears
  /\ {dirty, attached, unheard, recast} \subseteq BOOLEAN

PerNode == hook \in {"node", "typed"}      \* or told of every commit
Makes   == hook \in {"shallow", "typed"}   \* an object of its own

-----------------------------------------------------------------------------
(* getSnapshot.                                                            *)

\* Wrappers made by the selector are equal if what they hold is.
ShallowEqual(a, b) == a.val = b.val

\* The object that is kept is given out again.
IsKept(k, cell, g) ==
  /\ k # Absent /\ k.from = g
  /\ IF hook = "shallow" THEN ShallowEqual(k.seen, cell) ELSE k.raw = cell.obj

\* What a call gives, keeps, and how many objects there are then.
GetSnapshot(cell, g, k, n) ==
  LET obj  == IF Makes THEN n + 1 ELSE cell.obj
      seen == IF IsKept(k, cell, g) THEN k.seen
              ELSE [val |-> cell.val, obj |-> obj, as |-> element]
  IN [seen |-> seen, keeps |-> [from |-> g, raw |-> cell.obj, seen |-> seen],
      objects |-> IF IsKept(k, cell, g) \/ ~Makes THEN n ELSE n + 1]

\* handleStoreChange: a snapshot that throws is a change too.
Checks(cell, n) ==
  IF cell = Absent THEN dirty' = TRUE /\ keeps' = keeps /\ objects' = n
  ELSE LET s == GetSnapshot(cell, provided, keeps, n)
       IN /\ dirty' = (dirty \/ s.seen.obj # shown.obj)
          /\ keeps' = s.keeps /\ objects' = s.objects

-----------------------------------------------------------------------------
(* The component.                                                          *)

\* Its first rendering, or one that is due; without the node it throws and the
\* component is gone.
RenderHook ==
  /\ shown = Absent \/ dirty
  /\ dirty' = FALSE /\ unheard' = FALSE
  /\ IF cellOf[provided] = Absent
     THEN /\ shown' = Absent /\ keeps' = Absent /\ listens' = Absent /\ attached' = FALSE
          /\ recast' = FALSE /\ UNCHANGED objects
     ELSE LET s == GetSnapshot(cellOf[provided], provided, keeps, objects)
          IN /\ s.objects < MaxObjects
             /\ shown' = s.seen /\ keeps' = s.keeps /\ objects' = s.objects
             /\ recast' = (recast /\ IsKept(keeps, cellOf[provided], provided))
             /\ UNCHANGED <<listens, attached>>
  /\ UNCHANGED <<hook, cellOf, lives, provided, element>>

\* The effect of a rendering that brought a new subscribe function.
Attach ==
  /\ shown # Absent /\ ~attached /\ objects < MaxObjects
  /\ PerNode => cellOf[provided] # Absent
  /\ attached' = TRUE
  /\ listens' = [graph |-> provided, life |-> lives[provided]]
  /\ Checks(cellOf[provided], objects)
  /\ UNCHANGED <<hook, cellOf, lives, provided, element, shown, unheard, recast>>

UnmountHook ==
  /\ shown # Absent
  /\ shown' = Absent /\ keeps' = Absent /\ listens' = Absent
  /\ dirty' = FALSE /\ attached' = FALSE
  /\ UNCHANGED <<hook, cellOf, lives, objects, provided, element, unheard, recast>>

\* A node that is not there cannot be subscribed to: the effect throws.
AttachFails == ~attached /\ PerNode /\ cellOf[provided] = Absent /\ UnmountHook

\* The parent renders with another constructor, or the provider with another graph.
ChangeElement(e) ==
  /\ hook = "typed" /\ shown # Absent /\ e # element
  /\ element' = e /\ dirty' = TRUE /\ recast' = TRUE
  /\ UNCHANGED <<hook, cellOf, lives, objects, provided, shown, keeps, listens,
                attached, unheard>>

ChangeStore(g) ==
  /\ g # provided /\ provided' = g
  /\ dirty' = (shown # Absent) /\ attached' = FALSE
  /\ UNCHANGED <<hook, cellOf, lives, objects, element, shown, keeps, listens, unheard,
                recast>>

-----------------------------------------------------------------------------
(* The graphs.                                                             *)

\* Is the component told of a commit of g that writes the node, or does not?
Hears(g, writes) ==
  /\ listens # Absent /\ listens.graph = g
  /\ PerNode => writes /\ listens.life = lives[g]

Told(g, writes, cell, n) ==
  IF Hears(g, writes) THEN Checks(IF g = provided THEN cell ELSE cellOf[provided], n)
  ELSE objects' = n /\ UNCHANGED <<dirty, keeps>>

CommitsNode(g, v) ==
  /\ cellOf[g] # Absent /\ objects + 1 < MaxObjects
  /\ cellOf' = [cellOf EXCEPT ![g] = [val |-> v, obj |-> objects + 1]]
  /\ Told(g, TRUE, cellOf'[g], objects + 1)
  /\ unheard' = (unheard /\ ~Hears(g, TRUE))
  /\ UNCHANGED <<hook, lives, provided, element, shown, listens, attached, recast>>

CommitsElsewhere(g) ==
  /\ objects < MaxObjects
  /\ Told(g, FALSE, cellOf[g], objects)
  /\ unheard' = (unheard /\ ~Hears(g, FALSE))
  /\ UNCHANGED <<hook, cellOf, lives, provided, element, shown, listens, attached, recast>>

DisposesNode(g) ==
  /\ cellOf[g] # Absent /\ cellOf' = [cellOf EXCEPT ![g] = Absent]
  /\ UNCHANGED <<hook, lives, objects, provided, element, shown, keeps, listens, dirty,
                attached, unheard, recast>>

\* Registration under the id of a disposed node: a subscription to that one is
\* not one to this, and no observer of commits is told.
RegistersNode(g, v) ==
  /\ cellOf[g] = Absent /\ objects + 1 < MaxObjects
  /\ cellOf' = [cellOf EXCEPT ![g] = [val |-> v, obj |-> objects + 1]]
  /\ objects' = objects + 1 /\ lives' = [lives EXCEPT ![g] = @ + 1]
  /\ unheard' = TRUE
  /\ UNCHANGED <<hook, provided, element, shown, keeps, listens, dirty, attached, recast>>

-----------------------------------------------------------------------------

HookInit ==
  /\ hook \in Hook
  /\ provided = (CHOOSE g \in Store : TRUE) /\ element = (CHOOSE e \in Element : TRUE)
  /\ cellOf = [g \in Store |-> Absent] /\ lives = [g \in Store |-> 0]
  /\ objects = 0 /\ shown = Absent /\ keeps = Absent /\ listens = Absent
  /\ dirty = FALSE /\ attached = FALSE /\ unheard = FALSE /\ recast = FALSE

HookNext ==
  \/ RenderHook \/ Attach \/ UnmountHook \/ AttachFails
  \/ \E e \in Element : ChangeElement(e)
  \/ \E g \in Store : \/ ChangeStore(g) \/ CommitsElsewhere(g) \/ DisposesNode(g)
                      \/ \E v \in {0, 1} : CommitsNode(g, v) \/ RegistersNode(g, v)

HookSpec == HookInit /\ [][HookNext]_hookVars

-----------------------------------------------------------------------------
(* Properties.                                                             *)

AtRest == shown # Absent /\ attached /\ ~dirty /\ cellOf[provided] # Absent

\* The component shows the value of the graph it is provided with as soon as no
\* rendering is due, also after a change of graphs.  The exception is a node
\* that was disposed and registered again: the component is not told, a hook
\* that subscribes to the node never again.
ScreenIsCurrent ==
  AtRest =>
    \/ shown.val = cellOf[provided].val
    \/ unheard \/ (PerNode /\ listens.life # lives[provided])

\* A call of getSnapshot that finds nothing new gives the object on the screen,
\* or React would render for ever.
SnapshotIsStable ==
  AtRest /\ shown.val = cellOf[provided].val =>
    LET s == GetSnapshot(cellOf[provided], provided, keeps, objects)
    IN \/ s.seen.obj = shown.obj
       \/ unheard \/ (PerNode /\ listens.life # lives[provided])

\* A typed array is of the constructor the component passes, unless the
\* constructor changed and the object of the cell did not.
ArrayIsOfItsKind ==
  hook = "typed" /\ AtRest => shown.as = element \/ recast

HooksSound == ScreenIsCurrent /\ SnapshotIsStable /\ ArrayIsOfItsKind
=============================================================================
