--------------------------- MODULE PersistedInput ---------------------------
(***************************************************************************)
(* An input node written through to a storage slot, from                   *)
(* packages/persistence.  Pages come and go (a reload is a close and an    *)
(* open), a page may run an older or a newer build than the one that wrote *)
(* the slot, two pages may be open on the same slot, the storage may       *)
(* refuse a write, and someone else may overwrite the slot.                *)
(*                                                                         *)
(* A value carries the shape of the build it was made for, so that reading *)
(* an envelope of another version without migrating it shows.              *)
(***************************************************************************)
EXTENDS Integers

CONSTANTS Page,      \* browser tabs that call persistedInput on this key
          Version,   \* the schema versions of the builds
          Data,      \* what a value says, apart from its shape
          Refused,   \* in Data: JSON.stringify throws on it (BigInt, a cycle)
          Lossy      \* in Data: JSON.stringify drops it (undefined, NaN)

ASSUME VersionAssumption == Version \subseteq Nat /\ Version # {}
ASSUME PageAssumption == "nobody" \notin Page
ASSUME DataAssumption == {Refused, Lossy} \subseteq Data /\ Refused # Lossy

VARIABLES
  slot,      \* what the storage holds under the key
  pages,     \* each page: its build, its options and the input node's value
  honest,    \* does storage.set throw when it fails? localStorageAdapter does not
  preserve,  \* preserveOnError, the same in every build
  lastWrite  \* history: the page whose change was the last thing to reach the slot

persistVars == <<slot, pages, honest, preserve, lastWrite>>

ValueOf(v)  == [data : Data, shape : {v}]
AnyValue  == [data : Data, shape : Version]
Gone      == "gone"       \* what Lossy reads back as
Readable  == [data : (Data \ {Refused, Lossy}) \cup {Gone}, shape : Version]
Initial(v) == [data |-> "initial", shape |-> v]

\* Absent; text that is no JSON; the text "null"; an envelope.
Envelope(v, x) == [kind |-> "envelope", version |-> v, value |-> x]
Marker(kind)   == [kind |-> kind]
Slots == {Marker(k) : k \in {"absent", "garbled", "null"}}
           \cup {Envelope(v, x) : v \in Version, x \in Readable \cup {Initial(w) : w \in Version}}

Options == [version : Version, migrate : {"missing", "works", "throws"}]

PersistTypeOK ==
  /\ slot \in Slots
  /\ honest \in BOOLEAN /\ preserve \in BOOLEAN
  /\ lastWrite \in Page \cup {"nobody"}
  /\ \A p \in Page :
       /\ pages[p].stage \in {"closed", "open", "threw"}
       /\ pages[p].options \in Options
       /\ pages[p].value \in Readable \cup AnyValue \cup {Initial(v) : v \in Version}
       /\ pages[p].error \in {"none", "parse", "migrate-threw", "migrate-missing",
                              "serialise", "quota"}

-----------------------------------------------------------------------------
(* loadInitial: the value the node is registered with and the error that   *)
(* was reported.                                                           *)

\* JSON.stringify followed, in some later page, by JSON.parse.
Stored(x) == IF x.data = Lossy THEN [x EXCEPT !.data = Gone] ELSE x

Migrated(x, v) == [x EXCEPT !.shape = v]

SameOrOlder(o) == slot.version <= o.version
SameVersion(o) == slot.version = o.version

LoadInitial(o) ==
  CASE slot.kind = "absent"  -> [value |-> Initial(o.version), error |-> "none"]
    [] slot.kind = "garbled" -> [value |-> Initial(o.version), error |-> "parse"]
    [] slot.kind = "envelope" /\ SameVersion(o) -> [value |-> slot.value, error |-> "none"]
    [] slot.kind = "envelope" /\ ~SameVersion(o) /\ o.migrate = "works" ->
         [value |-> Migrated(slot.value, o.version), error |-> "none"]
    [] slot.kind = "envelope" /\ ~SameVersion(o) /\ o.migrate = "throws" ->
         [value |-> Initial(o.version), error |-> "migrate-threw"]
    [] slot.kind = "envelope" /\ ~SameVersion(o) /\ o.migrate = "missing" ->
         [value |-> Initial(o.version), error |-> "migrate-missing"]

\* Every error branch ends with storage.delete, unless preserveOnError.
Dropped(error) ==
  IF error # "none" /\ ~preserve THEN Marker("absent") ELSE slot

-----------------------------------------------------------------------------

PersistInit ==
  /\ slot \in {Marker("absent"), Marker("garbled"), Marker("null")}
  /\ honest \in BOOLEAN /\ preserve \in BOOLEAN
  /\ lastWrite = "nobody"
  /\ \E o \in Options :
       pages = [p \in Page |-> [stage |-> "closed", options |-> o, error |-> "none",
                                value |-> Initial(o.version)]]

\* persistedInput(graph, id, initial, options), first half: read the slot,
\* register the node with what came out, then listen for commits.
OpenPage(p, o) ==
  /\ pages[p].stage = "closed"
  /\ slot.kind # "null"
  /\ LET loaded == LoadInitial(o)
     IN /\ pages' = [pages EXCEPT ![p] = [stage |-> "open", options |-> o,
                                          value |-> loaded.value, error |-> loaded.error]]
        /\ slot' = Dropped(loaded.error)
        /\ lastWrite' = IF slot' = slot /\ lastWrite # p THEN lastWrite ELSE "nobody"
  /\ UNCHANGED <<honest, preserve>>

\* JSON.parse("null") is null; its version is read outside of the try, and the
\* TypeError leaves persistedInput before any node is registered.
OpenThrows(p, o) ==
  /\ pages[p].stage = "closed"
  /\ slot.kind = "null"
  /\ pages' = [pages EXCEPT ![p].stage = "threw", ![p].options = o]
  /\ UNCHANGED <<slot, honest, preserve, lastWrite>>

\* A commit whose changedNodes include the node, and its observer: read the
\* live value, stringify, write.
WriteFails(p, x, error) ==
  /\ pages' = [pages EXCEPT ![p].value = x, ![p].error = error]
  /\ lastWrite' = p

Change(p, x) ==
  /\ pages[p].stage = "open"
  /\ x # pages[p].value
  /\ \/ \* the value cannot be stringified
        /\ x.data = Refused
        /\ WriteFails(p, x, "serialise")
        /\ slot' = Dropped("serialise")
     \/ \* storage.set fails: no delete here, whatever preserveOnError says
        /\ x.data # Refused
        /\ WriteFails(p, x, IF honest THEN "quota" ELSE "none")
        /\ UNCHANGED slot
     \/ /\ x.data # Refused
        /\ slot' = Envelope(pages[p].options.version, Stored(x))
        /\ pages' = [pages EXCEPT ![p].value = x, ![p].error = "none"]
        /\ lastWrite' = p
  /\ UNCHANGED <<honest, preserve>>

\* The page is closed or crashes; nothing is written on the way out.
ClosePage(p) ==
  /\ pages[p].stage # "closed"
  /\ pages' = [pages EXCEPT ![p].stage = "closed"]
  /\ UNCHANGED <<slot, honest, preserve, lastWrite>>

PersistNext ==
  \E p \in Page :
    \/ \E o \in Options : OpenPage(p, o) \/ OpenThrows(p, o)
    \/ \E x \in ValueOf(pages[p].options.version) : Change(p, x)
    \/ ClosePage(p)

PersistSpec == PersistInit /\ [][PersistNext]_persistVars

-----------------------------------------------------------------------------

\* A page never shows a value of another build's shape unless it went through
\* migrate, and an envelope never claims a version its value does not have,
\* even when an old and a new build are open on the same slot in turns.
ShapesMatchVersions ==
  /\ \A p \in Page : pages[p].stage = "open" =>
       pages[p].value.shape = pages[p].options.version
  /\ slot.kind = "envelope" => slot.value.shape = slot.version

\* With a storage that throws when it fails, a page that changed the node last
\* and was told of no error has its value in the slot, as far as JSON goes.
SilenceMeansSaved ==
  \A p \in Page :
    honest /\ lastWrite = p /\ pages[p].error = "none" =>
      slot = Envelope(pages[p].options.version, Stored(pages[p].value))

\* A crash between two commits loses nothing that was saved: the same build
\* opened again on an undisturbed slot starts from the value it was left with.
ReloadRestores ==
  [][\A p \in Page :
       /\ pages[p].stage = "closed" /\ pages'[p].stage = "open"
       /\ pages'[p].options.version = pages[p].options.version
       /\ honest /\ lastWrite = p /\ pages[p].error = "none"
       => pages'[p].value = Stored(pages[p].value)]_persistVars

\* With preserveOnError what could not be read, migrated or written stays in
\* the slot until a value takes its place.
NothingIsDroppedUnasked ==
  [][preserve /\ slot.kind # "absent" => slot'.kind # "absent"]_persistVars

\* Page and slot say the same of one value, as long as no error was reported.
PersistSound == ShapesMatchVersions /\ SilenceMeansSaved

\* Neither a reload nor an error loses what the slot had.
SavedIsKept == ReloadRestores /\ NothingIsDroppedUnasked
=============================================================================
