-------------------------------- MODULE Loader --------------------------------
(***************************************************************************)
(* loadWasmBackend of packages/core/wasm/index.ts: one promise of a        *)
(* backend per bridge, kept for the life of the process and dropped when   *)
(* it is rejected.  A call that names no bridge awaits detectBridge before *)
(* it looks; making a backend awaits nothing, so a promise is settled as   *)
(* soon as there is one, and what is left is the order of the microtasks:  *)
(* those that drop it and those by which the callers come to hear of it.   *)
(*                                                                         *)
(* The second half is the detectBridge of packages/core/src/bridge.ts, by  *)
(* which an application may ask beforehand.  At the end the engines a graph *)
(* may run on are put together: an application has a backend loaded, hands *)
(* its commits to it (BatchedFlush), or lets the graph change over to one  *)
(* by itself (AutoAdapt).                                                  *)
(***************************************************************************)
EXTENDS AutoAdapt, BatchedFlush, FiniteSets

CONSTANTS Caller,   \* calls of loadWasmBackend or activateAutoMigrationBackend
          Offer,    \* the options they pass, see OfferAssumption
          MaxLoads  \* bound on the backends that are made

BridgeIds == {"wasmgc-builtins", "wasmgc-classic", "serde-json"}   \* BridgeId
Unset     == "unset"                                              \* an absent option

ASSUME OfferAssumption ==
  Offer \subseteq [bridge : BridgeIds \cup {Unset}, forwarded : BOOLEAN,
                   engine : {Unset, "js-ssot", "rust-ssot", "typo"},
                   window : {Unset, "given", "wrong"},
                   names  : {"well", "ill"}]     \* wasmBaseUrl and graphName
ASSUME LoadsAssumption == MaxLoads \in Nat

VARIABLES
  cachedFor,  \* modulePromiseByBridge
  jobs,       \* microtasks, first come first served
  requests,   \* each caller: its options, and the promise it shares
  loads       \* how many promises were made

loaderVars == <<cachedFor, jobs, requests, loads>>

NoPromise == [id |-> 0]

LoaderTypeOK ==
  /\ \A b \in BridgeIds : cachedFor[b].id \in 0..loads
  /\ \A j \in DOMAIN jobs : jobs[j].kind \in {"resume", "drop", "pass on"}
  /\ \A c \in Caller :
       requests[c].stage \in {"none", "detecting", "waiting", "served", "refused"}
  /\ loads \in 0..MaxLoads

-----------------------------------------------------------------------------
(* instantiateBackend.                                                     *)

\* resolveWasmEngineMode: a word it does not know is refused, never defaulted.
KnownMode(o)  == o.engine # "typo"
EngineMode(o) == IF o.engine = Unset THEN "js-ssot" ELSE o.engine

\* rust-ssot rides the queue: without batchedFlush it gets the default window.
WindowOf(o) ==
  IF EngineMode(o) = "rust-ssot" /\ o.window = Unset THEN "default" ELSE o.window

\* wasmUrlFor, the mode, the window and the name of the graph are all checked.
Acceptable(o) == o.names = "well" /\ KnownMode(o) /\ o.window # "wrong"

InstantiateBackend(c, o) ==
  [id |-> loads + 1, by |-> c, offer |-> o, ok |-> Acceptable(o),
   mode |-> EngineMode(o), window |-> WindowOf(o)]

-----------------------------------------------------------------------------
(* loadWasmBackend.                                                        *)

\* Returning a promise from an async function takes a job to subscribe to it and
\* one to pass its outcome on; activateAutoMigrationBackend adds one more.
PassOn(c, o) == [kind |-> "pass on", caller |-> c, hops |-> IF o.forwarded THEN 2 ELSE 1]

\* From the look into the cache on there is no await.
Share(c, o, b, before) ==
  IF cachedFor[b] # NoPromise
  THEN /\ requests' = [requests EXCEPT ![c] = [stage |-> "waiting", offer |-> o, bridge |-> b,
                                               promise |-> cachedFor[b]]]
       /\ jobs' = Append(before, PassOn(c, o))
       /\ UNCHANGED <<cachedFor, loads>>
  ELSE LET made == InstantiateBackend(c, o)
       IN /\ cachedFor' = [cachedFor EXCEPT ![b] = made]
          /\ requests' = [requests EXCEPT ![c] = [stage |-> "waiting", offer |-> o,
                                                  bridge |-> b, promise |-> made]]
          /\ loads' = loads + 1 /\ loads' <= MaxLoads
          /\ jobs' = before \o (IF made.ok THEN <<>> ELSE <<[kind |-> "drop", bridge |-> b]>>)
                           \o <<PassOn(c, o)>>

DetectedBridge == "serde-json"

\* A call, from a script or from within some microtask; it may be a second try.
LoadWasmBackend(c, o) ==
  /\ requests[c].stage \in {"none", "served", "refused"}
  /\ IF o.bridge = Unset
     THEN /\ requests' = [requests EXCEPT ![c] = [stage |-> "detecting", offer |-> o]]
          /\ jobs' = Append(jobs, [kind |-> "resume", caller |-> c])
          /\ UNCHANGED <<cachedFor, loads>>
     ELSE Share(c, o, o.bridge, jobs)

Resume ==
  /\ jobs # <<>> /\ Head(jobs).kind = "resume"
  /\ LET c == Head(jobs).caller
     IN Share(c, requests[c].offer, DetectedBridge, Tail(jobs))

\* cached.catch(() => modulePromiseByBridge.delete(bridge))
DropRejected ==
  /\ jobs # <<>> /\ Head(jobs).kind = "drop"
  /\ cachedFor' = [cachedFor EXCEPT ![Head(jobs).bridge] = NoPromise]
  /\ jobs' = Tail(jobs)
  /\ UNCHANGED <<requests, loads>>

WithOutcome(r) ==
  [stage |-> IF r.promise.ok THEN "served" ELSE "refused",
   offer |-> r.offer, bridge |-> r.bridge, promise |-> r.promise]

PassItOn ==
  /\ jobs # <<>> /\ Head(jobs).kind = "pass on"
  /\ LET j == Head(jobs)
     IN IF j.hops > 0
        THEN jobs' = Append(Tail(jobs), [j EXCEPT !.hops = @ - 1]) /\ UNCHANGED requests
        ELSE /\ jobs' = Tail(jobs)
             /\ requests' = [requests EXCEPT ![j.caller] = WithOutcome(@)]
  /\ UNCHANGED <<cachedFor, loads>>

LoaderInit ==
  /\ cachedFor = [b \in BridgeIds |-> NoPromise] /\ jobs = <<>> /\ loads = 0
  /\ requests = [c \in Caller |-> [stage |-> "none"]]

LoaderNext ==
  \/ \E c \in Caller, o \in Offer : LoadWasmBackend(c, o)
  \/ Resume \/ DropRejected \/ PassItOn

LoaderSpec == LoaderInit /\ [][LoaderNext]_loaderVars

-----------------------------------------------------------------------------
(* bridge.ts.                                                              *)

\* What a host is: the modules WebAssembly.compile takes, whether it shares
\* memory, and CAUSL_WASM_BRIDGE.
Platforms == [compiles : SUBSET {"gc", "jsStringBuiltins", "stringView"},
              shares : BOOLEAN, variable : {Unset, "gc", "serde", "auto", "other"}]

DetectFeatures(h) == h.compiles \cup (IF h.shares THEN {"sharedMemory"} ELSE {})

ReadBridgeOverride(h) == IF h.variable = "other" THEN Unset ELSE h.variable

\* The loaders in the order they are tried, each when the one before throws.
Tiers(h) ==
  LET found    == DetectFeatures(h)
      explicit == ReadBridgeOverride(h)
      gc       == explicit = "gc" \/ {"gc", "jsStringBuiltins"} \subseteq found
  IN IF explicit = "serde" THEN <<"serde-json">>
     ELSE (IF gc THEN <<"wasmgc-builtins">> ELSE <<>>)
          \o (IF "gc" \in found THEN <<"wasmgc-classic">> ELSE <<>>)
          \o <<"serde-json">>

\* Each of the loaders gives the placeholder so far, and none throws.
MakeSerdeJsonPlaceholder == [id |-> "serde-json", features |-> {}]
LoadBridge(tier) == MakeSerdeJsonPlaceholder
DetectBridge(h)  == LoadBridge(Head(Tiers(h)))

-----------------------------------------------------------------------------
(* Properties.                                                             *)

\* Calls that overlap, whether they name the bridge or have it detected, end up
\* with one backend: no second one is made while someone has the first.
OneBackendPerBridge ==
  \A c, e \in Caller :
    requests[c].stage = "served" /\ requests[e].stage = "served"
      /\ requests[c].bridge = requests[e].bridge
      => requests[c].promise = requests[e].promise

\* Whoever is refused may try again at once: what it was refused with is out of
\* the cache by then.
RefusalIsForgotten ==
  \A c \in Caller : requests[c].stage = "refused" =>
    cachedFor[requests[c].bridge] # requests[c].promise

\* Nobody is refused but for options that are wrong, its own or those of the
\* caller whose promise it found.
RefusalHasAReason ==
  \A c \in Caller : requests[c].stage = "refused" =>
    LET p == requests[c].promise
    IN ~Acceptable(p.offer) /\ (p.by = c => ~Acceptable(requests[c].offer))

\* While a call has its bridge detected, an application that asks bridge.ts on
\* the same host is told of the same bridge; there always is one, and none is
\* tried that the host cannot run unless it was asked for.
DetectionsAgree ==
  (\E c \in Caller : requests[c].stage = "detecting") =>
    \A h \in Platforms :
      /\ Last(Tiers(h)) = "serde-json"
      /\ h.variable # "gc" => \A k \in DOMAIN Tiers(h) :
           Tiers(h)[k] # "serde-json" => "gc" \in DetectFeatures(h)
      /\ DetectBridge(h).id = DetectedBridge

LoadingSound ==
  OneBackendPerBridge /\ RefusalIsForgotten /\ RefusalHasAReason /\ DetectionsAgree

-----------------------------------------------------------------------------
(* The engines of an application.                                          *)

EnginesSpec == AdaptSpec /\ BatchSpec /\ LoaderSpec

\* A graph that changes engines reads and hears the same, the queue before the
\* engine loses nothing, and callers of the loader share the engine it gives.
EnginesSound == SwapIsInvisible /\ BatchSound /\ LoadingSound

\* The application cannot tell by what it hears that the engine was changed; an
\* engine that was caught is not believed again, and one that was not only if its
\* commits were equal.
EngineChangesAreSafe == SwapIsQuiet /\ DowngradeIsSound
=============================================================================
