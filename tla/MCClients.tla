----------------------------- MODULE MCClients ------------------------------
(***************************************************************************)
(* The parts of causl beside the commit pipeline, each on a small instance *)
(* of its own.  They share nothing but the graph, so one of them moves in  *)
(* a behaviour and the others stay as they were created.                   *)
(***************************************************************************)
EXTENDS Statecharts, Loader, DevtoolsBridge, Registries,
        Formula, FormulaParser, Hypothesis

CONSTANTS ka, kb, h1

\* On one graph the derived nodes cannot take a blank input, on the other they can.
MCPicky == {h1} \X Cell

\* Options that leave all to the loader, that arrive through the auto wrapper,
\* that name another bridge, and that are wrong.
MCOffer ==
  LET o == [bridge |-> Unset, forwarded |-> FALSE, engine |-> Unset, window |-> Unset,
            names |-> "well"]
  IN {o, [o EXCEPT !.bridge = DetectedBridge, !.forwarded = TRUE, !.engine = "rust-ssot"],
      [o EXCEPT !.bridge = "wasmgc-classic"],
      [o EXCEPT !.bridge = DetectedBridge, !.engine = "typo"]}

\* The family of ka makes a derived node that reads the one of kb.
MCUses == ka :> {kb} @@ kb :> {}

-----------------------------------------------------------------------------
(* Formulas, texts and hypotheses.                                         *)

CellOf(c)         == [type |-> "cell", ref |-> c]
Constant(n)       == [type |-> "num", value |-> n]
Columns(from, to) == [type |-> "range", from |-> from, to |-> to]
Op(op, l, r)      == [type |-> "binop", op |-> op, left |-> l, right |-> r]
Of(name, args)    == [type |-> "call", name |-> name, args |-> args]

\* Chains, joins, a quotient that may fail, ranges either way round, a call of
\* a function nobody knows.
MCAst ==
  {CellOf(1), Op("+", CellOf(1), CellOf(2)), Op("/", Constant(1), CellOf(3)),
   Op("-", CellOf(2), CellOf(3)), Of("SUM", <<Columns(3, 1)>>),
   Of("AVG", <<CellOf(3), Columns(2, 2)>>), Of("NO", <<CellOf(1)>>),
   [type |-> "unary", operand |-> CellOf(2)]}

MCLiteral == {[kind |-> "number", value |-> 0], [kind |-> "number", value |-> 1],
              [kind |-> "blank"], [kind |-> "text"]}

Chars == {"0", "1", ".", "A", "+", "-", "*", "(", ")", ",", ":", " ", "="}

\* All short texts, and longer ones for what takes more: signs in a row, signs
\* that bind differently, lists, ranges with blanks, calls within calls, and names
\* with digits.
MCTexts ==
  UNION {[1..n -> Chars] : n \in 0..3}
  \cup {<<"1", "-", "1", "-", "1">>, <<"1", "+", "1", "*", "1">>, <<"1", "*", "1", "+", "1">>,
        <<"-", "1", "*", "1", "-", "1">>, <<"(", "1", "+", " ", "1", ")", "*", "1">>,
        <<"A", "(", "1", ",", "-", "A", "1", ":", "A", "1", ")">>,
        <<"A", "1", " ", ":", " ", "A", "1", "1">>,
        <<"A", " ", "(", ")", "*", "A", "(", "1", " ", ",", "A", "(", "1", ")", ")">>,
        <<"A", "1", "(", ")">>, <<"A", "1", "0", " ", "(", "1", ")">>,
        <<"-", "A", "1", "A", "(", "1", ")">>}

Is(v)        == [field |-> "x", value |-> v, positive |-> TRUE]
IsNot(v)     == [field |-> "x", value |-> v, positive |-> FALSE]
Was(type, p) == [type |-> type, p |-> p]

\* A step of a phase that is a commit of a node, and one that is not.
MCStep ==
  {[action |-> a, state |-> "x" :> v @@ "y" :> 0, phase |-> "idle"] :
     a \in {"kind" :> "note",
           "kind" :> "commit" @@ "changedNodes" :> {"n"} @@ "intent" :> "fetch"},
     v \in 0..2}

MCFound ==
  {[start |-> "x" :> v @@ "kind" :> "a", steps |-> w, bounded |-> b] :
     v \in 0..1, w \in UNION {[1..n -> MCStep] : n \in 0..2}, b \in BOOLEAN}

Unsettled == {Was("eventually", Is(1)), Was("always", IsNot(2)),
              [type |-> "until", p |-> Is(0), q |-> Is(1)]}

MCClaim ==
  Unsettled
  \cup {Was("always", Is(0)), Was("never", Is(2)), Was("atStart", IsNot(1)),
        [type |-> "weakUntil", p |-> Is(0), q |-> Is(2)],
        [type |-> "until", p |-> IsNot(1), q |-> Is(2)],
        [type |-> "afterCommit", match |-> "touches" :> "n", p |-> Is(0)],
        [type |-> "afterCommit", match |-> "tag" :> "fetch", p |-> IsNot(2)],
        [type |-> "during", phase |-> "idle", p |-> IsNot(1)]}
  \cup {[type |-> "implies", if |-> a, then |-> b] : a, b \in Unsettled}
  \cup {[type |-> "or", of |-> <<a, b>>] : a, b \in Unsettled}
  \cup {[type |-> "named", invariant |-> IsNot(2),
         predicate |-> [type |-> "and", of |-> <<a, Was("atStart", Is(0))>>]] : a \in Unsettled}

-----------------------------------------------------------------------------

VARIABLE part        \* which of them moves

mirrorVars == <<settings, cells, queue, mirror, counters, trouble>>
clientVars == <<part, syncVars, adaptVars, mirrorVars, loaderVars,
                bridgeVars, familyVars, hookVars, registryVars,
                sheetVars, parserVars, shrinkVars>>

Clocked == {"sync", "batching", "devtools"}   \* those that share the clock
Parts   == Clocked \cup {"adaptation", "loading", "families", "hooks",
                         "registries", "sheet", "parser", "hypotheses"}

\* Each part as it is created, with its options fixed where it does not move.
ClientsInit ==
  /\ part \in Parts
  /\ SyncInit /\ (part # "sync" => ~guarded)
  /\ AdaptInit
  /\ BatchInit
  /\ part # "batching" =>
       /\ settings = [afterN |-> 1, timed |-> FALSE, mode |-> "js-ssot", batches |-> TRUE]
       /\ cells = CHOOSE c \in [Slot -> Json] : \A i, j \in Slot : c[i] = c[j]
  /\ LoaderInit
  /\ BridgeInit /\ (part # "devtools" => extension)
  /\ FamilyInit
  /\ HookInit /\ (part # "hooks" => hook = CHOOSE k \in Hook : TRUE)
  /\ RegistryInit
  /\ SheetInit /\ (part # "sheet" => gated)
  /\ (part = "parser" \/ text = <<>>) /\ ParserInit
  /\ \/ part = "hypotheses"
     \/ /\ claim = Was("always", Is(0))
        /\ found = CHOOSE t \in Found : t.steps = <<>> /\ ~t.bounded
  /\ ShrinkInit

\* The parts that do not move stay.
OthersStay ==
  /\ part \notin Clocked => UNCHANGED now
  /\ part # "sync" => UNCHANGED <<resourceVars, conflictVars>>
  /\ part # "adaptation" => UNCHANGED adaptVars
  /\ part # "batching" => UNCHANGED mirrorVars
  /\ part # "loading" => UNCHANGED loaderVars
  /\ part # "devtools" => UNCHANGED bridgeVars
  /\ part # "families" => UNCHANGED familyVars
  /\ part # "hooks" => UNCHANGED hookVars
  /\ part # "registries" => UNCHANGED registryVars
  /\ part # "sheet" => UNCHANGED sheetVars
  /\ part # "parser" => UNCHANGED parserVars
  /\ part # "hypotheses" => UNCHANGED shrinkVars

ClientsNext ==
  /\ \/ part = "sync" /\ SyncNext
     \/ part = "adaptation" /\ AdaptNext
     \/ part = "batching" /\ BatchNext
     \/ part = "loading" /\ LoaderNext
     \/ part = "devtools" /\ BridgeNext
     \/ part = "families" /\ FamilyNext
     \/ part = "hooks" /\ HookNext
     \/ part = "registries" /\ RegistryNext
     \/ part = "sheet" /\ SheetNext
     \/ part = "parser" /\ ParserNext
     \/ part = "hypotheses" /\ ShrinkNext
  /\ OthersStay /\ UNCHANGED part

ClientsSpec == ClientsInit /\ [][ClientsNext]_clientVars /\ BatchFairness

\* For TLC: a batch of one or of two and a commit after it take three commits; two
\* graphs that change over, and a commit after, take seven.
Bounds ==
  /\ part = "batching" => now' <= 3
  /\ \A g, h \in Host : g # h => commits'[g] + commits'[h] <= 7

BoundedSpec == ClientsInit /\ [][ClientsNext /\ Bounds]_clientVars /\ BatchFairness

\* The tools around the graph say what is so: a cell of a sheet shows what its
\* formula is worth and a cycle is found, a text has the tree its grammar gives
\* it, and what a counterexample is cut down to is one still.
ToolsSound ==
  /\ part = "sheet" => SheetSound
  /\ part = "parser" => ParserSound
  /\ part = "hypotheses" => HypothesesSound

\* The variables of every part stay within their types.
ClientsTypeOK ==
  CASE part = "sync"       -> ResourceTypeOK /\ ConflictTypeOK
    [] part = "adaptation" -> AdaptTypeOK
    [] part = "batching"   -> BatchTypeOK
    [] part = "loading"    -> LoaderTypeOK
    [] part = "devtools"   -> BridgeTypeOK
    [] part = "families"   -> FamilyTypeOK
    [] part = "hooks"      -> HookTypeOK
    [] part = "registries" -> RegistryTypeOK
    [] part = "sheet"      -> SheetTypeOK
    [] part = "parser"     -> ParserTypeOK
    [] part = "hypotheses" -> ShrinkTypeOK
=============================================================================
