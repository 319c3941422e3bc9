------------------------------- MODULE Formula -------------------------------
(***************************************************************************)
(* Sheets of formulas on a graph: packages/formula/src/adapter.ts          *)
(* (evaluate, registerFormula), cycle.ts (staticReferences, addFormula,    *)
(* detectCycle) and the results of ir.ts and result.ts.                    *)
(*                                                                         *)
(* The cells are those of one row, named by their column.  A cell holds an *)
(* input of the host, or a derived node whose compute evaluates the        *)
(* formula and reads, through get, the cells the evaluation comes to; so   *)
(* what a formula depends on changes with its errors.  The host may ask    *)
(* detectCycle before it registers a formula ("gated"), as cycle.ts        *)
(* recommends, or leave cycles to the commit that closes one.              *)
(*                                                                         *)
(* Numbers are integers and quotients are rounded down; an error is its    *)
(* root cause and the number of times it was wrapped as "propagated".      *)
(* What registered() lists is left out.                                    *)
(***************************************************************************)
EXTENDS Integers, SequencesExt, FiniteSetsExt

CONSTANTS Column,    \* an interval of columns
          Ast,       \* formulas, as parser.ts builds them
          Literal    \* what inputs hold, of kind number, blank or text

VARIABLES
  gated,     \* does the host ask detectCycle first?
  grid,      \* the cells that have a node: an input's value, or a result
  formula,   \* of the cells with a formula
  reads,     \* deps of their nodes
  edges,     \* FormulaGraph.deps: key and its references, in order of insertion
  blind,     \* history: cells that were computed without a node they refer to,
             \* or read one that the pass had yet to compute
  refused    \* history: has a commit thrown CycleError?

sheetVars == <<gated, grid, formula, reads, edges, blind, refused>>

Filled   == DOMAIN grid
Formulas == DOMAIN formula
Put(f, c, v) == [x \in DOMAIN f \cup {c} |-> IF x = c THEN v ELSE f[x]]
Without(f, c) == [x \in DOMAIN f \ {c} |-> f[x]]

-----------------------------------------------------------------------------
(* Results.                                                                *)

Ok(n)            == [kind |-> "value", value |-> n]
Err(kind, at)    == [kind |-> "error", error |-> [root |-> kind, at |-> at, hops |-> 0]]
IsError(r)       == r.kind = "error"
Nowhere          == 0

\* coerceCellValue: what a read of a cell's value gives the evaluator.
Coerced(c, v) ==
  CASE v.kind = "blank" -> Ok(0)
    [] v.kind = "text"  -> Err("non-numeric", c)
    [] v.kind = "error" -> [v EXCEPT !.error.hops = @ + 1]
    [] OTHER -> Ok(v.value)

\* readNumber: a cell without a node is unresolved, and is not read.
ReadNumber(sheet, c) ==
  IF c \in DOMAIN sheet THEN Coerced(c, sheet[c]) ELSE Err("unresolved-ref", c)

ExpandRange(ast) == Min({ast.from, ast.to})..Max({ast.from, ast.to})

-----------------------------------------------------------------------------
(* The evaluator: a result, and the cells read before it was reached.      *)

Combined(op, l, r) ==
  CASE op = "+" -> Ok(l + r)
    [] op = "-" -> Ok(l - r)
    [] op = "*" -> Ok(l * r)
    [] op = "/" -> IF r = 0 THEN Err("div-by-zero", Nowhere) ELSE Ok(l \div r)

\* The values of a list that stopped at the first error.
Aggregate(name, values) ==
  CASE name = "SUM" -> Ok(FoldLeft(LAMBDA a, b : a + b, 0, values))
    [] values = <<>> -> Err("argument-error", Nowhere)
    [] name = "AVG" -> Ok(FoldLeft(LAMBDA a, b : a + b, 0, values) \div Len(values))
    [] name = "MIN" -> Ok(Min(ToSet(values)))
    [] name = "MAX" -> Ok(Max(ToSet(values)))

Known == {"SUM", "AVG", "MIN", "MAX"}

\* A cell of a range: one that has no node counts for nothing.
TakeCell(sheet, got, c) ==
  LET r == ReadNumber(sheet, c)
  IN IF IsError(got.out) THEN got
     ELSE IF c \notin DOMAIN sheet THEN got
     ELSE [values |-> IF IsError(r) THEN got.values ELSE Append(got.values, r.value),
           reads |-> got.reads \cup {c}, out |-> r]

RECURSIVE Run(_, _)

\* sumArg, sumAndCount, collectValues: the arguments from left to right.
TakeArg(sheet, got, arg) ==
  IF IsError(got.out) THEN got
  ELSE IF arg.type = "range"
  THEN FoldLeft(LAMBDA g, c : TakeCell(sheet, g, c), got, SetToSortSeq(ExpandRange(arg), <))
  ELSE LET r == Run(arg, sheet)
       IN [values |-> IF IsError(r.out) THEN got.values ELSE Append(got.values, r.out.value),
           reads |-> got.reads \cup r.reads, out |-> r.out]

Gathered(sheet, args) ==
  FoldLeft(LAMBDA g, arg : TakeArg(sheet, g, arg),
           [values |-> <<>>, reads |-> {}, out |-> Ok(0)], args)

Totalled(name, got) ==
  [out |-> IF IsError(got.out) THEN got.out ELSE Aggregate(name, got.values),
   reads |-> got.reads]

\* evalNode, with the catch of evaluate: an error ends the evaluation, and the
\* cells after it are not read.
Run(ast, sheet) ==
  CASE ast.type = "num" -> [out |-> Ok(ast.value), reads |-> {}]
    [] ast.type = "cell" -> [out |-> ReadNumber(sheet, ast.ref),
                             reads |-> {ast.ref} \cap DOMAIN sheet]
    [] ast.type = "range" -> Totalled("SUM", Gathered(sheet, <<ast>>))
    [] ast.type = "unary" ->
         LET r == Run(ast.operand, sheet)
         IN IF IsError(r.out) THEN r ELSE [r EXCEPT !.out = Ok(-r.out.value)]
    [] ast.type = "binop" ->
         LET l == Run(ast.left, sheet)
             r == Run(ast.right, sheet)
             both == l.reads \cup r.reads
         IN CASE IsError(l.out) -> l
              [] IsError(r.out) -> [out |-> r.out, reads |-> both]
              [] OTHER -> [out |-> Combined(ast.op, l.out.value, r.out.value), reads |-> both]
    [] ast.type = "call" ->
         IF ast.name \in Known THEN Totalled(ast.name, Gathered(sheet, ast.args))
         ELSE [out |-> Err("unknown-function", Nowhere), reads |-> {}]

-----------------------------------------------------------------------------
(* cycle.ts.                                                               *)

RECURSIVE StaticReferences(_)

\* A range by its corners.
CornersOnly(ast) == <<ast.from, ast.to>>

RangeReferences(ast) == SetToSortSeq(ExpandRange(ast), <)

StaticReferences(ast) ==
  CASE ast.type = "num" -> <<>>
    [] ast.type = "cell" -> <<ast.ref>>
    [] ast.type = "range" -> RangeReferences(ast)
    [] ast.type = "unary" -> StaticReferences(ast.operand)
    [] ast.type = "binop" -> StaticReferences(ast.left) \o StaticReferences(ast.right)
    [] ast.type = "call" ->
         FoldLeft(LAMBDA refs, arg : refs \o StaticReferences(arg), <<>>, ast.args)

\* Map.set keeps the place of a key it knows; a Set keeps the first of equals.
AddFormula(g, c, ast) ==
  LET entry == [key |-> c, deps |-> FoldLeft(LAMBDA s, r : IF Contains(s, r) THEN s ELSE Append(s, r),
                                             <<>>, StaticReferences(ast))]
  IN IF \E k \in DOMAIN g : g[k].key = c
     THEN [k \in DOMAIN g |-> IF g[k].key = c THEN entry ELSE g[k]]
     ELSE Append(g, entry)

DepsOf(g, c) == IF \E k \in DOMAIN g : g[k].key = c
                THEN g[CHOOSE k \in DOMAIN g : g[k].key = c].deps ELSE <<>>

RECURSIVE Dfs(_, _, _)

\* dfs: st is [visited, stack, found], found the path of a cycle or <<>>.
Dfs(g, st, node) ==
  LET inside == [st EXCEPT !.visited = @ \cup {node}, !.stack = Append(@, node)]
      next(s, dep) ==
        CASE s.found # <<>> -> s
          [] dep \notin s.visited -> Dfs(g, s, dep)
          [] Contains(s.stack, dep) ->
               [s EXCEPT !.found = Append(SubSeq(s.stack, SelectInSeq(s.stack, LAMBDA x : x = dep),
                                                 Len(s.stack)), dep)]
          [] OTHER -> s
      after == FoldLeft(next, inside, DepsOf(g, node))
  IN IF after.found # <<>> THEN after ELSE [after EXCEPT !.stack = Front(@)]

\* <<>> stands for null.
DetectCycle(g) ==
  FoldLeft(LAMBDA s, e : IF s.found # <<>> \/ e.key \in s.visited THEN s ELSE Dfs(g, s, e.key),
           [visited |-> {}, stack |-> <<>>, found |-> <<>>], g).found

-----------------------------------------------------------------------------
(* Registration.  The node exists only once its first value is computed,   *)
(* so a formula that names its own cell finds it unresolved.               *)

\* Formulas that were computed while c had no node.
WaitsFor(c) == {f \in Formulas \ {c} : Contains(StaticReferences(formula[f]), c)}

RegisterInput(c, v) ==
  /\ c \notin Filled
  /\ grid' = Put(grid, c, v)
  /\ blind' = blind \cup WaitsFor(c)
  /\ UNCHANGED <<gated, formula, reads, edges, refused>>

RegisterFormula(c, ast) ==
  /\ c \notin Filled
  /\ gated => DetectCycle(AddFormula(edges, c, ast)) = <<>>
  /\ edges' = AddFormula(edges, c, ast)
  /\ grid' = Put(grid, c, Run(ast, grid).out)
  /\ formula' = Put(formula, c, ast)
  /\ reads' = Put(reads, c, Run(ast, grid).reads)
  /\ blind' = (blind \cup WaitsFor(c))
              \cup (IF Contains(StaticReferences(ast), c) THEN {c} ELSE {})
  /\ UNCHANGED <<gated, refused>>

\* The host disposes of the node, which must have no dependents, and forgets
\* it, here and in FormulaGraph.deps.
DisposeCell(c) ==
  /\ c \in Filled /\ \A f \in Formulas : c \notin reads[f]
  /\ grid' = Without(grid, c)
  /\ formula' = Without(formula, c) /\ reads' = Without(reads, c)
  /\ edges' = SelectSeq(edges, LAMBDA e : e.key # c)
  /\ blind' = blind \ {c}
  /\ UNCHANGED <<gated, refused>>

-----------------------------------------------------------------------------
(* A commit.  The cells downstream of the changed inputs are computed once  *)
(* each, in an order of the edges as they were when it began; every result *)
(* is a new object, so the cutoff at equal values never applies.           *)

Downstream(S) ==
  {d \in Formulas :
     \A T \in SUBSET Formulas :
       (\A f \in Formulas : reads[f] \cap (S \cup T) # {} => f \in T) => d \in T}

Orders(S) == {o \in SetToSeqs(S) :
                \A i, j \in DOMAIN o : o[i] \in reads[o[j]] => i < j}

Reaches(deps, c) ==
  \A S \in SUBSET DOMAIN deps :
    (\A f \in DOMAIN deps : f \in S \cup {c} => (deps[f] \cap DOMAIN deps) \subseteq S) => c \in S

\* One cell of the pass; the probe runs when the cell gained an edge.
Computed(st, c) ==
  LET r    == Run(formula[c], st.grid)
      deps == [st.reads EXCEPT ![c] = r.reads]
  IN [grid  |-> Put(st.grid, c, r.out),
      reads |-> deps,
      late  |-> IF (r.reads \cap st.todo) \ (reads[c] \cup {c}) # {} THEN st.late \cup {c}
                ELSE st.late \ {c},
      todo  |-> st.todo \ {c},
      cycle |-> st.cycle \/ (~(r.reads \subseteq st.reads[c]) /\ Reaches(deps, c))]

Pass(order, inputs) ==
  FoldLeft(LAMBDA st, c : IF st.cycle THEN st ELSE Computed(st, c),
           [grid |-> inputs, reads |-> reads, late |-> blind, todo |-> ToSet(order), cycle |-> FALSE],
           order)

\* A commit that throws CycleError is taken back.
CommitInputs(w) ==
  LET changed == {c \in DOMAIN w : w[c] # grid[c]}
      inputs  == [c \in Filled |-> IF c \in changed THEN w[c] ELSE grid[c]]
  IN /\ changed # {}
     /\ \E order \in Orders(Downstream(changed)) :
          LET end == Pass(order, inputs)
          IN IF end.cycle
             THEN refused' = TRUE /\ UNCHANGED <<grid, reads, blind>>
             ELSE grid' = end.grid /\ reads' = end.reads /\ blind' = end.late /\ UNCHANGED refused
     /\ UNCHANGED <<gated, formula, edges>>

SheetInit ==
  /\ gated \in BOOLEAN
  /\ grid = <<>> /\ formula = <<>> /\ reads = <<>> /\ edges = <<>>
  /\ blind = {} /\ refused = FALSE

SheetNext ==
  \/ \E c \in Column : \/ \E v \in Literal : RegisterInput(c, v)
                     \/ \E ast \in Ast : RegisterFormula(c, ast)
                     \/ DisposeCell(c)
  \/ \E w \in [Filled \ Formulas -> Literal] : CommitInputs(w)

-----------------------------------------------------------------------------
(* Properties.                                                             *)

SheetTypeOK ==
  /\ gated \in BOOLEAN /\ refused \in BOOLEAN
  /\ Filled \subseteq Column /\ Formulas \subseteq Filled /\ DOMAIN reads = Formulas
  /\ \A c \in Formulas : formula[c] \in Ast /\ grid[c].kind \in {"value", "error"}
  /\ blind \subseteq Formulas

\* A formula shows what evaluating it now would give, and depends on just the
\* cells that evaluation reads, through errors that appear and go away, except
\* where it refers to a cell that got its node later, or first read a formula
\* that the same commit was about to compute.
CellsAreCurrent ==
  \A c \in Formulas \ blind :
    LET r == Run(formula[c], grid) IN grid[c] = r.out /\ reads[c] = r.reads

\* detectCycle answers with a closed path along the references if there is one
\* and with null otherwise.
CycleIsFound ==
  LET path == DetectCycle(edges)
      deps == [c \in {edges[k].key : k \in DOMAIN edges} |-> ToSet(DepsOf(edges, c))]
  IN IF path = <<>> THEN \A c \in DOMAIN deps : ~Reaches(deps, c)
     ELSE /\ Len(path) > 1 /\ path[1] = Last(path)
          /\ \A k \in 1..(Len(path) - 1) : Contains(DepsOf(edges, path[k]), path[k + 1])

\* A host that asks first never has a commit refused for a cycle.
GateSpares == gated => ~refused

SheetSound == CellsAreCurrent /\ CycleIsFound /\ GateSpares
=============================================================================
