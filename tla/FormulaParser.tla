---------------------------- MODULE FormulaParser ----------------------------
(***************************************************************************)
(* packages/formula/src/parser.ts: the recursive descent parser of         *)
(* formulas, beside the grammar that grammar.ts documents and parser.ts    *)
(* says it parses, written as the set of trees a text has.  parseFormula   *)
(* makes the leading equals sign optional, and a1ToCellRef refuses row     *)
(* zero, as both document; there the grammar follows them.                 *)
(*                                                                         *)
(* A text is a sequence of characters: digits, a letter, a dot, operators, *)
(* brackets and blanks.  Numbers and references keep their characters; the *)
(* case of letters and the messages of errors are left out.  How grammar.ts*)
(* names columns is beside it, with the letters of a name as 1 to 26.      *)
(***************************************************************************)
EXTENDS Integers, SequencesExt

CONSTANT Texts       \* what users type

VARIABLES
  text,     \* the argument of parseFormula
  parsed    \* what it returned: a tree, Error, or Pending before the call

parserVars == <<text, parsed>>

Digits  == {"0", "1"}
Letters == {"A"}

Number(s)        == [type |-> "num", digits |-> s]
Ref(s)           == [type |-> "cell", ref |-> s]
Span(from, to)   == [type |-> "range", from |-> from, to |-> to]
Bin(op, l, r)    == [type |-> "binop", op |-> op, left |-> l, right |-> r]
Neg(t)           == [type |-> "unary", operand |-> t]
Call(name, args) == [type |-> "call", name |-> name, args |-> args]

Error   == [type |-> "error"]
Pending == [type |-> "pending"]

\* Number() refuses a second dot, and a dot alone.
IsNumber(s) == /\ \E k \in DOMAIN s : s[k] \in Digits
               /\ \A j, k \in DOMAIN s : s[j] = "." /\ s[k] = "." => j = k

\* a1ToCellRef refuses row zero.
IsRef(s) == \E k \in DOMAIN s : s[k] \in Digits \ {"0"}

-----------------------------------------------------------------------------
(* The parser.  A method starts at a position of s and returns a tree and   *)
(* the position after it, or throws.                                       *)

Thrown         == [ok |-> FALSE]
Got(tree, pos) == [ok |-> TRUE, tree |-> tree, pos |-> pos]

Peek(s, p) == IF p \in DOMAIN s THEN s[p] ELSE "end"

\* The first position from p on whose character is not in C.
After(s, p, C) ==
  CHOOSE q \in p..(Len(s) + 1) :
    Peek(s, q) \notin C /\ \A k \in p..(q - 1) : s[k] \in C
SkipWs(s, p) == After(s, p, {" "})

RECURSIVE ParseExpression(_, _), MoreTerms(_, _), ParseTerm(_, _), MoreFactors(_, _),
          ParseFactor(_, _), MoreArgs(_, _, _)

\* The loop of parseExpression: to the left, as long as signs follow.
MoreTerms(s, left) ==
  LET p     == SkipWs(s, left.pos)
      right == ParseTerm(s, p + 1)
  IN CASE ~left.ok -> left
       [] Peek(s, p) \notin {"+", "-"} -> Got(left.tree, p)
       [] OTHER -> IF right.ok
                   THEN MoreTerms(s, Got(Bin(s[p], left.tree, right.tree), right.pos))
                   ELSE Thrown

ParseExpression(s, p) == MoreTerms(s, ParseTerm(s, p))

MoreFactors(s, left) ==
  LET p     == SkipWs(s, left.pos)
      right == ParseFactor(s, p + 1)
  IN CASE ~left.ok -> left
       [] Peek(s, p) \notin {"*", "/"} -> Got(left.tree, p)
       [] OTHER -> IF right.ok
                   THEN MoreFactors(s, Got(Bin(s[p], left.tree, right.tree), right.pos))
                   ELSE Thrown

ParseTerm(s, p) == MoreFactors(s, ParseFactor(s, p))

ParseNumber(s, p) ==
  LET q == After(s, p, Digits \cup {"."})
  IN IF IsNumber(SubSeq(s, p, q - 1)) THEN Got(Number(SubSeq(s, p, q - 1)), q) ELSE Thrown

\* A reference, a range, or the name of a function.
ParseArgList(s, p) ==
  IF Peek(s, SkipWs(s, p)) = ")" THEN Got(<<>>, SkipWs(s, p)) ELSE MoreArgs(s, p, <<>>)

MoreArgs(s, p, args) ==
  LET arg == ParseExpression(s, p)
      q   == SkipWs(s, arg.pos)
      all == Append(args, arg.tree)
  IN CASE ~arg.ok -> Thrown
       [] Peek(s, q) = "," -> MoreArgs(s, q + 1, all)
       [] OTHER -> Got(all, q)

ParseLetterPrefixed(s, p) ==
  LET q     == After(s, p, Letters)
      r     == After(s, q, Digits)
      from  == SubSeq(s, p, r - 1)
      colon == SkipWs(s, r)
      lo    == SkipWs(s, colon + 1)
      mid   == After(s, lo, Letters)
      hi    == After(s, mid, Digits)
      to    == SubSeq(s, lo, hi - 1)
      args  == ParseArgList(s, colon + 1)
  IN CASE r = q ->
            IF Peek(s, colon) = "(" /\ args.ok /\ Peek(s, args.pos) = ")"
            THEN Got(Call(SubSeq(s, p, q - 1), args.tree), args.pos + 1) ELSE Thrown
       [] ~IsRef(from) -> Thrown
       [] Peek(s, colon) # ":" -> Got(Ref(from), colon)
       [] OTHER -> IF mid = lo \/ hi = mid \/ ~IsRef(to) THEN Thrown ELSE Got(Span(from, to), hi)

ParseFactor(s, q) ==
  LET p     == SkipWs(s, q)
      inner == ParseExpression(s, p + 1)
      close == SkipWs(s, inner.pos)
      minus == ParseFactor(s, p + 1)
  IN CASE Peek(s, p) = "-" -> IF minus.ok THEN Got(Neg(minus.tree), minus.pos) ELSE Thrown
       [] Peek(s, p) = "(" ->
            IF inner.ok /\ Peek(s, close) = ")" THEN Got(inner.tree, close + 1) ELSE Thrown
       [] Peek(s, p) \in Digits \cup {"."} -> ParseNumber(s, p)
       [] Peek(s, p) \in Letters -> ParseLetterPrefixed(s, p)
       [] OTHER -> Thrown

\* trim, and one equals sign that may lead.
Body(s) ==
  LET first == SkipWs(s, 1)
      last  == CHOOSE q \in 0..Len(s) :
                 (q = 0 \/ s[q] # " ") /\ \A k \in (q + 1)..Len(s) : s[k] = " "
  IN SubSeq(s, IF Peek(s, first) = "=" THEN first + 1 ELSE first, last)

ParseFormula(s) ==
  LET end == ParseExpression(Body(s), 1)
  IN IF end.ok /\ SkipWs(Body(s), end.pos) = Len(Body(s)) + 1 THEN end.tree ELSE Error

ParserInit == text \in Texts /\ parsed = Pending

Parses == parsed = Pending /\ parsed' = ParseFormula(text) /\ UNCHANGED text

\* The user goes on to another text.
Types == parsed # Pending /\ parsed' = Pending /\ text' = <<>>

ParserNext == Parses \/ Types

-----------------------------------------------------------------------------
(* Columns: 0 is A, 25 is Z, 26 is AA.                                     *)

RECURSIVE LettersFrom(_, _)

\* The loop of colToLetters, with the letters it has so far.
LettersFrom(n, s) ==
  LET longer == <<(n % 26) + 1>> \o s
      rest   == (n \div 26) - 1
  IN IF rest >= 0 THEN LettersFrom(rest, longer) ELSE longer

ColToLetters(col) == LettersFrom(col, <<>>)

LettersToCol(letters) == FoldLeft(LAMBDA n, c : (n * 26) + c, 0, letters) - 1

-----------------------------------------------------------------------------
(* The grammar.                                                            *)

\* Blanks may stand anywhere but inside a number, a reference or a name.
Word(c) == c \in Digits \cup Letters \cup {"."}
Torn(s) == \E j, k \in DOMAIN s :
             j + 1 < k /\ Word(s[j]) /\ Word(s[k]) /\ \A m \in (j + 1)..(k - 1) : s[m] = " "
Unspaced(s) == SelectSeq(s, LAMBDA c : c # " ")

\* The places of s where one of the characters C splits it in two.
Splits(s, C) == {k \in 2..(Len(s) - 1) : s[k] \in C}
Left(s, k)   == SubSeq(s, 1, k - 1)
Right(s, k)  == SubSeq(s, k + 1, Len(s))

RECURSIVE Expressions(_), Terms(_), Factors(_), ArgLists(_)

\* Expression := Term | Expression (+|-) Term.
Expressions(s) ==
  Terms(s) \cup UNION {{Bin(s[k], l, r) : l \in Expressions(Left(s, k)), r \in Terms(Right(s, k))} :
                       k \in Splits(s, {"+", "-"})}

\* Term := Factor | Term (*|/) Factor.
Terms(s) ==
  Factors(s) \cup UNION {{Bin(s[k], l, r) : l \in Terms(Left(s, k)), r \in Factors(Right(s, k))} :
                         k \in Splits(s, {"*", "/"})}

ArgLists(s) ==
  {<<t>> : t \in Expressions(s)}
  \cup UNION {{<<t>> \o rest : t \in Expressions(Left(s, k)), rest \in ArgLists(Right(s, k))} :
              k \in Splits(s, {","})}

\* identifier := letter (letter | digit)*, as grammar.ts:25 has it.
IsName(s) == s # <<>> /\ s[1] \in Letters /\ ToSet(s) \subseteq Letters \cup Digits

\* cellref := letter+ digit+.
Refs(s) ==
  {s : k \in {k \in 1..(Len(s) - 1) : /\ \A m \in 1..k : s[m] \in Letters
                                      /\ \A m \in (k + 1)..Len(s) : s[m] \in Digits /\ IsRef(s)}}

\* Factor := - Factor | ( Expression ) | number | ref | ref : ref | name ( args ).
Factors(s) ==
  LET n == Len(s)
  IN IF n = 0 THEN {}
     ELSE (IF s[1] = "-" THEN {Neg(t) : t \in Factors(Tail(s))} ELSE {})
          \cup (IF n > 2 /\ s[1] = "(" /\ s[n] = ")" THEN Expressions(SubSeq(s, 2, n - 1)) ELSE {})
          \cup (IF ToSet(s) \subseteq Digits \cup {"."} /\ IsNumber(s) THEN {Number(s)} ELSE {})
          \cup {Ref(r) : r \in Refs(s)}
          \cup UNION {{Span(a, b) : a \in Refs(Left(s, k)), b \in Refs(Right(s, k))} :
                      k \in Splits(s, {":"})}
          \cup UNION {{Call(Left(s, k), a) :
                         a \in IF k = n - 1 THEN {<<>>} ELSE ArgLists(SubSeq(s, k + 1, n - 1))} :
                      k \in {k \in Splits(s, {"("}) : s[n] = ")" /\ IsName(Left(s, k))}}

\* The trees of a text.
Trees(s) == IF Torn(Body(s)) THEN {} ELSE Expressions(Unspaced(Body(s)))

-----------------------------------------------------------------------------
(* Properties.                                                             *)

ParserTypeOK == text \in Texts \cup {<<>>}

\* The name of a function, with a digit in it, and its bracket.
HasNameWithDigits(s) ==
  \E j, k \in DOMAIN s :
    /\ j < k /\ IsName(SubSeq(s, j, k - 1)) /\ s[k] = "("
    /\ \E m \in j..(k - 1) : s[m] \in Digits

\* parseFormula returns the one tree the grammar of grammar.ts gives a text, and
\* throws on just the texts that have none: signs bind as they should and to the
\* left, whatever blanks, brackets and lists stand around them.  In this it departs
\* from the grammar: where the name of a function has digits it sees a reference,
\* and throws at the bracket, be it LOG10(1).
ParsedAsMeant ==
  parsed # Pending =>
    IF Trees(text) = {} \/ HasNameWithDigits(Unspaced(Body(text)))
    THEN parsed = Error ELSE Trees(text) = {parsed}

\* A column has one name and a name one column: registered cells are keyed by
\* the name, and read back through it.
ColumnsHaveNames ==
  /\ \A letters \in UNION {[1..n -> 1..26] : n \in 1..2} :
       ColToLetters(LettersToCol(letters)) = letters
  /\ \A col \in 0..(26 * 27 + 100) : LettersToCol(ColToLetters(col)) = col

ParserSound == ParsedAsMeant /\ ColumnsHaveNames
=============================================================================
