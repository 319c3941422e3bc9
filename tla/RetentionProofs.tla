---------------------------- MODULE RetentionProofs ----------------------------
(***************************************************************************)
(* Time travel for every window, any inputs, any values and any number of  *)
(* commits: the rows are those of the last ticks, and what they are asked  *)
(* for is what the graph held then.                                        *)
(***************************************************************************)
EXTENDS Retention, SequenceTheorems, TLAPS

Row == [time : Ticks, delta : Cells(Serialised)]

Shapes ==
  /\ tick \in Ticks /\ val \in Cells(Value) /\ registeredAt \in [Input -> Ticks]
  /\ rows \in Seq(Row)
  /\ past \in [0..tick -> Cells(Value)] /\ past[tick] = val

\* What the chain of row k tells of an input, if anything: the cell of the last
\* row up to k that mentions it.  (Mentions, Resolved without a maximum.)
Silent(r, k, i)  == \A j \in 1..k : i \notin DOMAIN r[j].delta
Says(r, k, i, v) == \E j \in 1..k : /\ i \in DOMAIN r[j].delta /\ v = r[j].delta[i]
                                    /\ \A m \in j + 1..k : i \notin DOMAIN r[m].delta

\* Each chain is silent about an input or says one thing of it.
Decided(r) == \A k \in 1..Len(r), i \in Input : Silent(r, k, i) \/ \E v : Says(r, k, i, v)

\* Of what could be kept, each chain says what the graph held at its row's tick.
Tells(r, k, cells) ==
  \A i \in DOMAIN cells : cells[i] \in Serialised => Says(r, k, i, cells[i])
ToldIn(r, p) == \A k \in 1..Len(r) : Tells(r, k, p[r[k].time])
PastTold     == ToldIn(rows, past)

\* An input that is registered was there at each tick since.
LivesRecorded == \A i \in Alive : \A u \in registeredAt[i]..tick : i \in DOMAIN past[u]

IInv == Shapes /\ WindowIsFull /\ Decided(rows) /\ PastTold /\ LivesRecorded

-----------------------------------------------------------------------------
(* Cells.                                                                  *)

LEMMA OverParts ==
  ASSUME NEW f, NEW g
  PROVE  /\ DOMAIN Over(f, g) = DOMAIN f \cup DOMAIN g
         /\ \A x \in DOMAIN f : Over(f, g)[x] = f[x]
         /\ \A x \in DOMAIN g \ DOMAIN f : Over(f, g)[x] = g[x]
  BY DEF Over

LEMMA OnlyParts ==
  ASSUME NEW x, NEW y PROVE DOMAIN Only(x, y) = {x} /\ Only(x, y)[x] = y
  BY DEF Only

LEMMA CellsParts ==
  ASSUME NEW S, NEW f \in Cells(S)
  PROVE  DOMAIN f \subseteq Input /\ f \in [DOMAIN f -> S] /\ \A i \in DOMAIN f : f[i] \in S
<1>1. PICK D \in SUBSET Input : f \in [D -> S]
  BY DEF Cells
<1> QED
  BY <1>1

LEMMA CellsWhole ==
  ASSUME NEW S, NEW D \in SUBSET Input, NEW f \in [D -> S] PROVE f \in Cells(S)
  BY DEF Cells

LEMMA OverCells ==
  ASSUME NEW S, NEW f \in Cells(S), NEW g \in Cells(S) PROVE Over(f, g) \in Cells(S)
<1> DEFINE D == DOMAIN f \cup DOMAIN g
<1>1. D \in SUBSET Input
  BY CellsParts
<1>2. Over(f, g) \in [D -> S]
  BY CellsParts DEF Over
<1> QED
  BY <1>1, <1>2, CellsWhole

LEMMA OnlyCells ==
  ASSUME NEW S, NEW i \in Input, NEW v \in S PROVE Only(i, v) \in Cells(S)
<1>1. {i} \in SUBSET Input /\ Only(i, v) \in [{i} -> S]
  BY DEF Only
<1> QED
  BY <1>1, CellsWhole

LEMMA DeltaCells ==
  ASSUME NEW w \in Cells(Value)
  PROVE  /\ Delta(w) \in Cells(Serialised)
         /\ DOMAIN Delta(w) = {i \in DOMAIN w : w[i] \in Serialised}
         /\ \A i \in DOMAIN Delta(w) : Delta(w)[i] = w[i]
<1> DEFINE D == {i \in DOMAIN w : w[i] \in Serialised}
<1>1. D \in SUBSET Input /\ Delta(w) \in [D -> Serialised]
  BY CellsParts DEF Delta
<1>2. Delta(w) \in Cells(Serialised)
  BY <1>1, CellsWhole
<1> QED
  BY <1>2 DEF Delta

-----------------------------------------------------------------------------
(* Chains.                                                                 *)

LEMMA RowsAt ==
  ASSUME NEW r \in Seq(Row), NEW k \in 1..Len(r)
  PROVE  r[k] \in Row /\ r[k].time \in Ticks /\ r[k].delta \in Cells(Serialised)
<1>1. r[k] \in Row
  OBVIOUS
<1> QED
  BY <1>1 DEF Row

\* A row that follows s.
Follows(s, r, x) ==
  Len(r) = Len(s) + 1 /\ r[Len(r)] = x /\ \A k \in 1..Len(s) : r[k] = s[k]

LEMMA AppendFollows ==
  ASSUME NEW s \in Seq(Row), NEW x \in Row
  PROVE  Append(s, x) \in Seq(Row) /\ Follows(s, Append(s, x), x)
  BY AppendProperties DEF Follows

LEMMA FollowsSays ==
  ASSUME NEW s \in Seq(Row), NEW r \in Seq(Row), NEW x, Follows(s, r, x),
         NEW k \in 1..Len(s), NEW i
  PROVE  /\ Silent(s, k, i) => Silent(r, k, i)
         /\ \A v : Says(s, k, i, v) => Says(r, k, i, v)
<1>1. \A j \in 1..k : r[j] = s[j]
  BY DEF Follows
<1> QED
  BY <1>1 DEF Silent, Says

LEMMA FollowerSays ==
  ASSUME NEW s \in Seq(Row), NEW r \in Seq(Row), NEW x, Follows(s, r, x), Len(s) > 0, NEW i
  PROVE  /\ i \in DOMAIN x.delta => Says(r, Len(r), i, x.delta[i])
         /\ i \notin DOMAIN x.delta /\ Silent(s, Len(s), i) => Silent(r, Len(r), i)
         /\ \A v : i \notin DOMAIN x.delta /\ Says(s, Len(s), i, v) => Says(r, Len(r), i, v)
<1>1. Len(r) = Len(s) + 1 /\ r[Len(r)] = x /\ \A j \in 1..Len(s) : r[j] = s[j]
  BY DEF Follows
<1>2. Len(s) \in Nat /\ Len(r) \in Nat
  OBVIOUS
<1>3. i \in DOMAIN x.delta => Says(r, Len(r), i, x.delta[i])
  BY <1>1, <1>2 DEF Says
<1>4. i \notin DOMAIN x.delta /\ Silent(s, Len(s), i) => Silent(r, Len(r), i)
  BY <1>1, <1>2 DEF Silent
<1>5. ASSUME NEW v, i \notin DOMAIN x.delta, Says(s, Len(s), i, v) PROVE Says(r, Len(r), i, v)
  <2>1. PICK j \in 1..Len(s) : /\ i \in DOMAIN s[j].delta /\ v = s[j].delta[i]
                               /\ \A m \in j + 1..Len(s) : i \notin DOMAIN s[m].delta
    BY <1>5 DEF Says
  <2>2. j \in 1..Len(r) /\ r[j] = s[j]
    BY <1>1, <1>2
  <2>3. \A m \in j + 1..Len(r) : i \notin DOMAIN r[m].delta
    BY <1>1, <1>2, <1>5, <2>1
  <2> QED
    BY <2>1, <2>2, <2>3 DEF Says
<1> QED
  BY <1>3, <1>4, <1>5

\* The two oldest rows are one.
Folds(r, f) ==
  /\ Len(f) = Len(r) - 1 /\ f[1] = Folded(r[1], r[2])
  /\ \A k \in 2..Len(f) : f[k] = r[k + 1]

LEMMA RestParts ==
  ASSUME NEW S, NEW s \in Seq(S), NEW n \in Nat, n = Len(s), n > 1
  PROVE  /\ SubSeq(s, 3, n) \in Seq(S) /\ Len(SubSeq(s, 3, n)) = n - 2
         /\ \A k \in 1..n - 2 : SubSeq(s, 3, n)[k] = s[k + 2]
<1>1. 3 \in Int /\ \A k \in 3..n : s[k] \in S
  OBVIOUS
<1>2. Len(SubSeq(s, 3, n)) = IF 3 <= n THEN n - 3 + 1 ELSE 0
  BY <1>1, SubSeqProperties
<1>3. SubSeq(s, 3, n) \in Seq(S)
  BY <1>1, SubSeqProperties
<1>4. \A k \in 1..n - 2 : SubSeq(s, 3, n)[k] = s[k + 2]
  OBVIOUS
<1> DEFINE rest == SubSeq(s, 3, n)
<1> HIDE DEF rest
<1>5. Len(rest) = n - 2
  BY <1>2 DEF rest
<1> QED
  BY <1>3, <1>4, <1>5 DEF rest

LEMMA EvictedFolds ==
  ASSUME NEW r \in Seq(Row), Len(r) > 0
  PROVE  /\ Evicted(r) \in Seq(Row)
         /\ IF Len(r) > Window /\ Len(r) > 1 THEN Folds(r, Evicted(r)) ELSE Evicted(r) = r
<1>1. CASE Len(r) > Window /\ Len(r) > 1
  <2> DEFINE root == Folded(r[1], r[2])
             rest == SubSeq(r, 3, Len(r))
  <2>1. r[1] \in Row /\ r[2] \in Row /\ Len(r) \in Nat
    BY <1>1, RowsAt
  <2>2. root \in Row
    BY <2>1, OverCells DEF Folded, Row
  <2>3. <<root>> \in Seq(Row) /\ Len(<<root>>) = 1 /\ <<root>>[1] = root
    BY <2>2
  <2>4. /\ rest \in Seq(Row) /\ Len(rest) = Len(r) - 2
        /\ \A k \in 1..Len(r) - 2 : rest[k] = r[k + 2]
    BY <1>1, <2>1, RestParts
  <2>5. Evicted(r) = <<root>> \o rest
    BY <1>1 DEF Evicted
  <2> HIDE DEF root, rest
  <2>6. /\ Evicted(r) \in Seq(Row) /\ Len(Evicted(r)) = 1 + Len(rest)
        /\ \A k \in 1..1 + Len(rest) :
             Evicted(r)[k] = IF k <= 1 THEN root ELSE rest[k - 1]
    BY <2>3, <2>4, <2>5, ConcatProperties
  <2>7. Len(Evicted(r)) = Len(r) - 1 /\ Evicted(r)[1] = root
    BY <1>1, <2>1, <2>4, <2>6
  <2>8. ASSUME NEW k \in 2..Len(Evicted(r)) PROVE Evicted(r)[k] = r[k + 1]
    <3>1. k \in 1..1 + Len(rest) /\ ~(k <= 1) /\ k - 1 \in 1..Len(r) - 2
      BY <2>1, <2>4, <2>7
    <3>2. (k - 1) + 2 = k + 1
      BY <2>1, <2>7
    <3> QED
      BY <2>4, <2>6, <3>1, <3>2
  <2> QED
    BY <1>1, <2>6, <2>7, <2>8 DEF Folds, root
<1>2. CASE ~(Len(r) > Window /\ Len(r) > 1)
  BY <1>2 DEF Evicted
<1> QED
  BY <1>1, <1>2

\* The chains over the new root say what they said.
LEMMA FoldsSays ==
  ASSUME NEW r \in Seq(Row), NEW f \in Seq(Row), Len(r) > 1, Folds(r, f),
         NEW k \in 2..Len(r), NEW i
  PROVE  /\ Silent(r, k, i) => Silent(f, k - 1, i)
         /\ \A v : Says(r, k, i, v) => Says(f, k - 1, i, v)
<1>1. Len(r) \in Nat /\ Len(f) = Len(r) - 1 /\ k \in Nat /\ k - 1 \in 1..Len(f)
  BY DEF Folds
<1>2. /\ f[1].delta = Over(r[2].delta, r[1].delta)
      /\ \A j \in 2..Len(f) : f[j] = r[j + 1]
  <2>1. r[2] \in Row
    BY <1>1, RowsAt
  <2> QED
    BY <2>1 DEF Folds, Folded, Row
<1>3. /\ DOMAIN f[1].delta = DOMAIN r[2].delta \cup DOMAIN r[1].delta
      /\ \A x \in DOMAIN r[2].delta : f[1].delta[x] = r[2].delta[x]
      /\ \A x \in DOMAIN r[1].delta \ DOMAIN r[2].delta : f[1].delta[x] = r[1].delta[x]
  <2> DEFINE root == Over(r[2].delta, r[1].delta)
  <2>1. /\ DOMAIN root = DOMAIN r[2].delta \cup DOMAIN r[1].delta
        /\ \A x \in DOMAIN r[2].delta : root[x] = r[2].delta[x]
        /\ \A x \in DOMAIN r[1].delta \ DOMAIN r[2].delta : root[x] = r[1].delta[x]
    BY OverParts, Zenon
  <2> HIDE DEF root
  <2>2. f[1].delta = root
    BY <1>2 DEF root
  <2> QED
    BY <2>1, <2>2
<1>4. ASSUME Silent(r, k, i) PROVE Silent(f, k - 1, i)
  <2> SUFFICES ASSUME NEW j \in 1..k - 1 PROVE i \notin DOMAIN f[j].delta
    BY DEF Silent
  <2>1. CASE j = 1
    BY <1>1, <1>3, <1>4, <2>1 DEF Silent
  <2>2. CASE j # 1
    <3>1. j \in 2..Len(f) /\ j + 1 \in 1..k
      BY <1>1, <2>2
    <3> QED
      BY <1>2, <1>4, <3>1 DEF Silent
  <2> QED
    BY <2>1, <2>2
<1>5. ASSUME NEW v, Says(r, k, i, v) PROVE Says(f, k - 1, i, v)
  <2>1. PICK j \in 1..k : /\ i \in DOMAIN r[j].delta /\ v = r[j].delta[i]
                          /\ \A m \in j + 1..k : i \notin DOMAIN r[m].delta
    BY <1>5 DEF Says
  <2>2. \A m \in 2..k - 1 : m + 1 > j => i \notin DOMAIN f[m].delta
    <3> SUFFICES ASSUME NEW m \in 2..k - 1, m + 1 > j PROVE i \notin DOMAIN f[m].delta
      OBVIOUS
    <3>1. m \in 2..Len(f) /\ m + 1 \in j + 1..k
      BY <1>1
    <3> QED
      BY <1>2, <2>1, <3>1
  <2>3. CASE j <= 2
    <3>1. 1 \in 1..k - 1 /\ i \in DOMAIN f[1].delta /\ v = f[1].delta[i]
      <4>1. j = 1 \/ j = 2
        BY <2>3
      <4>2. j = 1 => i \notin DOMAIN r[2].delta
        BY <1>1, <2>1
      <4> QED
        BY <1>1, <1>3, <2>1, <4>1, <4>2
    <3>2. \A m \in 1 + 1..k - 1 : i \notin DOMAIN f[m].delta
      BY <1>1, <2>2, <2>3
    <3> QED
      BY <3>1, <3>2 DEF Says
  <2>4. CASE j > 2
    <3>1. j - 1 \in 1..k - 1 /\ f[j - 1] = r[j]
      <4>1. j - 1 \in 2..Len(f) /\ (j - 1) + 1 = j
        BY <1>1, <2>4
      <4> QED
        BY <1>1, <1>2, <4>1
    <3>2. \A m \in (j - 1) + 1..k - 1 : i \notin DOMAIN f[m].delta
      BY <1>1, <2>2, <2>4
    <3> QED
      BY <2>1, <3>1, <3>2 DEF Says
  <2> QED
    BY <1>1, <2>3, <2>4
<1> QED
  BY <1>4, <1>5

-----------------------------------------------------------------------------
(* Initial states and steps.                                               *)

LEMMA InitHolds == RetentionInit => IInv
<1> SUFFICES ASSUME RetentionInit PROVE IInv
  OBVIOUS
<1>1. /\ NoCells \in Cells(Value) /\ NoCells \in Cells(Serialised)
      /\ DOMAIN NoCells = {}
  <2>1. /\ {} \in SUBSET Input /\ DOMAIN NoCells = {}
        /\ NoCells \in [{} -> Value] /\ NoCells \in [{} -> Serialised]
    BY DEF NoCells
  <2> QED
    BY <2>1, CellsWhole
<1>2. /\ rows = <<[time |-> 0, delta |-> NoCells]>> /\ Len(rows) = 1
      /\ rows[1].time = 0 /\ rows[1].delta = NoCells
  BY DEF RetentionInit
<1>3. Shapes
  BY <1>1, <1>2, MaxTickAssumption DEF RetentionInit, Shapes, Ticks, Row
<1>4. WindowIsFull
  BY <1>2, WindowAssumption DEF RetentionInit, WindowIsFull
<1>5. Decided(rows)
  BY <1>1, <1>2 DEF Decided, Silent
<1>6. PastTold /\ LivesRecorded
  BY <1>1, <1>2 DEF RetentionInit, PastTold, ToldIn, Tells, LivesRecorded, Alive
<1> QED
  BY <1>3, <1>4, <1>5, <1>6 DEF IInv

\* The window in numbers.
LEMMA WindowParts ==
  ASSUME IInv
  PROVE  /\ tick \in Nat /\ Len(rows) \in Nat /\ Len(rows) > 0 /\ Len(rows) <= tick + 1
         /\ Len(rows) <= Window /\ (Len(rows) < Window => Len(rows) = tick + 1)
         /\ \A k \in 1..Len(rows) : rows[k].time = tick - Len(rows) + k
  BY WindowAssumption, MaxTickAssumption DEF IInv, Shapes, WindowIsFull, Ticks

LEMMA WindowWhole ==
  ASSUME tick \in Nat, Len(rows) \in Nat, Len(rows) > 0, Len(rows) <= tick + 1,
         Len(rows) <= Window, Len(rows) < Window => Len(rows) = tick + 1,
         \A k \in 1..Len(rows) : rows[k].time = tick - Len(rows) + k
  PROVE  WindowIsFull
  BY WindowAssumption DEF WindowIsFull

LEMMA DisposeKeeps ==
  ASSUME IInv, NEW i \in Input, Dispose(i)
  PROVE  IInv'
<1>1. /\ val' = [k \in Alive \ {i} |-> val[k]] /\ UNCHANGED <<tick, rows>>
      /\ registeredAt' = [registeredAt EXCEPT ![i] = 0]
      /\ past' = [past EXCEPT ![tick] = val']
  BY DEF Dispose
<1>2. val' \in Cells(Value) /\ DOMAIN val' = Alive \ {i}
  <2>1. Alive \ {i} \in SUBSET Input /\ val' \in [Alive \ {i} -> Value]
    BY <1>1, CellsParts DEF IInv, Shapes, Alive
  <2> QED
    BY <1>1, <2>1, CellsWhole
<1>3. Shapes'
  BY <1>1, <1>2, MaxTickAssumption DEF IInv, Shapes, Ticks
<1>4. WindowIsFull' /\ Decided(rows)'
  <2>1. WindowIsFull /\ Decided(rows) /\ rows' = rows /\ tick' = tick
    BY <1>1 DEF IInv
  <2>2. WindowIsFull'
    BY <2>1 DEF WindowIsFull
  <2>3. Decided(rows')
    BY <2>1
  <2> QED
    BY <2>2, <2>3
<1>5. past[tick] = val /\ past'[tick] = val' /\ \A t \in 0..tick : t # tick => past'[t] = past[t]
  BY <1>1, <1>3 DEF IInv, Shapes, Ticks
<1>6. PastTold'
  <2> SUFFICES ASSUME NEW k \in 1..Len(rows) PROVE Tells(rows, k, past'[rows[k].time])
    BY <1>1 DEF PastTold, ToldIn
  <2>1. Tells(rows, k, past[rows[k].time]) /\ rows[k].time \in 0..tick
    BY WindowParts DEF IInv, PastTold, ToldIn
  <2>2. CASE rows[k].time = tick
    BY <1>1, <1>2, <1>5, <2>1, <2>2 DEF Tells, Alive
  <2>3. CASE rows[k].time # tick
    BY <1>5, <2>1, <2>3
  <2> QED
    BY <2>2, <2>3
<1>7. LivesRecorded'
  <2> SUFFICES ASSUME NEW j \in Alive \ {i}, NEW u \in registeredAt[j]..tick
               PROVE  j \in DOMAIN past'[u]
    BY <1>1, <1>2 DEF LivesRecorded, Alive, IInv, Shapes
  <2>1. j \in DOMAIN past[u] /\ u \in 0..tick
    BY CellsParts DEF IInv, Shapes, Ticks, LivesRecorded, Alive
  <2> QED
    BY <1>2, <1>5, <2>1
<1> QED
  BY <1>3, <1>4, <1>6, <1>7 DEF IInv

\* One cell more in the last row.
LEMMA SetSays ==
  ASSUME NEW r \in Seq(Row), NEW f \in Seq(Row), Len(f) = Len(r), Len(r) > 0,
         NEW i, NEW v,
         \A k \in 1..Len(r) - 1 : f[k] = r[k],
         f[Len(r)].delta = Over(Only(i, v), r[Len(r)].delta)
  PROVE  /\ Says(f, Len(r), i, v)
         /\ \A k \in 1..Len(r) : \A x :
              k < Len(r) \/ x # i =>
                /\ Silent(r, k, x) => Silent(f, k, x)
                /\ \A y : Says(r, k, x, y) => Says(f, k, x, y)
<1> DEFINE n == Len(r)
           set == Over(Only(i, v), r[n].delta)
<1>1. /\ DOMAIN set = {i} \cup DOMAIN r[n].delta /\ set[i] = v
      /\ \A x \in DOMAIN r[n].delta : x # i => set[x] = r[n].delta[x]
  <2> DEFINE one == Only(i, v)
             old == r[n].delta
  <2>1. DOMAIN one = {i} /\ one[i] = v
    BY OnlyParts
  <2>2. /\ DOMAIN set = DOMAIN one \cup DOMAIN old
        /\ \A x \in DOMAIN one : set[x] = one[x]
        /\ \A x \in DOMAIN old \ DOMAIN one : set[x] = old[x]
    BY OverParts, Zenon
  <2> HIDE DEF one, set
  <2> QED
    BY <2>1, <2>2
<1> HIDE DEF set
<1>2. n \in Nat /\ n > 0 /\ f[n].delta = set
  BY DEF set
<1>3. Says(f, n, i, v)
  BY <1>1, <1>2 DEF Says
<1>4. ASSUME NEW k \in 1..n, NEW x, k < n \/ x # i
      PROVE  \A j \in 1..k : /\ x \in DOMAIN r[j].delta <=> x \in DOMAIN f[j].delta
                             /\ x \in DOMAIN r[j].delta => f[j].delta[x] = r[j].delta[x]
  <2> SUFFICES ASSUME NEW j \in 1..k
               PROVE  /\ x \in DOMAIN r[j].delta <=> x \in DOMAIN f[j].delta
                      /\ x \in DOMAIN r[j].delta => f[j].delta[x] = r[j].delta[x]
    OBVIOUS
  <2>1. CASE j = n
    BY <1>1, <1>2, <1>4, <2>1
  <2>2. CASE j # n
    BY <1>2, <2>2
  <2> QED
    BY <2>1, <2>2
<1>5. ASSUME NEW k \in 1..n, NEW x, k < n \/ x # i
      PROVE  /\ Silent(r, k, x) => Silent(f, k, x)
             /\ \A y : Says(r, k, x, y) => Says(f, k, x, y)
  BY <1>2, <1>4, <1>5 DEF Silent, Says
<1> QED
  BY <1>3, <1>5

\* registration, in rows: what it writes and what it leaves.
LEMMA RegisterRows ==
  ASSUME IInv, NEW i \in Input, NEW v \in Value, Register(i, v)
  PROVE  /\ rows' \in Seq(Row) /\ Len(rows') = Len(rows)
         /\ \A k \in 1..Len(rows) : rows'[k].time = rows[k].time
         /\ v \in Serialised => Says(rows', Len(rows), i, v)
         /\ v \notin Serialised => rows' = rows
         /\ \A k \in 1..Len(rows) : \A x :
              k < Len(rows) \/ x # i =>
                /\ Silent(rows, k, x) => Silent(rows', k, x)
                /\ \A y : Says(rows, k, x, y) => Says(rows', k, x, y)
<1> DEFINE n == Len(rows)
<1>1. /\ n \in Nat /\ n > 0 /\ rows \in Seq(Row) /\ DOMAIN rows = 1..n
      /\ \A k \in 1..n : rows[k].time = tick <=> k = n
  BY WindowParts DEF IInv, Shapes
<1>0. n \in Nat /\ n > 0
  BY <1>1
<1> HIDE DEF n
<1>a. n \in 1..n /\ \A k \in 1..n : k = n \/ k \in 1..n - 1
  BY <1>0
<1> USE DEF n
<1>2. rows' = [k \in 1..n |->
         IF rows[k].time = tick /\ v \in Serialised
         THEN [rows[k] EXCEPT !.delta = Over(Only(i, v), @)] ELSE rows[k]]
  BY <1>1 DEF Register, SetInRowOfNow
<1>3. CASE v \in Serialised
  <2> DEFINE set == Over(Only(i, v), rows[n].delta)
  <2>0. \A k \in 1..n : rows[k] \in Row /\ rows[k].delta \in Cells(Serialised)
    BY <1>1, RowsAt, Zenon
  <2>1. set \in Cells(Serialised)
    <3>1. rows[n].delta \in Cells(Serialised) /\ Only(i, v) \in Cells(Serialised)
      BY <1>3, <1>a, <2>0, OnlyCells, Zenon
    <3> QED
      BY <3>1, OverCells
  <2> HIDE DEF set
  <2>2. rows[n] \in Row
    BY <1>a, <2>0, Zenon
  <2>3. rows'[n] = [rows[n] EXCEPT !.delta = set]
    BY <1>1, <1>2, <1>3 DEF set
  <2>4. rows'[n] \in Row /\ rows'[n].delta = set /\ rows'[n].time = rows[n].time
    BY <2>1, <2>2, <2>3 DEF Row
  <2>5. \A k \in 1..n - 1 : rows'[k] = rows[k]
    BY <1>1, <1>2
  <2>6. ASSUME NEW k \in 1..n PROVE rows'[k] \in Row
    <3>1. k = n \/ k \in 1..n - 1
      BY <1>a, Zenon
    <3>2. rows[k] \in Row
      BY <2>0, Zenon
    <3>3. k \in 1..n - 1 => rows'[k] = rows[k]
      BY <2>5, Zenon
    <3> QED
      BY <2>4, <3>1, <3>2, <3>3, Zenon
  <2>7. rows' \in Seq(Row) /\ Len(rows') = n
    <3>1. DOMAIN rows' = 1..n /\ rows' = [k \in 1..n |-> rows'[k]]
      BY <1>2
    <3> QED
      BY <1>1, <2>6, <3>1, SeqDef
  <2>8. rows'[Len(rows)].delta = Over(Only(i, v), rows[Len(rows)].delta)
    BY <2>4 DEF set
  <2>9. /\ Says(rows', n, i, v)
        /\ \A k \in 1..n : \A x :
             k < n \/ x # i =>
               /\ Silent(rows, k, x) => Silent(rows', k, x)
               /\ \A y : Says(rows, k, x, y) => Says(rows', k, x, y)
    <3>1. Len(rows) > 0 /\ \A k \in 1..Len(rows) - 1 : rows'[k] = rows[k]
      BY <1>1, <2>5
    <3>2. rows \in Seq(Row) /\ rows' \in Seq(Row) /\ Len(rows') = Len(rows)
      BY <1>1, <2>7
    <3> QED
      BY <2>8, <3>1, <3>2, SetSays, Zenon
  <2>10. \A k \in 1..n : rows'[k].time = rows[k].time
    BY <1>a, <2>4, <2>5, Zenon
  <2> QED
    BY <1>3, <2>7, <2>9, <2>10
<1>4. CASE v \notin Serialised
  <2>1. rows' = [k \in 1..n |-> rows[k]]
    BY <1>2, <1>4
  <2>2. rows' = rows
    BY <1>1, <2>1
  <2> QED
    BY <1>1, <1>4, <2>2
<1> QED
  BY <1>3, <1>4

LEMMA RegisterKeeps ==
  ASSUME IInv, NEW i \in Input, NEW v \in Value, Register(i, v)
  PROVE  IInv'
<1> DEFINE n == Len(rows)
<1>1. /\ i \notin Alive /\ val' = Over(Only(i, v), val) /\ tick' = tick
      /\ registeredAt' = [registeredAt EXCEPT ![i] = tick]
      /\ past' = [past EXCEPT ![tick] = val']
  BY DEF Register
<1>2. /\ val' \in Cells(Value) /\ DOMAIN val' = Alive \cup {i} /\ val'[i] = v
      /\ \A x \in Alive : val'[x] = val[x]
  <2> DEFINE one == Only(i, v)
             both == Over(one, val)
  <2>1. DOMAIN one = {i} /\ one[i] = v /\ one \in Cells(Value) /\ val \in Cells(Value)
    BY OnlyParts, OnlyCells DEF IInv, Shapes
  <2>2. /\ DOMAIN both = DOMAIN one \cup DOMAIN val
        /\ \A x \in DOMAIN one : both[x] = one[x]
        /\ \A x \in DOMAIN val \ DOMAIN one : both[x] = val[x]
    BY OverParts, Zenon
  <2>3. both \in Cells(Value)
    BY <2>1, OverCells
  <2>4. val' = both
    BY <1>1
  <2> HIDE DEF one, both
  <2> QED
    BY <1>1, <2>1, <2>2, <2>3, <2>4 DEF Alive
<1>3. /\ rows' \in Seq(Row) /\ Len(rows') = n
      /\ \A k \in 1..n : rows'[k].time = rows[k].time
      /\ v \in Serialised => Says(rows', n, i, v)
      /\ \A k \in 1..n : \A x :
           k < n \/ x # i =>
             /\ Silent(rows, k, x) => Silent(rows', k, x)
             /\ \A y : Says(rows, k, x, y) => Says(rows', k, x, y)
  BY RegisterRows, Zenon
<1>a. v \notin Serialised => rows' = rows
  BY RegisterRows, Zenon
<1>4. Shapes'
  <2>1. tick' \in Ticks /\ registeredAt' \in [Input -> Ticks]
    BY <1>1 DEF IInv, Shapes
  <2>2. past' \in [0..tick' -> Cells(Value)] /\ past'[tick'] = val'
    BY <1>1, <1>2, MaxTickAssumption DEF IInv, Shapes, Ticks
  <2> QED
    BY <1>2, <1>3, <2>1, <2>2 DEF Shapes
<1>5. WindowIsFull'
  <2>1. WindowIsFull
    BY DEF IInv
  <2> QED
    BY <1>1, <1>3, <2>1, WindowAssumption, WindowParts DEF WindowIsFull
<1>6. /\ \A k \in 1..n : rows[k].time \in 0..tick /\ (rows[k].time = tick <=> k = n)
      /\ n \in Nat /\ n > 0
  BY WindowParts
<1>7. past[tick] = val /\ past'[tick] = val' /\ \A t \in 0..tick : t # tick => past'[t] = past[t]
  BY <1>1, <1>2, MaxTickAssumption DEF IInv, Shapes, Ticks
<1>8. Decided(rows')
  <2> SUFFICES ASSUME NEW k \in 1..n, NEW x \in Input
               PROVE  Silent(rows', k, x) \/ \E y : Says(rows', k, x, y)
    BY <1>3 DEF Decided
  <2>1. Silent(rows, k, x) \/ \E y : Says(rows, k, x, y)
    BY DEF IInv, Decided
  <2>2. CASE k < n \/ x # i
    BY <1>3, <2>1, <2>2, Zenon
  <2>3. CASE ~(k < n \/ x # i)
    <3>1. k = n /\ x = i
      BY <1>6, <2>3
    <3>2. CASE v \in Serialised
      BY <1>3, <3>1, <3>2, Zenon
    <3>3. CASE v \notin Serialised
      BY <1>a, <2>1, <3>3, Zenon
    <3> QED
      BY <3>2, <3>3
  <2> QED
    BY <2>2, <2>3
<1>9. ToldIn(rows', past')
  <2> SUFFICES ASSUME NEW k \in 1..n PROVE Tells(rows', k, past'[rows[k].time])
    BY <1>3 DEF ToldIn
  <2>1. Tells(rows, k, past[rows[k].time])
    BY DEF IInv, PastTold, ToldIn
  <2>2. CASE k = n
    <3>1. rows[k].time = tick /\ Tells(rows, n, val)
      BY <1>6, <1>7, <2>1, <2>2
    <3>2. ASSUME NEW x \in DOMAIN val', val'[x] \in Serialised PROVE Says(rows', n, x, val'[x])
      <4>1. CASE x = i
        BY <1>2, <1>3, <3>2, <4>1
      <4>2. CASE x # i
        <5>1. x \in Alive /\ val'[x] = val[x]
          BY <1>2, <4>2
        <5>2. Says(rows, n, x, val[x])
          BY <3>1, <3>2, <5>1 DEF Tells, Alive
        <5> QED
          BY <1>3, <2>2, <4>2, <5>1, <5>2, Zenon
      <4> QED
        BY <4>1, <4>2
    <3> QED
      BY <1>7, <2>2, <3>1, <3>2 DEF Tells
  <2>3. CASE k # n
    <3>1. past'[rows[k].time] = past[rows[k].time] /\ k < n
      BY <1>6, <1>7, <2>3
    <3>2. \A x : \A y : Says(rows, k, x, y) => Says(rows', k, x, y)
      BY <1>3, <3>1, Zenon
    <3> QED
      BY <2>1, <3>1, <3>2 DEF Tells
  <2> QED
    BY <2>2, <2>3
<1>10. LivesRecorded'
  <2> SUFFICES ASSUME NEW j \in Alive \cup {i}, NEW u \in registeredAt'[j]..tick
               PROVE  j \in DOMAIN past'[u]
    BY <1>1, <1>2 DEF LivesRecorded, Alive
  <2>1. Alive \cup {i} \subseteq Input
    BY CellsParts DEF IInv, Shapes, Alive
  <2>2. CASE j = i
    <3>1. u = tick
      BY <1>1, <2>1, <2>2, MaxTickAssumption DEF IInv, Shapes, Ticks
    <3> QED
      BY <1>2, <1>7, <2>2, <3>1
  <2>3. CASE j # i
    <3>1. j \in Alive /\ u \in registeredAt[j]..tick /\ u \in 0..tick
      BY <1>1, <2>1, <2>3, MaxTickAssumption DEF IInv, Shapes, Ticks
    <3>2. j \in DOMAIN past[u]
      BY <3>1 DEF IInv, LivesRecorded
    <3> QED
      BY <1>2, <1>7, <3>1, <3>2
  <2> QED
    BY <2>2, <2>3
<1>11. Decided(rows)' /\ PastTold'
  BY <1>8, <1>9 DEF PastTold
<1> QED
  BY <1>4, <1>5, <1>10, <1>11 DEF IInv

\* The row a commit pushes.
Pushed(w) == [time |-> tick + 1, delta |-> Delta(w)]

\* The chain of the pushed row says what the frame wrote, and for the rest what
\* the chain before it said.
LEMMA CommitPushes ==
  ASSUME IInv, NEW w \in Cells(Value), Commit(w)
  PROVE  /\ Append(rows, Pushed(w)) \in Seq(Row)
         /\ Follows(rows, Append(rows, Pushed(w)), Pushed(w))
         /\ Decided(Append(rows, Pushed(w)))
         /\ ToldIn(Append(rows, Pushed(w)), past')
<1> DEFINE n == Len(rows)
           x == Pushed(w)
           r == Append(rows, x)
<1>1. /\ tick < MaxTick /\ val' = Over(w, val) /\ past' = Over(past, Only(tick + 1, val'))
      /\ tick' = tick + 1
  BY DEF Commit
<1>2. n \in Nat /\ n > 0 /\ rows \in Seq(Row) /\ tick \in Nat
  BY WindowParts DEF IInv, Shapes
<1>3. \A k \in 1..n : rows[k].time \in 0..tick /\ (k = n => rows[k].time = tick)
  BY WindowParts
<1>4. x \in Row /\ x.time = tick + 1 /\ x.delta = Delta(w)
  <2>1. tick + 1 \in Ticks
    BY <1>1, <1>2, MaxTickAssumption DEF Ticks
  <2> QED
    BY <2>1, DeltaCells DEF Row, Pushed
<1> HIDE DEF x
<1>5. r \in Seq(Row) /\ Follows(rows, r, x)
  BY <1>2, <1>4, AppendFollows
<1> HIDE DEF r
<1>6. Len(r) = n + 1 /\ r[n + 1] = x /\ \A k \in 1..n : r[k] = rows[k]
  BY <1>5 DEF Follows
<1>7. ASSUME NEW k \in 1..n, NEW i
      PROVE  /\ Silent(rows, k, i) => Silent(r, k, i)
             /\ \A y : Says(rows, k, i, y) => Says(r, k, i, y)
  BY <1>2, <1>5, FollowsSays
<1>8. ASSUME NEW i
      PROVE  /\ i \in DOMAIN Delta(w) => Says(r, n + 1, i, Delta(w)[i])
             /\ i \notin DOMAIN Delta(w) /\ Silent(rows, n, i) => Silent(r, n + 1, i)
             /\ \A y : i \notin DOMAIN Delta(w) /\ Says(rows, n, i, y) => Says(r, n + 1, i, y)
  BY <1>2, <1>4, <1>5, <1>6, FollowerSays
<1>9. n \in 1..n /\ \A k \in 1..n + 1 : k = n + 1 \/ k \in 1..n
  <2> HIDE DEF n
  <2> QED
    BY <1>2
<1>10. Decided(r)
  <2> SUFFICES ASSUME NEW k \in 1..n + 1, NEW i \in Input
               PROVE  Silent(r, k, i) \/ \E y : Says(r, k, i, y)
    BY <1>6 DEF Decided
  <2>1. \A l \in 1..n : Silent(rows, l, i) \/ \E y : Says(rows, l, i, y)
    BY DEF IInv, Decided
  <2>2. CASE k = n + 1
    BY <1>8, <1>9, <2>1, <2>2, Zenon
  <2>3. CASE k \in 1..n
    BY <1>7, <2>1, <2>3, Zenon
  <2> QED
    BY <1>9, <2>2, <2>3, Zenon
<1>11. /\ past'[tick + 1] = val' /\ past[tick] = val
       /\ \A t \in 0..tick : past'[t] = past[t]
  <2>1. DOMAIN past = 0..tick /\ past[tick] = val
    BY DEF IInv, Shapes
  <2> DEFINE one == Only(tick + 1, val')
             both == Over(past, one)
  <2>2. DOMAIN one = {tick + 1} /\ one[tick + 1] = val'
    BY OnlyParts
  <2>3. /\ \A t \in DOMAIN past : both[t] = past[t]
        /\ \A t \in DOMAIN one \ DOMAIN past : both[t] = one[t]
    BY OverParts, Zenon
  <2>4. past' = both
    BY <1>1
  <2> HIDE DEF one, both
  <2> QED
    BY <1>2, <2>1, <2>2, <2>3, <2>4
<1>12. /\ DOMAIN val' = DOMAIN w \cup DOMAIN val
       /\ \A i \in DOMAIN w : val'[i] = w[i]
       /\ \A i \in DOMAIN val \ DOMAIN w : val'[i] = val[i]
  <2> DEFINE both == Over(w, val)
  <2>1. /\ DOMAIN both = DOMAIN w \cup DOMAIN val
        /\ \A i \in DOMAIN w : both[i] = w[i]
        /\ \A i \in DOMAIN val \ DOMAIN w : both[i] = val[i]
    BY OverParts, Zenon
  <2>2. val' = both
    BY <1>1
  <2> HIDE DEF both
  <2> QED
    BY <2>1, <2>2
<1>13. \A k \in 1..n : Tells(rows, k, past[rows[k].time])
  BY DEF IInv, PastTold, ToldIn
<1>14. Tells(r, n + 1, val')
  <2> SUFFICES ASSUME NEW i \in DOMAIN val', val'[i] \in Serialised
               PROVE  Says(r, n + 1, i, val'[i])
    BY DEF Tells
  <2>1. DOMAIN Delta(w) = {j \in DOMAIN w : w[j] \in Serialised}
    BY DeltaCells
  <2>2. \A j \in DOMAIN Delta(w) : Delta(w)[j] = w[j]
    BY DeltaCells
  <2>3. CASE i \in DOMAIN w
    BY <1>8, <1>12, <2>1, <2>2, <2>3
  <2>4. CASE i \notin DOMAIN w
    <3>1. i \in DOMAIN val /\ val'[i] = val[i] /\ i \notin DOMAIN Delta(w)
      BY <1>12, <2>1, <2>4
    <3>2. Tells(rows, n, val)
      BY <1>3, <1>9, <1>11, <1>13
    <3>3. Says(rows, n, i, val[i])
      BY <3>1, <3>2 DEF Tells
    <3> QED
      BY <1>8, <3>1, <3>3
  <2> QED
    BY <2>3, <2>4
<1>15. ToldIn(r, past')
  <2> SUFFICES ASSUME NEW k \in 1..n + 1 PROVE Tells(r, k, past'[r[k].time])
    BY <1>6 DEF ToldIn
  <2>1. CASE k = n + 1
    BY <1>4, <1>6, <1>11, <1>14, <2>1
  <2>2. CASE k \in 1..n
    <3>1. r[k].time = rows[k].time /\ past'[rows[k].time] = past[rows[k].time]
      BY <1>3, <1>6, <1>11, <2>2
    <3>2. Tells(rows, k, past[rows[k].time])
      BY <1>13, <2>2
    <3> QED
      BY <1>7, <2>2, <3>1, <3>2 DEF Tells
  <2> QED
    BY <1>9, <2>1, <2>2, Zenon
<1> QED
  BY <1>5, <1>10, <1>15 DEF r, x

\* Eviction loses nothing of the rows it leaves.
LEMMA EvictedTells ==
  ASSUME NEW r \in Seq(Row), Len(r) > 0, Decided(r), NEW p, ToldIn(r, p)
  PROVE  Decided(Evicted(r)) /\ ToldIn(Evicted(r), p)
<1>1. CASE Len(r) > Window /\ Len(r) > 1
  <2> DEFINE f == Evicted(r)
  <2>1. f \in Seq(Row) /\ Folds(r, f)
    BY <1>1, EvictedFolds
  <2> HIDE DEF f
  <2>2. Len(r) \in Nat /\ Len(f) = Len(r) - 1
    BY <2>1 DEF Folds
  <2>3. ASSUME NEW k \in 1..Len(f)
        PROVE  k + 1 \in 2..Len(r) /\ k + 1 \in 1..Len(r) /\ (k + 1) - 1 = k
    BY <2>2
  <2>4. ASSUME NEW k \in 1..Len(f), NEW i
        PROVE  /\ Silent(r, k + 1, i) => Silent(f, k, i)
               /\ \A y : Says(r, k + 1, i, y) => Says(f, k, i, y)
    BY <1>1, <2>1, <2>3, FoldsSays
  <2>5. Decided(f)
    BY <2>3, <2>4 DEF Decided
  <2>6. ASSUME NEW k \in 1..Len(f) PROVE f[k].time = r[k + 1].time
    <3>1. CASE k = 1
      <4>1. r[2] \in Row /\ f[1] = Folded(r[1], r[2])
        BY <2>1, <2>3, <3>1, RowsAt DEF Folds
      <4> QED
        BY <3>1, <4>1 DEF Folded, Row
    <3>2. CASE k # 1
      BY <2>1, <2>2, <3>2 DEF Folds
    <3> QED
      BY <3>1, <3>2
  <2>7. ToldIn(f, p)
    BY <2>3, <2>4, <2>6 DEF ToldIn, Tells
  <2> QED
    BY <2>5, <2>7 DEF f
<1>2. CASE ~(Len(r) > Window /\ Len(r) > 1)
  BY <1>2, EvictedFolds
<1> QED
  BY <1>1, <1>2

\* The rows of a commit, in numbers.
LEMMA CommitRows ==
  ASSUME IInv, NEW w \in Cells(Value), Commit(w)
  PROVE  LET n == Len(rows)
             r == Append(rows, Pushed(w))
         IN /\ rows' = Evicted(r) /\ rows' \in Seq(Row)
            /\ r \in Seq(Row) /\ Len(r) = n + 1 /\ \A k \in 1..n : r[k] = rows[k]
            /\ \A k \in 1..n + 1 : r[k].time = tick - n + k
            /\ IF n = Window
               THEN Folds(r, rows') /\ Len(rows') = n
                    /\ \A k \in 1..n : rows'[k].time = r[k + 1].time
               ELSE rows' = r
<1> DEFINE n == Len(rows)
           r == Append(rows, Pushed(w))
<1>1. rows' = Evicted(r)
  BY DEF Commit, Pushed
<1>2. r \in Seq(Row) /\ Follows(rows, r, Pushed(w))
  BY CommitPushes
<1>3. Len(r) = n + 1 /\ r[n + 1] = Pushed(w) /\ \A k \in 1..n : r[k] = rows[k]
  BY <1>2 DEF Follows
<1> HIDE DEF r
<1>4. /\ n \in Nat /\ n > 0 /\ tick \in Nat /\ n <= Window /\ Window \in Nat
      /\ \A k \in 1..n : rows[k].time = tick - n + k
  BY WindowParts, WindowAssumption
<1>5. /\ Evicted(r) \in Seq(Row)
      /\ IF Len(r) > Window /\ Len(r) > 1 THEN Folds(r, Evicted(r)) ELSE Evicted(r) = r
  <2>1. Len(r) > 0
    BY <1>3, <1>4
  <2> QED
    BY <1>2, <2>1, EvictedFolds
<1>6. ASSUME NEW k \in 1..n + 1 PROVE r[k].time = tick - n + k
  <2>1. CASE k = n + 1
    BY <1>3, <1>4, <2>1 DEF Pushed
  <2>2. CASE k # n + 1
    <3>1. k \in 1..n
      BY <1>4, <2>2
    <3> QED
      BY <1>3, <1>4, <3>1
  <2> QED
    BY <2>1, <2>2
<1>7. CASE n = Window
  <2>1. Folds(r, rows')
    BY <1>1, <1>3, <1>4, <1>5, <1>7
  <2>2. Len(rows') = n
    BY <1>3, <1>4, <2>1 DEF Folds
  <2>3. ASSUME NEW k \in 1..n PROVE rows'[k].time = r[k + 1].time
    <3>1. CASE k = 1
      <4>1. 2 \in 1..Len(r)
        BY <1>3, <1>4
      <4>2. r[2] \in Row /\ rows'[1] = Folded(r[1], r[2])
        BY <1>2, <2>1, <4>1, RowsAt DEF Folds
      <4> QED
        BY <3>1, <4>2 DEF Folded, Row
    <3>2. CASE k # 1
      <4>1. k \in 2..Len(rows')
        BY <1>4, <2>2, <3>2
      <4> QED
        BY <2>1, <4>1 DEF Folds
    <3> QED
      BY <3>1, <3>2
  <2> QED
    BY <1>1, <1>2, <1>3, <1>5, <1>6, <1>7, <2>1, <2>2, <2>3 DEF r
<1>8. CASE n # Window
  <2>1. rows' = r
    BY <1>1, <1>3, <1>4, <1>5, <1>8
  <2> QED
    BY <1>1, <1>2, <1>3, <1>5, <1>6, <1>8, <2>1 DEF r
<1> QED
  BY <1>7, <1>8

LEMMA CommitKeeps ==
  ASSUME IInv, NEW w \in Cells(Value), Commit(w)
  PROVE  IInv'
<1> DEFINE n == Len(rows)
           r == Append(rows, Pushed(w))
<1>1. /\ tick < MaxTick /\ val' = Over(w, val) /\ past' = Over(past, Only(tick + 1, val'))
      /\ tick' = tick + 1 /\ registeredAt' = registeredAt /\ DOMAIN w \subseteq Alive
  BY DEF Commit
<1>2. /\ r \in Seq(Row) /\ Len(r) = n + 1 /\ rows' = Evicted(r) /\ rows' \in Seq(Row)
      /\ \A k \in 1..n + 1 : r[k].time = tick - n + k
      /\ IF n = Window
         THEN Len(rows') = n /\ \A k \in 1..n : rows'[k].time = r[k + 1].time
         ELSE rows' = r
  BY CommitRows
<1>3. Decided(r) /\ ToldIn(r, past')
  BY CommitPushes
<1> HIDE DEF r
<1>4. /\ n \in Nat /\ n > 0 /\ n <= tick + 1 /\ n <= Window /\ (n < Window => n = tick + 1)
      /\ tick \in Nat /\ Window \in Nat
  BY WindowParts, WindowAssumption
<1>5. Decided(rows') /\ ToldIn(rows', past')
  <2>1. Len(r) > 0
    BY <1>2, <1>4
  <2> QED
    BY <1>2, <1>3, <2>1, EvictedTells
<1>6. val' \in Cells(Value) /\ DOMAIN val' = Alive
  <2>1. w \in Cells(Value) /\ val \in Cells(Value)
    BY DEF IInv, Shapes
  <2>2. DOMAIN Over(w, val) = DOMAIN w \cup DOMAIN val
    BY OverParts, Zenon
  <2> QED
    BY <1>1, <2>1, <2>2, OverCells DEF Alive
<1>7. /\ past' \in [0..tick + 1 -> Cells(Value)] /\ past'[tick + 1] = val'
      /\ \A t \in 0..tick : past'[t] = past[t]
  <2>1. past \in [0..tick -> Cells(Value)]
    BY DEF IInv, Shapes
  <2>2. past' = [t \in (0..tick) \cup {tick + 1} |-> IF t \in 0..tick THEN past[t] ELSE val']
    BY <1>1, <2>1 DEF Over, Only
  <2>3. (0..tick) \cup {tick + 1} = 0..tick + 1 /\ tick + 1 \notin 0..tick
    BY <1>4
  <2>4. past' = [t \in 0..tick + 1 |-> IF t \in 0..tick THEN past[t] ELSE val']
    BY <2>2, <2>3, Zenon
  <2> QED
    BY <1>4, <1>6, <2>1, <2>3, <2>4
<1>8. Shapes'
  <2>1. tick' \in Ticks /\ registeredAt' \in [Input -> Ticks]
    BY <1>1, <1>4, MaxTickAssumption DEF IInv, Shapes, Ticks
  <2> QED
    BY <1>1, <1>2, <1>6, <1>7, <2>1 DEF Shapes
<1>9. WindowIsFull'
  <2>1. \A k \in 1..n : k + 1 \in 1..n + 1
    BY <1>4
  <2>2. CASE n = Window
    <3>1. Len(rows') = n /\ \A k \in 1..n : rows'[k].time = tick - n + (k + 1)
      BY <1>2, <2>1, <2>2
    <3>2. \A k \in 1..n : rows'[k].time = tick' - n + k
      BY <1>1, <1>4, <3>1
    <3>3. (IF tick' + 1 < Window THEN tick' + 1 ELSE Window) = n
      BY <1>1, <1>4, <2>2
    <3> QED
      BY <3>1, <3>2, <3>3 DEF WindowIsFull
  <2>3. CASE n # Window
    BY <1>1, <1>2, <1>4, <2>3 DEF WindowIsFull
  <2> QED
    BY <2>2, <2>3
<1>10. LivesRecorded'
  <2> SUFFICES ASSUME NEW j \in Alive, NEW u \in registeredAt[j]..tick + 1
               PROVE  j \in DOMAIN past'[u]
    BY <1>1, <1>6 DEF LivesRecorded, Alive
  <2>1. j \in Input
    BY CellsParts DEF IInv, Shapes, Alive
  <2>2. registeredAt[j] \in Nat
    BY <2>1, MaxTickAssumption DEF IInv, Shapes, Ticks
  <2>3. CASE u = tick + 1
    BY <1>6, <1>7, <2>3
  <2>4. CASE u # tick + 1
    <3>1. u \in registeredAt[j]..tick /\ u \in 0..tick
      BY <1>4, <2>2, <2>4
    <3>2. j \in DOMAIN past[u]
      BY <3>1 DEF IInv, LivesRecorded
    <3> QED
      BY <1>7, <3>1, <3>2
  <2> QED
    BY <2>3, <2>4
<1>11. Decided(rows)' /\ PastTold'
  BY <1>5 DEF PastTold
<1> QED
  BY <1>8, <1>9, <1>10, <1>11 DEF IInv

LEMMA StepKeeps == IInv /\ [RetentionNext]_retentionVars => IInv'
<1> SUFFICES ASSUME IInv, [RetentionNext]_retentionVars PROVE IInv'
  OBVIOUS
<1>1. CASE RetentionNext
  <2>1. ASSUME NEW i \in Input, Dispose(i) PROVE IInv'
    BY <2>1, DisposeKeeps
  <2>2. ASSUME NEW i \in Input, NEW v \in Value, Register(i, v) PROVE IInv'
    BY <2>2, RegisterKeeps
  <2>3. ASSUME NEW w \in Cells(Value), Commit(w) PROVE IInv'
    BY <2>3, CommitKeeps
  <2> QED
    BY <1>1, <2>1, <2>2, <2>3 DEF RetentionNext
<1>2. CASE UNCHANGED retentionVars
  <2>1. UNCHANGED <<tick, val, registeredAt, rows, past>>
    BY <1>2 DEF retentionVars
  <2>2. Shapes' /\ WindowIsFull' /\ LivesRecorded'
    BY <2>1 DEF IInv, Shapes, WindowIsFull, LivesRecorded, Alive
  <2>3. Decided(rows') /\ ToldIn(rows', past')
    BY <2>1 DEF IInv, PastTold
  <2>4. Decided(rows)' /\ PastTold'
    BY <2>3 DEF PastTold
  <2> QED
    BY <2>2, <2>4 DEF IInv
<1> QED
  BY <1>1, <1>2

-----------------------------------------------------------------------------
(* The reads.                                                              *)

LEMMA MaxIs ==
  ASSUME NEW S, NEW j \in S, \A m \in S : m \in Int /\ j >= m PROVE Max(S) = j
<1>1. \E x \in S : \A y \in S : x >= y
  OBVIOUS
<1>2. Max(S) \in S /\ \A y \in S : Max(S) >= y
  BY <1>1, Zenon DEF Max
<1> HIDE DEF Max
<1>3. Max(S) >= j /\ j >= Max(S) /\ j \in Int /\ Max(S) \in Int
  BY <1>2
<1> QED
  BY <1>3

\* Mentions and RowAt, of any rows.
MentionsIn(r, k, i) == {j \in 1..k : i \in DOMAIN r[j].delta}
RowsUpTo(r, t)      == {k \in DOMAIN r : r[k].time <= t}

\* What the chain says is what resolveRetained answers.
LEMMA Answer ==
  ASSUME NEW r, NEW k \in Nat, NEW i, NEW v, Says(r, k, i, v)
  PROVE  MentionsIn(r, k, i) # {} /\ r[Max(MentionsIn(r, k, i))].delta[i] = v
<1> DEFINE S == MentionsIn(r, k, i)
<1>1. PICK j \in 1..k : /\ i \in DOMAIN r[j].delta /\ v = r[j].delta[i]
                        /\ \A m \in j + 1..k : i \notin DOMAIN r[m].delta
  BY DEF Says
<1>2. j \in S
  BY <1>1 DEF MentionsIn
<1>3. ASSUME NEW m \in S PROVE m \in Int /\ j >= m
  <2>1. m \in 1..k /\ i \in DOMAIN r[m].delta
    BY DEF MentionsIn
  <2>2. ~(m > j)
    BY <1>1, <2>1
  <2> QED
    BY <2>1, <2>2
<1> HIDE DEF S
<1>4. Max(S) = j
  BY <1>2, <1>3, MaxIs
<1> QED
  BY <1>1, <1>2, <1>4 DEF S

\* A window of n rows that ends now, and the row of one of its ticks.
IsWindow(r, n, now) ==
  /\ n \in Nat /\ n > 0 /\ DOMAIN r = 1..n /\ now \in Nat
  /\ \A k \in 1..n : r[k].time = now - n + k

LEMMA RowIs ==
  ASSUME NEW r, NEW n, NEW now, IsWindow(r, n, now), NEW t \in r[1].time..now
  PROVE  /\ Max(RowsUpTo(r, t)) = t - now + n /\ Max(RowsUpTo(r, t)) \in 1..n
         /\ r[Max(RowsUpTo(r, t))].time = t
<1> DEFINE S == RowsUpTo(r, t)
           o == t - now + n
<1>0. /\ n \in Nat /\ n > 0 /\ DOMAIN r = 1..n /\ now \in Nat
      /\ \A k \in 1..n : r[k].time = now - n + k
  BY DEF IsWindow
<1>1. r[1].time = now - n + 1 /\ t \in Int /\ t <= now /\ t >= now - n + 1
  <2>1. 1 \in 1..n /\ r[1].time = now - n + 1
    BY <1>0
  <2> QED
    BY <1>0, <2>1
<1>2. o \in 1..n /\ r[o].time = t
  BY <1>0, <1>1
<1>3. o \in S /\ o \in Int
  BY <1>0, <1>2 DEF RowsUpTo
<1>4. ASSUME NEW k \in S PROVE k \in Int /\ o >= k
  BY <1>0, <1>1 DEF RowsUpTo
<1> HIDE DEF S, o
<1>5. Max(S) = o
  BY <1>3, <1>4, MaxIs
<1> QED
  BY <1>2, <1>5 DEF S, o

LEMMA RowOfTick ==
  ASSUME IInv, NEW t \in Oldest..tick
  PROVE  /\ RowAt(t) = t - tick + Len(rows) /\ RowAt(t) \in 1..Len(rows)
         /\ rows[RowAt(t)].time = t
<1> DEFINE n == Len(rows)
<1>1. /\ tick \in Nat /\ n \in Nat /\ n > 0 /\ \A k \in 1..n : rows[k].time = tick - n + k
      /\ DOMAIN rows = 1..n
  BY WindowParts DEF IInv, Shapes
<1> HIDE DEF n
<1>2. /\ RowAt(t) = t - tick + n /\ RowAt(t) \in 1..n /\ rows[RowAt(t)].time = t
  <2>1. t \in rows[1].time..tick
    BY DEF Oldest
  <2> QED
    <3>1. RowAt(t) = Max(RowsUpTo(rows, t))
      BY DEF RowAt, RowsUpTo
    <3>2. IsWindow(rows, n, tick)
      BY <1>1 DEF IsWindow
    <3> QED
      BY <2>1, <3>1, <3>2, RowIs
<1> QED
  BY <1>2 DEF n

\* What was there at a tick of the window is read there.
LEMMA PastIsRead ==
  ASSUME IInv, NEW t \in Oldest..tick, NEW i \in DOMAIN past[t], past[t][i] \in Serialised
  PROVE  /\ i \in Input /\ t \in 0..tick
         /\ Mentions(RowAt(t), i) # {} /\ Resolved(RowAt(t), i) = past[t][i]
<1>1. RowAt(t) \in 1..Len(rows) /\ RowAt(t) \in Nat /\ rows[RowAt(t)].time = t
  BY RowOfTick
<1>2. Tells(rows, RowAt(t), past[t])
  BY <1>1 DEF IInv, PastTold, ToldIn
<1>3. Says(rows, RowAt(t), i, past[t][i])
  BY <1>2 DEF Tells
<1>4. t \in 0..tick
  BY <1>1, WindowParts
<1>5. i \in Input
  BY <1>4, CellsParts DEF IInv, Shapes
<1>6. Mentions(RowAt(t), i) # {} /\ Resolved(RowAt(t), i) = past[t][i]
  <2>1. Mentions(RowAt(t), i) = MentionsIn(rows, RowAt(t), i)
    BY DEF Mentions, MentionsIn
  <2> QED
    BY <1>1, <1>3, <2>1, Answer DEF Resolved
<1> QED
  BY <1>4, <1>5, <1>6

\* A tick at which a node is asked is one of the window, and of the node's life.
LEMMA AskedTick ==
  ASSUME IInv, NEW w \in Views, NEW t \in Max({Oldest, w.since})..tick
  PROVE  t \in Oldest..tick /\ t \in w.since..tick /\ ~(t < Oldest) /\ ~(t < w.since)
<1> DEFINE m == Max({Oldest, w.since})
<1>1. Oldest \in Int /\ w.since \in Int /\ tick \in Nat
  BY WindowParts, MaxTickAssumption DEF Oldest, Views, Ticks
<1>2. m \in {Oldest, w.since} /\ m >= Oldest /\ m >= w.since
  <2>1. CASE Oldest >= w.since
    <3>1. m = Oldest
      BY <1>1, <2>1, MaxIs
    <3> QED
      BY <1>1, <2>1, <3>1
  <2>2. CASE w.since >= Oldest
    <3>1. m = w.since
      BY <1>1, <2>2, MaxIs
    <3> QED
      BY <1>1, <2>2, <3>1
  <2> QED
    BY <1>1, <2>1, <2>2
<1>3. t \in m..tick /\ m \in Int
  BY <1>1, <1>2
<1> HIDE DEF m
<1> QED
  BY <1>1, <1>2, <1>3

\* Of the inputs that are still there, a derived node is computed over the cells
\* of the tick it is asked about.
LEMMA RecalledCells ==
  ASSUME IInv, NEW t \in Oldest..tick
  PROVE  /\ DOMAIN Recalled(t) = Alive
         /\ \A i \in Alive \cap DOMAIN past[t] :
              past[t][i] \in Serialised => Recalled(t)[i] = past[t][i]
<1>1. DOMAIN Recalled(t) = Alive
  BY DEF Recalled
<1>2. ASSUME NEW i \in Alive, i \in DOMAIN past[t], past[t][i] \in Serialised
      PROVE  Recalled(t)[i] = past[t][i]
  <2>1. Mentions(RowAt(t), i) # {} /\ Resolved(RowAt(t), i) = past[t][i]
    BY <1>2, PastIsRead
  <2> QED
    BY <2>1 DEF Recalled
<1> QED
  BY <1>1, <1>2

\* The same compute over cells that agree where it reads.
LEMMA DerivedAlike ==
  ASSUME NEW w \in Views, NEW f, NEW g, Derivable(w, f),
         \A i \in Wanted(w, f) \cap DOMAIN g : g[i] = f[i]
  PROVE  /\ Derivable(w, g) <=> Wanted(w, f) \subseteq DOMAIN g
         /\ Derivable(w, g) => DerivedFrom(w, g) = DerivedFrom(w, f)
<1>1. w.gate \in Wanted(w, f)
  BY DEF Wanted, Views
<1>2. w.gate \in DOMAIN g => Wanted(w, g) = Wanted(w, f)
  BY <1>1 DEF Wanted
<1>3. Derivable(w, g) <=> Wanted(w, f) \subseteq DOMAIN g
  BY <1>1, <1>2 DEF Derivable
<1>4. ASSUME Derivable(w, g) PROVE DerivedFrom(w, g) = DerivedFrom(w, f)
  <2>1. Wanted(w, g) = Wanted(w, f) /\ Wanted(w, f) \subseteq DOMAIN g
    BY <1>2, <1>3, <1>4 DEF Derivable
  <2> QED
    BY <2>1 DEF DerivedFrom
<1> QED
  BY <1>3, <1>4

\* A derived node that is asked about a tick of its life in the window.
LEMMA DerivedIsRead == IInv => DerivedReadsExact
<1> SUFFICES ASSUME IInv, NEW w \in Views, Living(w),
                    NEW t \in Max({Oldest, w.since})..tick,
                    \A i \in Wanted(w, past[t]) : past[t][i] \in Serialised
             PROVE  ReadDerivedAt(w, t) =
                      IF Wanted(w, past[t]) \subseteq Alive
                      THEN [status |-> "retained", value |-> DerivedFrom(w, past[t])]
                      ELSE Throws
  BY DEF DerivedReadsExact
<1>1. t \in Oldest..tick /\ t \in w.since..tick /\ ~(t < Oldest) /\ ~(t < w.since)
  BY AskedTick
<1>2. Derivable(w, past[t])
  BY <1>1 DEF Living
<1>3. Wanted(w, past[t]) \subseteq DOMAIN past[t]
  BY <1>2 DEF Derivable
<1>4. /\ DOMAIN Recalled(t) = Alive
      /\ \A i \in Wanted(w, past[t]) \cap Alive : Recalled(t)[i] = past[t][i]
  BY <1>1, <1>3, RecalledCells
<1>5. /\ Derivable(w, Recalled(t)) <=> Wanted(w, past[t]) \subseteq Alive
      /\ Derivable(w, Recalled(t)) => DerivedFrom(w, Recalled(t)) = DerivedFrom(w, past[t])
  BY <1>2, <1>4, DerivedAlike
<1> QED
  BY <1>1, <1>5 DEF ReadDerivedAt

\* For every window, any inputs, values and number of commits: readAt and
\* snapshotAt answer for each tick of the window with what the graph held when
\* that tick ended, whatever was evicted, disposed or registered again since,
\* and readAt never answers for a tick before the input's registration; asked
\* for a derived node, readAt answers with its value of then, or throws if an
\* input it read then is gone.
THEOREM PastSound == RetentionSpec => []ReadsOfThePastSound
<1>1. RetentionInit => IInv
  BY InitHolds
<1>2. IInv /\ [RetentionNext]_retentionVars => IInv'
  BY StepKeeps
<1>3. ASSUME IInv PROVE ReadsOfThePastSound
  <2>1. ReadAtExact
    <3> SUFFICES ASSUME NEW i \in Alive, NEW t \in Oldest..tick, t >= registeredAt[i],
                        past[t][i] \in Serialised
                 PROVE  Retained(i, t) /\ ReadAt(i, t) = past[t][i]
      BY DEF ReadAtExact
    <3>1. i \in Input
      BY <1>3, CellsParts DEF IInv, Shapes, Alive
    <3>2. t \in registeredAt[i]..tick /\ t >= Oldest
      <4>1. tick \in Nat /\ registeredAt[i] \in Nat /\ Oldest \in Int
        BY <1>3, <3>1, MaxTickAssumption, WindowParts DEF IInv, Shapes, Ticks, Oldest
      <4> QED
        BY <4>1
    <3>3. i \in DOMAIN past[t]
      BY <1>3, <3>2 DEF IInv, LivesRecorded
    <3> QED
      BY <1>3, <3>2, <3>3, PastIsRead DEF Retained, ReadAt
  <2>2. NoAnswerFromAnEarlierLife
    <3> SUFFICES ASSUME NEW i \in Alive, NEW t \in 0..tick, Retained(i, t),
                        NEW u \in t..tick
                 PROVE  i \in DOMAIN past[u]
      BY DEF NoAnswerFromAnEarlierLife
    <3>1. i \in Input
      BY <1>3, CellsParts DEF IInv, Shapes, Alive
    <3>2. tick \in Nat /\ registeredAt[i] \in Nat /\ t >= registeredAt[i]
      BY <1>3, <3>1, MaxTickAssumption DEF IInv, Shapes, Ticks, Retained
    <3>3. u \in registeredAt[i]..tick
      BY <3>2
    <3> QED
      BY <1>3, <3>3 DEF IInv, LivesRecorded
  <2>3. SnapshotComplete
    <3> SUFFICES ASSUME NEW t \in Oldest..tick, NEW i \in DOMAIN past[t],
                        past[t][i] \in Serialised
                 PROVE  i \in DOMAIN SnapshotAt(t) /\ SnapshotAt(t)[i] = past[t][i]
      BY DEF SnapshotComplete
    <3> QED
      BY <1>3, PastIsRead DEF SnapshotAt
  <2> QED
    BY <1>3, <2>1, <2>2, <2>3, DerivedIsRead
    DEF ReadsOfThePastSound, RetentionSound, IInv
<1> QED
  BY <1>1, <1>2, <1>3, PTL DEF RetentionSpec

\* An answer readAt gives is what the chain says.
LEMMA AnswerIsSaid ==
  ASSUME IInv, NEW i \in Input, NEW t \in 0..tick, Retained(i, t)
  PROVE  t \in Oldest..tick /\ Says(rows, RowAt(t), i, ReadAt(i, t))
<1>1. t \in Oldest..tick
  <2>1. Oldest \in Int /\ t >= Oldest
    <3>1. 1 \in 1..Len(rows) /\ rows[1].time = tick - Len(rows) + 1 /\ tick \in Nat
      BY WindowParts
    <3> QED
      BY <3>1, WindowParts DEF Oldest, Retained
  <2> QED
    BY <2>1
<1>2. RowAt(t) \in 1..Len(rows) /\ RowAt(t) \in Nat
  BY <1>1, RowOfTick
<1>3. ~Silent(rows, RowAt(t), i)
  BY DEF Retained, Mentions, Silent
<1>4. PICK v : Says(rows, RowAt(t), i, v)
  BY <1>2, <1>3 DEF IInv, Decided
<1>5. ReadAt(i, t) = v
  BY <1>2, <1>4, Answer, Zenon DEF ReadAt, Mentions, MentionsIn, Resolved
<1> QED
  BY <1>1, <1>4, <1>5

LEMMA WindowNext == ASSUME IInv' PROVE IsWindow(rows', Len(rows'), tick')
<1>1. tick' \in Nat /\ Len(rows') \in Nat /\ DOMAIN rows' = 1..Len(rows')
  BY MaxTickAssumption DEF IInv, Shapes, Ticks
<1>2. WindowIsFull'
  BY DEF IInv
<1>3. PICK now \in Nat : now = tick'
  BY <1>1
<1> DEFINE n    == Len(rows')
           kept == IF now + 1 < Window THEN now + 1 ELSE Window
<1>4. n = kept /\ \A k \in 1..kept : rows'[k].time = now - kept + k
  BY <1>2, <1>3 DEF WindowIsFull
<1>5. kept > 0
  BY WindowAssumption
<1> HIDE DEF n, kept
<1>6. n > 0 /\ \A k \in 1..n : rows'[k].time = now - n + k
  BY <1>4, <1>5
<1>7. IsWindow(rows', n, tick')
  BY <1>1, <1>3, <1>6 DEF IsWindow, n
<1> QED
  BY <1>7 DEF n

\* What a kept row's chain says after a step is what readAt answers then.
LEMMA SaidIsAnswered ==
  ASSUME IInv', NEW i, NEW v, NEW t \in Int, t <= tick', Retained(i, t)',
         Says(rows', t - tick' + Len(rows'), i, v)
  PROVE  ReadAt(i, t)' = v
<1> DEFINE n == Len(rows')
<1>1. /\ tick' \in Nat /\ n \in Nat /\ n > 0 /\ DOMAIN rows' = 1..n
      /\ \A k \in 1..n : rows'[k].time = tick' - n + k
  BY WindowNext DEF IsWindow
<1>2. t \in rows'[1].time..tick'
  <2>1. 1 \in 1..n
    BY <1>1
  <2>2. rows'[1].time \in Int /\ t >= rows'[1].time
    BY <1>1, <2>1 DEF Retained, Oldest
  <2> QED
    BY <1>1, <2>2
<1> HIDE DEF n
<1>3. RowAt(t)' = t - tick' + n /\ RowAt(t)' \in Nat
  <2>1. RowAt(t)' = t - tick' + n /\ RowAt(t)' \in 1..n
    <3>1. RowAt(t)' = Max(RowsUpTo(rows', t))
      BY DEF RowAt, RowsUpTo
    <3>2. IsWindow(rows', n, tick')
      BY <1>1 DEF IsWindow
    <3> QED
      BY <1>2, <3>1, <3>2, RowIs
  <2> QED
    BY <2>1
<1>4. Says(rows', RowAt(t)', i, v)
  BY <1>3 DEF n
<1> QED
  BY <1>3, <1>4, Answer, Zenon DEF ReadAt, Mentions, MentionsIn, Resolved

LEMMA StepLeavesAnswers ==
  ASSUME IInv, IInv', [RetentionNext]_retentionVars,
         NEW i \in Alive \cap Alive', NEW t \in 0..tick, Retained(i, t), Retained(i, t)'
  PROVE  ReadAt(i, t)' = ReadAt(i, t)
<1> DEFINE n == Len(rows)
           k == t - tick + n
           v == ReadAt(i, t)
<1>1. i \in Input
  BY CellsParts DEF IInv, Shapes, Alive
<1>2. Says(rows, k, i, v) /\ k \in 1..n
  BY <1>1, AnswerIsSaid, RowOfTick
<1>3. n \in Nat /\ n > 0 /\ tick \in Nat /\ n <= Window /\ t \in Int /\ t <= tick
  BY WindowParts
<1> HIDE DEF v
<1>4. ASSUME NEW w \in Cells(Value), Commit(w) PROVE ReadAt(i, t)' = v
  <2> DEFINE r == Append(rows, Pushed(w))
  <2>1. /\ r \in Seq(Row) /\ Len(r) = n + 1 /\ rows' \in Seq(Row)
        /\ \A l \in 1..n + 1 : r[l].time = tick - n + l
        /\ IF n = Window
           THEN Folds(r, rows') /\ Len(rows') = n
                /\ \A l \in 1..n : rows'[l].time = r[l + 1].time
           ELSE rows' = r
    BY <1>4, CommitRows
  <2>2. Follows(rows, r, Pushed(w)) /\ rows \in Seq(Row) /\ tick' = tick + 1
    BY <1>4, CommitPushes DEF IInv, Shapes, Commit
  <2> HIDE DEF r
  <2>3. Says(r, k, i, v)
    BY <1>2, <2>1, <2>2, FollowsSays
  <2>4. CASE n = Window
    <3>1. Folds(r, rows') /\ Len(rows') = n
      BY <2>1, <2>4
    <3>2. k >= 2
      <4>1. 1 \in 1..n /\ 2 \in 1..n + 1
        BY <1>3
      <4>2. rows'[1].time = tick - n + 2
        BY <1>3, <2>1, <2>4, <4>1
      <4>3. t >= rows'[1].time
        BY DEF Retained, Oldest
      <4> QED
        BY <1>3, <4>2, <4>3
    <3>3. Says(rows', k - 1, i, v)
      <4>1. k \in 2..Len(r) /\ Len(r) > 1
        BY <1>2, <1>3, <2>1, <3>2
      <4> QED
        BY <2>1, <2>3, <3>1, <4>1, FoldsSays
    <3>4. t - tick' + Len(rows') = k - 1 /\ t <= tick'
      BY <1>3, <2>2, <3>1
    <3> QED
      BY <1>3, <3>3, <3>4, SaidIsAnswered
  <2>5. CASE n # Window
    <3>1. rows' = r
      BY <2>1, <2>5
    <3>2. t - tick' + Len(rows') = k /\ t <= tick'
      BY <1>3, <2>1, <2>2, <3>1
    <3> QED
      BY <1>3, <2>3, <3>1, <3>2, SaidIsAnswered
  <2> QED
    BY <2>4, <2>5
<1>5. ASSUME NEW j \in Input, NEW x \in Value, Register(j, x) PROVE ReadAt(i, t)' = v
  <2>1. i # j /\ tick' = tick
    BY <1>5 DEF Register
  <2>2. /\ Len(rows') = n
        /\ \A l \in 1..n : \A y :
             l < n \/ y # j =>
               /\ Silent(rows, l, y) => Silent(rows', l, y)
               /\ \A z : Says(rows, l, y, z) => Says(rows', l, y, z)
    BY <1>5, RegisterRows, Zenon
  <2>3. Says(rows', k, i, v)
    BY <1>2, <2>1, <2>2, Zenon
  <2>4. t - tick' + Len(rows') = k /\ t <= tick'
    BY <1>3, <2>1, <2>2
  <2> QED
    BY <1>3, <2>3, <2>4, SaidIsAnswered
<1>6. ASSUME UNCHANGED <<tick, rows>> PROVE ReadAt(i, t)' = v
  <2>1. t - tick' + Len(rows') = k /\ t <= tick' /\ rows' = rows
    BY <1>3, <1>6
  <2> QED
    BY <1>2, <1>3, <2>1, SaidIsAnswered
<1>7. CASE RetentionNext
  <2>1. ASSUME NEW j \in Input, Dispose(j) PROVE UNCHANGED <<tick, rows>>
    BY <2>1 DEF Dispose
  <2> QED
    BY <1>4, <1>5, <1>6, <1>7, <2>1 DEF RetentionNext, v
<1>8. CASE UNCHANGED retentionVars
  BY <1>6, <1>8 DEF retentionVars, v
<1> QED
  BY <1>7, <1>8

\* An answer readAt gives about a tick stays the same as long as it is given:
\* no commit, no eviction and no registration under another id changes it.
THEOREM PastStays == RetentionSpec => PastIsStable
<1>1. RetentionInit => IInv
  BY InitHolds
<1>2. IInv /\ [RetentionNext]_retentionVars => IInv'
  BY StepKeeps
<1>3. IInv /\ IInv' /\ [RetentionNext]_retentionVars
        => [\A i \in Alive \cap Alive', t \in 0..tick :
              Retained(i, t) /\ Retained(i, t)' => ReadAt(i, t)' = ReadAt(i, t)]_retentionVars
  BY StepLeavesAnswers
<1> QED
  BY <1>1, <1>2, <1>3, PTL DEF RetentionSpec, PastIsStable

=============================================================================
