---------------------------- MODULE QueryBuilder ----------------------------
(* The query builders the generator writes, as in example/goen.go.  A       *)
(* builder is a value: every method works on a copy and returns it.  The    *)
(* squirrel builder inside is immutable, so deriving from it never reaches  *)
(* the builder derived from.  The list of include loaders is a Go slice:    *)
(* the copies share its array, and Include appends to it.                   *)
EXTENDS Integers, Sequences, FiniteSets

CONSTANTS Loaders,   \* include loaders
          Null,      \* the SQL NULL, and a nil pointer as an argument
          NoValue,   \* an argument that is not nil but has no value: sql.NullString{}
          NoLoader,  \* an array slot nothing was written to
          Rows,      \* the table: a sequence of [column |-> value]
          Plans      \* what a scenario may ask for, with its bound on builders

ASSUME LoaderAssumption == NoLoader \notin Loaders /\ NoValue # Null

Dialects == {"postgres", "sqlite3"}

(* What the callers pass: Include at least one loader, LIMIT and OFFSET an  *)
(* unsigned number.                                                         *)
ASSUME PlanAssumption ==
  \A p \in Plans :
    /\ p.includes \subseteq Seq(Loaders) \ {<<>>}
    /\ p.limits \subseteq Nat
    /\ p.offsets \subseteq Nat
    /\ p.dialect \in Dialects
    /\ p.cached \in BOOLEAN     \* the QueryRunner is a StmtCacher, not the *sql.DB

\* What the database gets for an argument.
Value(arg) == IF arg = NoValue THEN Null ELSE arg

Comparisons == {"Lt", "LtOrEq", "Gt", "GtOrEq"}

(* A condition is [col, op, arg].  The argument of In and NotIn is a set,   *)
(* that of Between and NotBetween a pair, that of Like and NotLike the set  *)
(* of texts that match, or no pattern at all.  The values a column is       *)
(* compared by are ordered: they are numbers here.                          *)
Bounds(c) == IF c.op \in Comparisons THEN {Value(c.arg)}
             ELSE {Value(c.arg[1]), Value(c.arg[2])}

ASSUME RowsAssumption ==
  /\ IsFiniteSet(DOMAIN Rows)
  /\ Null \notin Int
  /\ \A p \in Plans : \A c \in UNION p.conds :
       c.op \in Comparisons \cup {"Between", "NotBetween"} =>
         /\ Bounds(c) \subseteq Int \cup {Null}
         /\ \A r \in DOMAIN Rows : Rows[r][c.col] \in Int \cup {Null}

VARIABLES plan,      \* the scenario; never changes
          arrays,    \* the arrays append allocated, as long as their capacity
          builders,  \* every builder value made so far
          extended,  \* the origins Include was called on
          forked,    \* one origin with loaders was extended twice
          answer     \* what the last terminal call returned

vars == <<plan, arrays, builders, extended, forked, answer>>

NoLimit == -1
NoOffset == -1
Nothing == [call |-> "none", on |-> 0, rows |-> <<>>, count |-> 0, err |-> "nil"]

(* A builder.  array = 0 is the nil slice; origin is the index of the       *)
(* builder its last Include returned, and asked the loaders its own chain   *)
(* of calls asked for: these two are history.                               *)
Selected ==
  [array |-> 0, len |-> 0, conds |-> {}, orders |-> <<>>, limit |-> NoLimit,
   offset |-> NoOffset, origin |-> 0, asked |-> <<>>]

Held(b) == SubSeq(arrays[b.array], 1, b.len)

(* The loaders Query hands to IncludeContext. *)
LoadersOf(b) == IF b.array = 0 THEN <<>> ELSE Held(b)

-----------------------------------------------------------------------------
(* Conditions: what the database selects for a column's methods. *)

(* squirrel refuses to compare with what a driver.Valuer says is nil; the   *)
(* error comes out of ToSql.  It does not notice a nil pointer.             *)
Refused(c) == c.op \in Comparisons /\ c.arg = NoValue

Compares(op, x, v) ==
  CASE op = "Lt" -> x < v [] op = "LtOrEq" -> x <= v
    [] op = "Gt" -> x > v [] op = "GtOrEq" -> x >= v

Below(x, v) == x # Null /\ v # Null /\ x < v

\* Mutant of Outside: NOT BETWEEN leaves its ends in.
OutsideEnds(x, low, high) == ~Below(low, x) \/ ~Below(x, high)

(* x NOT BETWEEN low AND high, which one end alone can make true. *)
Outside(x, low, high) == Below(x, low) \/ Below(high, x)

(* A row is selected when the condition is true of its value x, not when it *)
(* is unknown.  Eq and NotEq of nil become IS NULL and IS NOT NULL, In and  *)
(* NotIn of nothing 1=0 and 1=1; whatever else is asked of NULL is unknown. *)
Selects(c, x) ==
  CASE c.op = "Eq"         -> x = Value(c.arg)
    [] c.op = "NotEq"      -> x # Value(c.arg) /\ x # Null
    [] c.op = "In"         -> x # Null /\ x \in {Value(v) : v \in c.arg}
    [] c.op = "NotIn"      -> c.arg = {} \/ (x # Null /\ {x, Null} \cap {Value(v) : v \in c.arg} = {})
    [] c.op = "Between"    -> /\ x # Null /\ Null \notin Bounds(c)
                              /\ Value(c.arg[1]) <= x /\ x <= Value(c.arg[2])
    [] c.op = "NotBetween" -> Outside(x, Value(c.arg[1]), Value(c.arg[2]))
    [] c.op = "Like"       -> x # Null /\ Value(c.arg) # Null /\ x \in c.arg
    [] c.op = "NotLike"    -> x # Null /\ Value(c.arg) # Null /\ x \notin c.arg
    [] OTHER               -> x # Null /\ Value(c.arg) # Null /\ Compares(c.op, x, Value(c.arg))

Matching(b) == {i \in DOMAIN Rows : \A c \in b.conds : Selects(c, Rows[i][c.col])}

-----------------------------------------------------------------------------
(* What the database may answer: some order of the matching rows that the   *)
(* keys allow (where NULL sorts is the dialect's), cut by OFFSET and LIMIT. *)

KeyBefore(o, i, j) ==
  LET x == Rows[i][o.col]  y == Rows[j][o.col]
  IN  x # Null /\ y # Null /\ (IF o.desc THEN x > y ELSE x < y)

Before(orders, i, j) ==
  \E k \in DOMAIN orders :
    /\ KeyBefore(orders[k], i, j)
    /\ \A h \in 1..(k - 1) : Rows[i][orders[h].col] = Rows[j][orders[h].col]

Arrangements(b) ==
  {s \in [1..Cardinality(Matching(b)) -> Matching(b)] :
     \A i, j \in DOMAIN s : i < j => s[i] # s[j] /\ ~Before(b.orders, s[j], s[i])}

Skipped(b) == IF b.offset = NoOffset THEN 0 ELSE b.offset

Cut(b, s) ==
  LET end == IF b.limit = NoLimit \/ Skipped(b) + b.limit > Len(s)
             THEN Len(s) ELSE Skipped(b) + b.limit
  IN  SubSeq(s, Skipped(b) + 1, end)

Answers(b) == {Cut(b, s) : s \in Arrangements(b)}

(* count(star) is one row, and the builder's LIMIT and OFFSET apply to it. *)
CountRow(b) == Cut(b, <<Cardinality(Matching(b))>>)

(* The statement keeps every ORDER BY, LIMIT and OFFSET that was asked for, *)
(* also next to count(star).  PostgreSQL does not order an aggregate by a   *)
(* column, and SQLite has no OFFSET without a LIMIT.                        *)
Accepts(counting, b) ==
  /\ plan.dialect = "postgres" => ~counting \/ b.orders = <<>>
  /\ plan.dialect = "sqlite3" => b.offset = NoOffset \/ b.limit # NoLimit

-----------------------------------------------------------------------------
(* append *)

GrownCap(cap, need) == IF need > 2 * cap THEN need ELSE 2 * cap

Capacity(b) == IF b.array = 0 THEN 0 ELSE Len(arrays[b.array])

\* Mutant of WriteAt: the array is written from its head.
WriteAtHead(slots, n, ls) ==
  [i \in 1..Len(slots) |-> IF i <= Len(ls) THEN ls[i] ELSE slots[i]]

WriteAt(slots, n, ls) ==
  [i \in 1..Len(slots) |-> IF i > n /\ i <= n + Len(ls) THEN ls[i - n] ELSE slots[i]]

\* Mutant of Grown: the new array begins with what is appended.
GrownUncopied(b, ls) ==
  [i \in 1..GrownCap(Capacity(b), b.len + Len(ls)) |->
     IF i <= Len(ls) THEN ls[i] ELSE NoLoader]

Grown(b, ls) ==
  LET old == LoadersOf(b)
  IN  [i \in 1..GrownCap(Capacity(b), b.len + Len(ls)) |->
         IF i <= b.len THEN old[i]
         ELSE IF i <= b.len + Len(ls) THEN ls[i - b.len] ELSE NoLoader]

FitsIn(b, ls) == b.len + Len(ls) <= Capacity(b)

AppendInPlace(b, ls) ==
  /\ arrays' = [arrays EXCEPT ![b.array] = WriteAt(@, b.len, ls)]
  /\ builders' = Append(builders, [b EXCEPT !.len = @ + Len(ls),
                                            !.origin = Len(builders) + 1,
                                            !.asked = @ \o ls])

AppendGrowing(b, ls) ==
  /\ arrays' = Append(arrays, Grown(b, ls))
  /\ builders' = Append(builders, [b EXCEPT !.array = Len(arrays) + 1,
                                            !.len = @ + Len(ls),
                                            !.origin = Len(builders) + 1,
                                            !.asked = @ \o ls])

-----------------------------------------------------------------------------
Init ==
  /\ plan \in Plans
  /\ arrays = <<>>
  /\ builders = <<Selected>>
  /\ extended = {}
  /\ forked = FALSE
  /\ answer = Nothing

Room == Len(builders) < plan.most

(* Include with at least one loader; with none it returns its receiver. *)
Include(b, ls) ==
  /\ Room
  /\ IF FitsIn(b, ls) THEN AppendInPlace(b, ls) ELSE AppendGrowing(b, ls)
  /\ extended' = extended \cup {b.origin}
  /\ forked' = (forked \/ (b.origin > 0 /\ b.origin \in extended))
  /\ answer' = Nothing
  /\ UNCHANGED plan

Derive(d) ==
  /\ Room
  /\ builders' = Append(builders, d)
  /\ answer' = Nothing
  /\ UNCHANGED <<plan, arrays, extended, forked>>

Where(b, cs) == Derive([b EXCEPT !.conds = @ \cup cs])
OrderBy(b, o) == Derive([b EXCEPT !.orders = Append(@, o)])
Limit(b, n) == Derive([b EXCEPT !.limit = n])
Offset(b, n) == Derive([b EXCEPT !.offset = n])

-----------------------------------------------------------------------------
Returns(call, i, rows, count, err) ==
  /\ answer' = [call |-> call, on |-> i, rows |-> rows, count |-> count, err |-> err]
  /\ UNCHANGED <<plan, arrays, builders, extended, forked>>

Builds(b) == \A c \in b.conds : ~Refused(c)

(* Count scans the one row of count(star), if LIMIT and OFFSET let it       *)
(* through.  QueryRowContext of a StmtCacher panics when the statement      *)
(* cannot be prepared; that of *sql.DB keeps the error for Scan.            *)
Count(i) ==
  LET b == builders[i]
  IN  IF ~Builds(b) THEN Returns("Count", i, <<>>, 0, "refused")
      ELSE IF ~Accepts(TRUE, b)
           THEN Returns("Count", i, <<>>, 0, IF plan.cached THEN "panic" ELSE "database")
      ELSE IF CountRow(b) = <<>> THEN Returns("Count", i, <<>>, 0, "ErrNoRows")
      ELSE Returns("Count", i, <<>>, CountRow(b)[1], "nil")

Query(i) ==
  LET b == builders[i]
  IN  IF ~Builds(b) THEN Returns("Query", i, <<>>, 0, "refused")
      ELSE IF ~Accepts(FALSE, b) THEN Returns("Query", i, <<>>, 0, "database")
      ELSE \E s \in Answers(b) : Returns("Query", i, s, 0, "nil")

\* Mutant of OneRow: a limit already there stays.
OneRowKeepsLimit(b) == IF b.limit = NoLimit THEN [b EXCEPT !.limit = 1] ELSE b

(* QueryRow puts LIMIT 1 on its copy, over any limit it had. *)
OneRow(b) == [b EXCEPT !.limit = 1]

QueryRow(i) ==
  LET b == OneRow(builders[i])
  IN  IF ~Builds(b) THEN Returns("QueryRow", i, <<>>, 0, "refused")
      ELSE IF ~Accepts(FALSE, b) THEN Returns("QueryRow", i, <<>>, 0, "database")
      ELSE \E s \in Answers(b) :
             Returns("QueryRow", i, s, 0, IF s = <<>> THEN "ErrNoRows" ELSE "nil")

Next ==
  \/ \E i \in DOMAIN builders, ls \in plan.includes : Include(builders[i], ls)
  \/ \E i \in DOMAIN builders, cs \in plan.conds : Where(builders[i], cs)
  \/ \E i \in DOMAIN builders, o \in plan.orders : OrderBy(builders[i], o)
  \/ \E i \in DOMAIN builders, n \in plan.limits : Limit(builders[i], n)
  \/ \E i \in DOMAIN builders, n \in plan.offsets : Offset(builders[i], n)
  \/ "Count" \in plan.calls /\ \E i \in DOMAIN builders : Count(i)
  \/ "Query" \in plan.calls /\ \E i \in DOMAIN builders : Query(i)
  \/ "QueryRow" \in plan.calls /\ \E i \in DOMAIN builders : QueryRow(i)

Spec == Init /\ [][Next]_vars

-----------------------------------------------------------------------------
Conditions == UNION {UNION p.conds : p \in Plans}
OrderKeys == UNION {p.orders : p \in Plans}

IsBuilder(b) ==
  /\ b.array \in 0..Len(arrays)
  /\ b.len \in Nat
  /\ b.origin \in 0..Len(builders)
  /\ b.asked \in Seq(Loaders)
  /\ b.conds \subseteq Conditions
  /\ b.orders \in Seq(OrderKeys)
  /\ b.limit \in Nat \cup {NoLimit}
  /\ b.offset \in Nat \cup {NoOffset}
  /\ b.array = 0 => b.len = 0
  /\ b.array > 0 => b.len \in 1..Len(arrays[b.array])

(* No builder's list reaches past the array it shares, or into slots        *)
(* nothing was ever written to (the slices of Include's append).            *)
TypeOK ==
  /\ plan \in Plans
  /\ extended \subseteq 0..Len(builders)
  /\ forked \in BOOLEAN
  /\ \A i \in DOMAIN builders :
       /\ IsBuilder(builders[i])
       /\ LoadersOf(builders[i]) \in Seq(Loaders)

(* A builder runs the loaders its own calls of Include asked for, in that   *)
(* order, as long as nobody called Include twice on one builder that had    *)
(* loaders (or on copies of it that Where, Limit... returned).  Two such    *)
(* calls may share an array, and the second then replaces the loaders of    *)
(* the first.                                                               *)
LoadersLostOnlyByForks ==
  ~forked => \A i \in DOMAIN builders : LoadersOf(builders[i]) = builders[i].asked

AtMost(n, limit) == IF limit = NoLimit \/ n < limit THEN n ELSE limit

(* SQLite takes no such builder as it is: it skips rows and has no limit. *)
SkipsOnly(b) == plan.dialect = "sqlite3" /\ b.offset # NoOffset /\ b.limit = NoLimit

Agrees(ans, b) ==
  LET n == Cardinality(Matching(b))
      left == IF n > Skipped(b) THEN n - Skipped(b) ELSE 0
      whole == {Cut([b EXCEPT !.limit = NoLimit], s) : s \in Arrangements(b)}
  IN  CASE ans.call = "Count" ->
             IF SkipsOnly(b) \/ (plan.dialect = "postgres" /\ b.orders # <<>>)
             THEN ans.err = IF plan.cached THEN "panic" ELSE "database"
             ELSE IF Skipped(b) > 0 \/ b.limit = 0 THEN ans.err = "ErrNoRows"
             ELSE ans.err = "nil" /\ ans.count = n
        [] ans.call = "Query" ->
             IF SkipsOnly(b) THEN ans.err = "database"
             ELSE ans.err = "nil" /\ Len(ans.rows) = AtMost(left, b.limit)
        [] ans.call = "QueryRow" ->
             IF left = 0 THEN ans.err = "ErrNoRows"
             ELSE /\ ans.err = "nil" /\ Len(ans.rows) = 1
                  /\ \E s \in whole : s[1] = ans.rows[1]

(* Count, Query and QueryRow of one builder agree as far as this goes.      *)
(* Count either counts every row Query would select without paging, or, on  *)
(* a builder that skips rows or takes none, reports sql.ErrNoRows: it never *)
(* counts a page.  QueryRow fails only when OFFSET skips every row, whatever *)
(* the limit, and returns a row that Query without the limit could return   *)
(* first.  The database takes what QueryRow asks for from every builder,    *)
(* what Query asks for unless SQLite must skip rows without a limit, and    *)
(* what Count asks for unless, further, PostgreSQL must order the count;    *)
(* with a StmtCacher Count then panics where Query returns the error.       *)
CallsAgree ==
  answer.call # "none" /\ answer.err # "refused" => Agrees(answer, builders[answer.on])

Negated == [Eq |-> "NotEq", In |-> "NotIn", Lt |-> "GtOrEq", Gt |-> "LtOrEq",
            Between |-> "NotBetween", Like |-> "NotLike"]

(* Neither the condition c nor its negation is true of x. *)
LeftOpen(c, x) ==
  CASE c.op = "Eq" -> x = Null /\ Value(c.arg) # Null
    [] c.op = "In" -> LET vs == {Value(v) : v \in c.arg}
                      IN  vs # {} /\ (x = Null \/ (Null \in vs /\ x \notin vs))
    [] c.op = "Between" -> x = Null \/ ( /\ Null \in Bounds(c)
                                        /\ ~Outside(x, Value(c.arg[1]), Value(c.arg[2])))
    [] OTHER -> x = Null \/ Value(c.arg) = Null

(* Two builders that differ in a condition and its negation never answer    *)
(* the same row.  Without NULL among the arguments they leave out the rows  *)
(* that hold NULL and no others.  With it, Eq and NotEq still leave out     *)
(* nothing, In every value that is not listed, Between what the other end   *)
(* does not exclude, and comparisons and Like every row.                    *)
NegationsSplitTheRows ==
  \A i, j \in DOMAIN builders :
    LET b == builders[i]  c == builders[j]
    IN  \A x \in b.conds \ c.conds, y \in c.conds \ b.conds :
          ( /\ b.conds \ {x} = c.conds \ {y}
            /\ x.op \in DOMAIN Negated /\ y.op = Negated[x.op]
            /\ x.col = y.col /\ x.arg = y.arg
            /\ Builds(b) /\ Builds(c) )
          => LET all == Matching([b EXCEPT !.conds = @ \ {x}])
             IN  /\ Matching(b) \cap Matching(c) = {}
                 /\ all \ (Matching(b) \cup Matching(c)) =
                      {r \in all : LeftOpen(x, Rows[r][x.col])}
=============================================================================
