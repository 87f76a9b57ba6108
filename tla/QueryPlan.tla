------------------------------ MODULE QueryPlan ------------------------------
(***************************************************************************)
(* Queries and reads.  A query is what KnoVa sends, already split into its *)
(* clauses; a read is the sequence of transforms (filter, limit, select,   *)
(* rename) that Tributo applies to a scan of the declared table.  A row is *)
(* its identity with its cells, a cell a typed scalar, and since a LIMIT   *)
(* may keep any rows, a query and a read yield a set of possible answers.  *)
(*                                                                         *)
(*   select   [kind, projection, table, alias, where, limit, order, nested]*)
(*   union    [kind, branches]            SELECT ... UNION ALL SELECT ...  *)
(*   other    [kind]                      any other statement              *)
(***************************************************************************)
EXTENDS RequestRules

\* The numerals the instances use.
SmallNumbers == {-1, 0, 1, 2, 3, 300}
Numeral(text)  == \E n \in SmallNumbers : ToString(n) = text
NumberOf(text) == CHOOSE n \in SmallNumbers : ToString(n) = text

\* Two numbers are two numerals.
ASSUME NumeralAssumption ==
  /\ \A m, n \in SmallNumbers : ToString(m) = ToString(n) => m = n
  /\ ToString(0) = "0" /\ ToString(1) = "1"

\* The integers of a ClickHouse type, as far as SmallNumbers tells.
Width ==
  [Int8  |-> -128 .. 127, UInt8  |-> 0 .. 255,
   Int64 |-> SmallNumbers, UInt64 |-> SmallNumbers \ {-1}]

-----------------------------------------------------------------------------
(* Typed parameters.  A type is the sequence of its wrappers and its name. *)

Unwrapped(type) ==
  IF \A i \in 1 .. Len(type) - 1 : type[i] \in {"Nullable", "LowCardinality"}
  THEN Last(type) ELSE "unsupported"

\* training.py: any integer whatever its width; Bad stands for the refusal.
QueryScalar(text, type) ==
  LET name == Unwrapped(type) IN
  CASE name \in DOMAIN Width \cup {"Float64"} /\ Numeral(text)
                           -> <<"num", NumberOf(text)>>
    [] name = "Bool" /\ text \in {"0", "1", "true", "false"}
                           -> <<"num", IF text \in {"1", "true"} THEN 1 ELSE 0>>
    [] name \in {"String", "FixedString"} -> <<"str", text>>
    [] OTHER               -> Bad

\* inference.py: plain types only, and integers within their width.
TypedParameter(text, type) ==
  CASE type = <<"String">>  -> <<"str", text>>
    [] /\ Len(type) = 1 /\ type[1] \in DOMAIN Width
       /\ Numeral(text) /\ NumberOf(text) \in Width[type[1]]
                            -> <<"num", NumberOf(text)>>
    [] type = <<"Float64">> /\ Numeral(text) -> <<"num", NumberOf(text)>>
    [] OTHER                -> Bad

-----------------------------------------------------------------------------
(* Reads.                                                                  *)

Filter(column, op, value) ==
  [kind |-> "filter", column |-> column, op |-> op, value |-> value]
LimitTo(n)      == [kind |-> "limit", count |-> n]
SelectOnly(cs)  == [kind |-> "select", columns |-> cs]
RenameTo(pairs) == [kind |-> "rename", pairs |-> pairs]

\* Null satisfies no comparison.
Compare(op, a, b) ==
  /\ a # Null
  /\ CASE op = "="            -> a = b
       [] op \in {"!=", "<>"} -> a # b
       [] op = "<"            -> a[2] < b[2]
       [] op = ">="           -> a[2] >= b[2]

Picks(rows, n) ==
  IF Cardinality(rows) <= n THEN {rows} ELSE kSubset(n, rows)

Renamed(cells, pairs) ==
  LET New(c) == IF \E p \in pairs : p[1] = c
                THEN (CHOOSE p \in pairs : p[1] = c)[2] ELSE c
  IN  [n \in {New(c) : c \in DOMAIN cells} |->
         cells[CHOOSE c \in DOMAIN cells : New(c) = n]]

\* One set of each of some choices, put together in every way.
Combined(choices) ==
  LET upTo[n \in 0 .. Len(choices)] ==
        IF n = 0 THEN {{}}
        ELSE {s \cup more : s \in upTo[n - 1], more \in choices[n]}
  IN  upTo[Len(choices)]

\* What one transform makes of a set of rows.
Transform(rows, step) ==
  CASE step.kind = "filter" ->
         {{r \in rows : Compare(step.op, r.cells[step.column], step.value)}}
    [] step.kind = "limit"  -> Picks(rows, step.count)
    [] step.kind = "select" ->
         {{[r EXCEPT !.cells = Restrict(@, step.columns)] : r \in rows}}
    [] step.kind = "rename" ->
         {{[r EXCEPT !.cells = Renamed(@, step.pairs)] : r \in rows}}

Scan(table, columns) == {[r EXCEPT !.cells = Restrict(@, columns)] : r \in table}

\* What may have been read after each number of steps.
After(table, columns, steps) ==
  LET after[n \in 0 .. Len(steps)] ==
        IF n = 0 THEN {Scan(table, columns)}
        ELSE UNION {Transform(rows, steps[n]) : rows \in after[n - 1]}
  IN  after

\* The possible results of scanning `columns' and applying `steps'.
Reads(table, columns, steps) == After(table, columns, steps)[Len(steps)]

-----------------------------------------------------------------------------
(* What the query itself means, for the properties: the rows that satisfy  *)
(* the WHERE clause, any LIMIT of them, under their result names.          *)

Pairs(projection) ==
  {<<projection[i].source, projection[i].result>> : i \in DOMAIN projection}

SelectAnswers(q, params, table) ==
  LET kept == {r \in table : \A i \in DOMAIN q.where :
                 LET w == q.where[i]
                     v == QueryScalar(params[w.param], w.type)
                 IN  Compare(w.op, r.cells[w.column], v)}
      Cells(r) == [n \in {p[2] : p \in Pairs(q.projection)} |->
                     r.cells[(CHOOSE p \in Pairs(q.projection) : p[2] = n)[1]]]
  IN  {{[id |-> r.id, cells |-> Cells(r)] : r \in rows} :
          rows \in IF q.limit = Missing THEN {kept} ELSE Picks(kept, q.limit)}

\* UNION ALL: an answer of each branch.
Answers(q, params, table) ==
  IF q.kind = "select" THEN SelectAnswers(q, params, table)
  ELSE Combined([i \in DOMAIN q.branches |-> SelectAnswers(q.branches[i], params, table)])
=============================================================================
