----------------------------- MODULE ResultRows -----------------------------
(***************************************************************************)
(* The rows an inference writes (inference.py, _protocol_batch): the label *)
(* of each row, the probability of the positive class, the explanation,    *)
(* and which rows the result filter keeps; and the count of the input      *)
(* (_measure_input_rows).                                                  *)
(*                                                                         *)
(* The model is external: Score gives, for the identity of a row, the      *)
(* probability of class 1 in percent, and so the sign of the margin.       *)
(***************************************************************************)
EXTENDS InferencePlan

CONSTANT Score

\* The outputs of the model: class 0 gets what class 1 leaves.
Probability(id, class) ==
  CASE class = 1 -> Score[id] [] class = 0 -> 100 - Score[id] [] OTHER -> 0

ModelLabel(id) == IF Score[id] > 50 THEN 1 ELSE 0
Margin(id) == Score[id] - 50

-----------------------------------------------------------------------------
(* Measuring.                                                              *)

\* Every column that is read is there; a text is compared with a text.
MeasureCode(plan, types) ==
  LET filters == {plan.steps[i] : i \in {j \in DOMAIN plan.steps :
                                           plan.steps[j].kind = "filter"}}
  IN  IF ~(plan.columns \subseteq DOMAIN types) THEN "INPUT_COLUMN_MISSING"
      ELSE IF \E f \in filters : f.value[1] # types[f.column] THEN "INVALID_PAYLOAD"
      ELSE "OK"

\* The rows that satisfy every filter, at most the LIMIT.
Measured(table, plan) ==
  LET kept == {r \in table : \A i \in DOMAIN plan.steps :
                 plan.steps[i].kind = "filter" =>
                   Compare(plan.steps[i].op, r.cells[plan.steps[i].column],
                           plan.steps[i].value)}
      limits == {plan.steps[i].count : i \in {j \in DOMAIN plan.steps :
                                                plan.steps[j].kind = "limit"}}
  IN  Min(limits \cup {Cardinality(kept)})

-----------------------------------------------------------------------------
(* Results.                                                                *)

\* The model's label, or what the threshold makes of the probability of the
\* positive class.
Label(p, id) ==
  LET positive == PositiveIndex(p.model)
      code == IF Threshold(p) = Null THEN ModelLabel(id)
              ELSE IF Probability(id, positive) >= Threshold(p)
              THEN positive ELSE 1 - positive
  IN  LabelText(p.model, code)

\* Binary contributions explain class 1; those of class 0 are the opposite.
Sign(model) == IF IsBinary(model) /\ PositiveIndex(model) = 0 THEN -1 ELSE 1

\* The class the explanation names.
ExplainedClass(p, id) ==
  IF IsBinary(p.model) THEN PositiveIndex(p.model) ELSE ModelLabel(id)

FeatureValues(row, names, columns) ==
  {<<names[k], row.cells[columns[k]]>> : k \in DOMAIN names}

ResultRow(p, row, names, columns) ==
  [id          |-> row.id,
   label       |-> IF IsClassification(p.model) THEN Label(p, row.id) ELSE Null,
   probability |-> IF IsBinary(p.model)
                   THEN Probability(row.id, PositiveIndex(p.model)) ELSE Null,
   features    |-> FeatureValues(row, names, columns),
   explained   |-> IF Explained(p) /\ IsClassification(p.model)
                   THEN ExplainedClass(p, row.id) ELSE Null,
   margin      |-> IF Explained(p) THEN Sign(p.model) * Margin(row.id) ELSE Null]

\* The rows the result filter keeps.
Kept(p, rows) ==
  LET filter == p.output.result_filter IN
  IF ~Given(filter) THEN rows
  ELSE {r \in rows : r.label \in filter.labels <=> filter.mode = "INCLUDE"}

Results(p, rows, names, columns) ==
  Kept(p, {ResultRow(p, r, names, columns) : r \in rows})
=============================================================================
