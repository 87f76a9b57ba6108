---------------------------- MODULE TrainingRows ----------------------------
(***************************************************************************)
(* What happens to the rows of a training after they are read (training.py,*)
(* _RayInputValidation and its transform): one row per entity, class       *)
(* quotas, labels replaced by their codes, the warning about short quotas. *)
(*                                                                         *)
(* groupby and limit keep whichever rows come first in Ray's blocks, so    *)
(* each operator yields every set of rows it may leave.                    *)
(***************************************************************************)
EXTENDS TrainingPlan

Values(rows, column) == {r.cells[column] : r \in rows}

\* One row of each entity; without an entity key, every row.
OnePerEntity(rows, entity) ==
  IF ~Given(entity) THEN {rows}
  ELSE {kept \in SUBSET rows :
          /\ Values(kept, entity.result_column) = Values(rows, entity.result_column)
          /\ Cardinality(kept) = Cardinality(Values(rows, entity.result_column))}

OfClass(rows, label, class) == {r \in rows : r.cells[label] = class}

\* The quotas are taken from the distinct rows, before labels are encoded.
ClassSampled(rows, label, quotas) ==
  IF quotas = <<>> THEN {rows}
  ELSE Combined([i \in DOMAIN quotas |->
                   Picks(OfClass(rows, label, quotas[i][1]), quotas[i][2])])

\* Strings are looked up in the mapping, numbers are codes already.
LabelCode(cell, mapping) ==
  IF cell = Null THEN Bad
  ELSE IF cell[1] = "num" THEN cell[2]
  ELSE IF cell[2] \in Labels(mapping) THEN mapping[cell[2]] ELSE Bad

Encodable(rows, target, classes) ==
  \A r \in rows : LabelCode(r.cells[target.result_column], target.label_mapping)
                    \in 0 .. classes - 1

Encoded(rows, target) ==
  {[r EXCEPT !.cells[target.result_column] =
      <<"num", LabelCode(@, target.label_mapping)>>] : r \in rows}

IsRegression(p) == p.target.task_type = "REGRESSION"

\* Mutant: the quotas are taken first.
Prepared_SampleFirst(rows, p, plan) ==
  LET label    == p.target.result_column
      sampled  == ClassSampled(rows, label, plan.quotas)
      distinct == UNION {OnePerEntity(s, p.data_query.entity_key) : s \in sampled}
  IN  IF IsRegression(p) THEN {<<TRUE, s>> : s \in distinct}
      ELSE {IF Encodable(s, p.target, plan.classes) THEN <<TRUE, Encoded(s, p.target)>>
            ELSE <<FALSE, {}>> : s \in distinct}

\* What validation and transform may leave of the rows; empty when the
\* labels cannot be encoded whatever was kept.
Prepared(rows, p, plan) ==
  LET label    == p.target.result_column
      distinct == OnePerEntity(rows, p.data_query.entity_key)
      sampled  == UNION {ClassSampled(d, label, plan.quotas) : d \in distinct}
  IN  IF IsRegression(p) THEN {<<TRUE, s>> : s \in sampled}
      ELSE {IF Encodable(s, p.target, plan.classes) THEN <<TRUE, Encoded(s, p.target)>>
            ELSE <<FALSE, {}>> : s \in sampled}

HasDuplicates(rows, entity) ==
  Given(entity) /\ Cardinality(Values(rows, entity.result_column)) < Cardinality(rows)

\* The classes whose counts are more than 5 % off, told by their codes: for each
\* the same warning is logged, which does not name it.
ShortClasses(rows, p) ==
  IF ~Balanced(p) THEN {}
  ELSE LET mapping == p.target.label_mapping
           Code(label) == IF label \in Labels(mapping) THEN <<"num", mapping[label]>>
                          ELSE QueryScalar(label, p.target.column_type)
           Actual(label) ==
             Cardinality(OfClass(rows, p.target.result_column, Code(label)))
           Off(label) == LET d == Actual(label) - Amounts(p)[label]
                         IN  IF d < 0 THEN -d ELSE d
       IN  {label \in DOMAIN Amounts(p) : 100 * Off(label) > 5 * Amounts(p)[label]}
=============================================================================
