---------------------------- MODULE TrainingPlan ----------------------------
(***************************************************************************)
(* The driver's plan of an admitted training request (training.py,         *)
(* _build_execution): what is refused as INVALID_PAYLOAD, what is read,    *)
(* under which names, with which split, rounds and positive class, and     *)
(* where the Bundle goes.                                                  *)
(*                                                                         *)
(* A location is [scheme, host, path], its path a sequence of parts.       *)
(***************************************************************************)
EXTENDS QueryPlan

CONSTANT Environment    \* the environment variables that are set

-----------------------------------------------------------------------------
(* Columns.                                                                *)

Columns(p) ==
  {p.features[i] : i \in DOMAIN p.features}
    \cup {p.target}
    \cup {c \in {p.data_query.entity_key} : Given(c)}

ColumnMapping(p) == {<<c.column_name, c.result_column>> : c \in Columns(p)}

OneToOne(pairs) == \A a, b \in pairs : a[1] = b[1] <=> a[2] = b[2]

Sources(pairs) == {pair[1] : pair \in pairs}
FeatureNames(p) == [i \in DOMAIN p.features |-> p.features[i].result_column]

-----------------------------------------------------------------------------
(* Storage.                                                                *)

Shared == {"nfs", "nas", "shared_fs"}

\* The elements at some positions, in their order.
Subsequence(seq, positions) ==
  LET upTo[n \in 0 .. Len(seq)] ==
        IF n = 0 THEN <<>>
        ELSE IF n \in positions THEN Append(upTo[n - 1], seq[n]) ELSE upTo[n - 1]
  IN  upTo[Len(seq)]

Nonempty(parts) ==
  Subsequence(parts, {i \in DOMAIN parts : parts[i] \notin {"", "."}})

\* An absolute path below root, without `..'.
AbsolutePath(parts) ==
  /\ Text(parts) /\ Len(parts) > 1 /\ parts[1] = ""
  /\ ".." \notin ToSet(parts)
  /\ Nonempty(parts) # <<>>

\* bucket.strip("/")
Stripped(parts) ==
  LET named == {i \in DOMAIN parts : parts[i] # ""}
  IN  IF named = {} THEN <<>> ELSE SubSeq(parts, Min(named), Max(named))

BucketName(parts) == Len(Stripped(parts)) = 1

\* `if configured_ray_path': a null and an empty path are none.
Unset(path) == path \in {Missing, Null, <<"">>}

StoragePlannable(s) ==
  /\ s.properties \notin {Null, Bad}
  /\ \/ s.type \in Shared /\ AbsolutePath(s.bucket)
     \/ s.type = "s3" /\ BucketName(s.bucket)
  /\ Unset(s.ray_storage_path) \/ AbsolutePath(s.ray_storage_path)

BundleLocation(s) ==
  IF s.type = "s3"
  THEN [scheme |-> "s3", host |-> Stripped(s.bucket)[1], path |-> Front(s.prefix)]
  ELSE [scheme |-> "file", host |-> "", path |-> Nonempty(s.bucket) \o Front(s.prefix)]

CheckpointLocation(s) ==
  IF ~Unset(s.ray_storage_path)
  THEN [scheme |-> "file", host |-> "", path |-> Nonempty(s.ray_storage_path)]
  ELSE IF s.type = "s3"
  THEN [BundleLocation(s) EXCEPT !.path = Append(@, "_ray-checkpoints")]
  ELSE [scheme |-> "file", host |-> "", path |-> Nonempty(s.bucket)]

-----------------------------------------------------------------------------
(* Split, objective, rounds, positive class.                               *)

Field(section, name, default) ==
  IF section = Missing THEN default ELSE Or(section[name], default)

SplitPlannable(split) ==
  /\ Field(split, "train_ratio", 70) > 0
  /\ Field(split, "stratify", FALSE) = FALSE
  /\ Field(split, "random_seed", 42) \in Int \cup {Null}
  /\ Field(split, "cross_validation", FALSE) = FALSE

\* Seeds are taken modulo 2^32; SeedSpace stands for it.
SeedSpace == 1024

SplitPlan(split) ==
  LET seed == Field(split, "random_seed", 42) IN
  [train      |-> Field(split, "train_ratio", 70),
   validation |-> Field(split, "validation_ratio", 15),
   test       |-> Field(split, "test_ratio", 15),
   seed       |-> (IF seed = Null THEN 42 ELSE seed) % SeedSpace,
   strategy   |-> Field(split, "strategy", "RANDOM")]

\* An objective is <<family, name>>: "binary:logistic" is of the family "binary".
\* A task accepts one family.
ObjectiveOf ==
  [BINARY_CLASSIFICATION |-> "binary", MULTICLASS_CLASSIFICATION |-> "multi",
   REGRESSION |-> "reg"]

ClassCount(p) ==
  IF p.target.task_type # "MULTICLASS_CLASSIFICATION" THEN 2
  ELSE IF Given(p.algorithm.hyper_params.num_class) THEN p.algorithm.hyper_params.num_class
  ELSE Cardinality(Labels(p.target.label_mapping))

DefaultObjective ==
  [BINARY_CLASSIFICATION |-> <<"binary", "logistic">>,
   MULTICLASS_CLASSIFICATION |-> <<"multi", "softprob">>,
   REGRESSION |-> <<"reg", "squarederror">>]

Objective(p) ==
  LET asked == p.algorithm.hyper_params.objective IN
  IF Given(asked) THEN asked ELSE DefaultObjective[p.target.task_type]

ObjectivePlannable(p) ==
  /\ p.target.task_type \in DOMAIN ObjectiveOf
  /\ Objective(p) # Bad /\ Objective(p)[1] = ObjectiveOf[p.target.task_type]
  /\ AtLeast(ClassCount(p), 2)

\* KnoVa's metric names in XGBoost's words; the others are left out.
Metrics ==
  [binary |-> [auc |-> "auc", accuracy |-> "error", loss |-> "logloss"],
   multi  |-> [auc |-> "auc", accuracy |-> "merror", loss |-> "mlogloss"],
   reg    |-> [rmse |-> "rmse", mae |-> "mae", mape |-> "mape", loss |-> "rmse"]]

EvaluationPlannable(e) ==
  e # Missing => /\ Obj(e)
                 /\ e.metrics \notin {Null, Bad}
                 /\ e.artifacts \notin {Null, Bad}

ProcessMetrics(p) ==
  LET known  == Metrics[ObjectiveOf[p.target.task_type]]
      wanted == Field(p.evaluation, "metrics", {})
  IN  {known["loss"]} \cup {known[m] : m \in wanted \cap DOMAIN known}

RequestedRounds(p) ==
  Or(p.algorithm.hyper_params.n_estimators,
     Or(p.algorithm.hyper_params.num_rounds, 100))
MaxEpochs(p) == Field(p.resource_limits, "max_epochs", 1000)

Rounds(p) == Min({RequestedRounds(p), MaxEpochs(p)})

\* The code of the positive class; Bad when the request names none.
PositiveCode(target) ==
  LET positive == target.positive_label_value
      mapping  == target.label_mapping
  IN  IF ~Given(positive) THEN 1
      ELSE IF positive = Bad THEN Bad
      ELSE IF Labels(mapping) # {}
      THEN IF positive[2] \in DOMAIN mapping THEN mapping[positive[2]] ELSE Bad
      ELSE IF positive[2] \in {"0", "1"} THEN NumberOf(positive[2]) ELSE Bad

EarlyStopping(p) ==
  Field(p.resource_limits, "early_stopping_patience",
        p.algorithm.hyper_params.early_stopping_rounds)

AlgorithmPlannable(p) ==
  /\ IsXgboost(p.algorithm)
  /\ ObjectivePlannable(p)
  /\ AtLeast(RequestedRounds(p), 1)
  /\ AtLeast(MaxEpochs(p), 1)
  /\ EvaluationPlannable(p.evaluation)
  /\ SplitPlannable(p.data_split)
  /\ p.target.task_type = "BINARY_CLASSIFICATION" => PositiveCode(p.target) \in {0, 1}
  /\ Given(EarlyStopping(p)) =>
       /\ AtLeast(EarlyStopping(p), 1)
       /\ SplitPlan(p.data_split).validation > 0

\* Target encoding: every class of the model has its code.
EncoderPlannable(p) ==
  p.target.task_type # "REGRESSION" /\ Labels(p.target.label_mapping) # {} =>
    Range(p.target.label_mapping) = 0 .. ClassCount(p) - 1

-----------------------------------------------------------------------------
(* Extensions: hints that are used when they are well formed.              *)

Hint(extensions, name, allowed, default) ==
  IF /\ Obj(extensions) /\ name \in DOMAIN extensions
     /\ extensions[name] \in allowed
  THEN extensions[name] ELSE default

Workers(extensions)       == Hint(extensions, "num_workers", Nat \ {0, 1}, 2)
CpusPerWorker(extensions) == Hint(extensions, "cpus_per_worker", Nat \ {0}, 1)
UseGpu(extensions)        == Hint(extensions, "use_gpu", {TRUE, FALSE}, FALSE)

Treatments ==
  [missing_value_strategy |-> {"AUTO"}, outlier_strategy |-> {"AUTO", "NONE"},
   scaling_method |-> {"AUTO", "NONE"}, encoding_method |-> {"AUTO", "NONE"}]

\* Preprocessing this runtime cannot apply, in a feature or as the default.
TreatmentsPlannable(p) ==
  \A i \in DOMAIN p.features :
    LET treatment == p.features[i].treatment
        defaults  == p.feature_engineering
        Asked(f)  == IF Obj(treatment) /\ Given(treatment[f]) THEN treatment[f]
                     ELSE IF Obj(defaults) THEN defaults[f] ELSE Null
    IN  /\ defaults # Bad
        /\ Obj(treatment) =>
             treatment.treatment_type \in {Missing, Null, "AUTO", "NUMERIC"}
        /\ \A f \in DOMAIN Treatments :
             Given(Asked(f)) => Asked(f) \in Treatments[f]

-----------------------------------------------------------------------------
(* The read.                                                               *)

DeclaredTable(p) == p.tables[1]

\* The names under which a query may call the declared table.
TableNames(t) == {<<t.table_name>>, <<t.database_name, t.table_name>>}

\* properties.native_table, a name of one or two parts.
NativeTable(p) ==
  LET native == Field(p.datasource.properties, "native_table", Missing) IN
  Given(native) =>
    /\ Text(native) /\ Len(native) \in {1, 2}
    /\ Last(native) = DeclaredTable(p).table_name
    /\ Len(native) = 2 => native[1] = DeclaredTable(p).database_name

\* Plain columns, each once, of the one table and under the declared names.
Projection(q, p) ==
  /\ Cardinality(Pairs(q.projection)) = Len(q.projection)
  /\ OneToOne(Pairs(q.projection))
  /\ \A i \in DOMAIN q.projection :
       q.alias # Missing => q.projection[i].alias \in {Missing, q.alias}
  /\ Pairs(q.projection) = ColumnMapping(p)

Amounts(p) == p.data_sampling.class_balance.class_amounts

Balanced(p) ==
  /\ p.data_sampling # Missing
  /\ Given(p.data_sampling.class_balance)
  /\ p.data_sampling.class_balance.strategy # "NONE"

\* One branch of the UNION ALL: the rows of one class, at most so many.
Branch(b, p, params) ==
  /\ Len(b.where) = 1 /\ b.limit # Missing /\ b.limit >= 1
  /\ b.table \in TableNames(DeclaredTable(p))
  /\ LET w == b.where[1] IN
     /\ w.op = "="
     /\ b.alias # Missing => w.alias \in {Missing, b.alias}
     /\ w.column = p.target.column_name
     /\ Projection(b, p)
     /\ w.param \in DOMAIN params
     /\ params[w.param] \in DOMAIN Amounts(p)
     /\ b.limit = Amounts(p)[params[w.param]]
     /\ QueryScalar(params[w.param], w.type) # Bad

Params(query) == Or(query.params, <<>>)

SamplerPlannable(p) ==
  LET sql    == p.data_query.query.sql
      params == Params(p.data_query.query)
  IN  /\ p.data_sampling.class_balance.strategy \in {"UNDERSAMPLE", "CUSTOM_AMOUNT"}
      /\ Given(Amounts(p))
      /\ sql.kind = "union"
      /\ Len(p.tables) = 1
      /\ Len(sql.branches) = Cardinality(DOMAIN Amounts(p))
      /\ \A i \in DOMAIN sql.branches : Branch(sql.branches[i], p, params)
      /\ LET used == {sql.branches[i].where[1].param : i \in DOMAIN sql.branches} IN
         /\ Cardinality(used) = Len(sql.branches)
         /\ used = DOMAIN params
         /\ {params[n] : n \in used} = DOMAIN Amounts(p)

\* <<class, rows>> in the order of the branches.
Quotas(p) ==
  LET params == Params(p.data_query.query) IN
  [i \in DOMAIN p.data_query.query.sql.branches |->
     LET b == p.data_query.query.sql.branches[i]
     IN  <<QueryScalar(params[b.where[1].param], b.where[1].type), b.limit>>]

SelectPlannable(p) ==
  LET sql    == p.data_query.query.sql
      params == Params(p.data_query.query)
  IN  /\ sql.kind = "select" /\ ~sql.nested /\ ~sql.order
      /\ Len(p.tables) = 1
      /\ sql.table \in TableNames(DeclaredTable(p))
      /\ sql.alias \in {Missing, DeclaredTable(p).table_alias}
      /\ Projection(sql, p)
      /\ \A i \in DOMAIN sql.where : LET w == sql.where[i] IN
           /\ w.alias \in {Missing, sql.alias}
           /\ w.param \in DOMAIN params
           /\ QueryScalar(params[w.param], w.type) # Bad
      /\ {sql.where[i].param : i \in DOMAIN sql.where} = DOMAIN params

\* Mutant: the limit is pushed down to the scan, before the filters.
SelectSteps_LimitFirst(p) ==
  LET sql    == p.data_query.query.sql
      params == Params(p.data_query.query)
      filters == [i \in DOMAIN sql.where |->
                    Filter(sql.where[i].column, sql.where[i].op,
                           QueryScalar(params[sql.where[i].param], sql.where[i].type))]
      limits == IF sql.limit = Missing THEN <<>> ELSE <<LimitTo(sql.limit)>>
  IN  limits \o filters \o <<SelectOnly(Sources(ColumnMapping(p)))>>

\* Filters in the order of the clause, then the limit, then the columns the
\* model needs: a column that is only filtered must not become a feature.
SelectSteps(p) ==
  LET sql    == p.data_query.query.sql
      params == Params(p.data_query.query)
      filters == [i \in DOMAIN sql.where |->
                    Filter(sql.where[i].column, sql.where[i].op,
                           QueryScalar(params[sql.where[i].param], sql.where[i].type))]
      limits == IF sql.limit = Missing THEN <<>> ELSE <<LimitTo(sql.limit)>>
      steps  == filters \o limits
  IN  IF steps = <<>> THEN <<>>
      ELSE Append(steps, SelectOnly(Sources(ColumnMapping(p))))

TrainingSteps(p) ==
  (IF Balanced(p) THEN <<>> ELSE SelectSteps(p))
    \o <<RenameTo(ColumnMapping(p))>>

ScannedColumns(p) ==
  LET steps == TrainingSteps(p) IN
  Sources(ColumnMapping(p))
    \cup {steps[i].column : i \in {j \in DOMAIN steps : steps[j].kind = "filter"}}

\* A reference to the environment comes first, an inline password second.
\* Null stands for the empty password.
Password(ds, default) ==
  IF Given(ds.credential_ref) THEN
    IF ds.credential_ref \in Environment THEN ds.credential_ref ELSE Null
  ELSE IF Given(ds.password) THEN "inline"
  ELSE IF default \in Environment THEN default ELSE Null

DatasourcePlannable(ds) ==
  /\ ds.type = "CLICKHOUSE"
  /\ ds.properties \notin {Null, Bad}
  /\ ds.credential_ref # "not env://"

\* What _build_execution() accepts.  Whatever else it raises, execute_training()
\* makes the same INVALID_PAYLOAD of it (1678-1684), as of the KeyError of a
\* clustering without a target.
Plannable(p) ==
  /\ ValidTraining(p)
  /\ p.data_query.mode = "DIRECT_QUERY"
  /\ TreatmentsPlannable(p)
  /\ p.target # Missing
  /\ StoragePlannable(p.storage_context)
  /\ AlgorithmPlannable(p)
  /\ DatasourcePlannable(p.datasource)
  /\ OneToOne(ColumnMapping(p))
  /\ IF Balanced(p) THEN SamplerPlannable(p) ELSE SelectPlannable(p)
  /\ NativeTable(p)
  /\ DeclaredTable(p).database_name = p.datasource.database_name
  /\ EncoderPlannable(p)

TrainingPlan(p) ==
  [columns    |-> ScannedColumns(p),
   steps      |-> TrainingSteps(p),
   quotas     |-> IF Balanced(p) THEN Quotas(p) ELSE <<>>,
   features   |-> FeatureNames(p),
   rounds     |-> Rounds(p),
   split      |-> SplitPlan(p.data_split),
   early      |-> EarlyStopping(p),
   objective  |-> Objective(p),
   positive   |-> PositiveCode(p.target),
   classes    |-> ClassCount(p),
   metrics    |-> ProcessMetrics(p),
   workers    |-> Workers(p.extensions),
   resources  |-> <<CpusPerWorker(p.extensions), UseGpu(p.extensions)>>,
   bundle     |-> BundleLocation(p.storage_context),
   checkpoint |-> CheckpointLocation(p.storage_context),
   password   |-> Password(p.datasource, "TRIBUTO_CLICKHOUSE_PASSWORD")]
=============================================================================
