---------------------------- MODULE InferencePlan ----------------------------
(***************************************************************************)
(* The plan of a batch inference (inference.py, _build_request): which     *)
(* requests this runtime refuses and with which code, what is read, in     *)
(* which order features reach the model, in batches of which size.         *)
(***************************************************************************)
EXTENDS ModelArtifacts

IsBinary(model) == model.task_type = "BINARY_CLASSIFICATION"
IsClassification(model) ==
  model.task_type \in {"BINARY_CLASSIFICATION", "MULTICLASS_CLASSIFICATION"}

-----------------------------------------------------------------------------
(* Labels.                                                                 *)

\* Mutant: the positive class is the one with code 1.
PositiveIndex_One(model) == 1

\* The index of the positive class; Bad when the declaration is refused.
PositiveIndex(model) ==
  LET mapping  == model.label_mapping
      positive == model.positive_label_value
  IN  IF Labels(mapping) # {} /\ Range(mapping) # {0, 1} THEN Bad
      ELSE IF ~Given(positive) THEN 1
      ELSE IF positive = Bad THEN Bad
      ELSE IF Labels(mapping) # {}
      THEN IF positive[1] = "str" /\ positive[2] \in DOMAIN mapping
           THEN mapping[positive[2]] ELSE Bad
      ELSE IF positive[2] \in {"0", "1"} THEN NumberOf(positive[2]) ELSE Bad

LabelText(model, code) ==
  LET mapping == model.label_mapping
      labels  == {l \in Labels(mapping) : mapping[l] = code}
  IN  IF labels = {} THEN ToString(code) ELSE CHOOSE l \in labels : TRUE

\* extensions.decision_threshold, in percent: a hint, used for binary models
\* when it is a number of the interval.
Threshold(p) ==
  IF Obj(p.extensions) /\ IsBinary(p.model)
       /\ p.extensions.decision_threshold \in 0 .. 100
  THEN p.extensions.decision_threshold ELSE Null

FilterOK(model, filter) ==
  Given(filter) =>
  /\ IsClassification(model)
  /\ Obj(filter)
  /\ filter.mode \in {"INCLUDE", "EXCLUDE"}
  /\ Obj(filter.labels) /\ filter.labels \subseteq Labels(model.label_mapping)

-----------------------------------------------------------------------------
(* The query.                                                              *)

InputTable(input) == input.tables[1]

LayoutOK(input) ==
  /\ Len(input.tables) = 1
  /\ Cardinality({input.features[i].column_name : i \in DOMAIN input.features})
       = Len(input.features)

\* What the query has to select: the entity, and the features after it.
Expected(input) ==
  LET features == {<<input.features[i].column_name, input.features[i].result_column>> :
                     i \in DOMAIN input.features}
      entity == <<input.entity_key.column_name, input.entity_key.result_column>>
  IN  features \cup IF entity[1] \in Sources(features) THEN {} ELSE {entity}

\* One table, plain columns, AND-combined typed filters, at most one LIMIT;
\* an ORDER BY would decide which rows the LIMIT keeps.
QueryOK(input) ==
  LET q      == input.query.sql
      table  == InputTable(input)
      params == Params(input.query)
  IN  /\ q.kind = "select" /\ ~q.order
      /\ q.nested => q.limit # Missing
      /\ q.table = <<table.database_name, table.table_name>>
      /\ q.alias = table.table_alias
      /\ \A i \in DOMAIN q.where : LET w == q.where[i] IN
           /\ w.alias \in {Missing, table.table_alias}
           /\ w.param \in DOMAIN params
           /\ TypedParameter(params[w.param], w.type) # Bad
      /\ \A i \in DOMAIN q.projection :
           q.projection[i].alias \in {Missing, table.table_alias}
      /\ Cardinality(Pairs(q.projection)) = Len(q.projection)
      /\ OneToOne(Pairs(q.projection))
      /\ Pairs(q.projection) = Expected(input)

InputSteps(input) ==
  LET q      == input.query.sql
      params == Params(input.query)
  IN  [i \in DOMAIN q.where |->
         Filter(q.where[i].column, q.where[i].op,
                TypedParameter(params[q.where[i].param], q.where[i].type))]
        \o (IF q.limit = Missing THEN <<>> ELSE <<LimitTo(q.limit)>>)

InputColumns(input) ==
  {input.entity_key.column_name}
    \cup {input.features[i].column_name : i \in DOMAIN input.features}
    \cup {input.query.sql.where[i].column : i \in DOMAIN input.query.sql.where}

-----------------------------------------------------------------------------
(* Datasources.                                                            *)

\* Unlike training, an inference refuses a reference to a variable that is
\* not set.
CredentialOK(ds) == Given(ds.credential_ref) => ds.credential_ref \in Environment

ClickHouse(ds) ==
  /\ ds.type = "CLICKHOUSE"
  /\ ds.properties \notin {Null, Bad}
  /\ LET port == Field(ds.properties, "http_port", ds.port) IN
     Given(port) => AtLeast(port, 1)
  /\ CredentialOK(ds)

-----------------------------------------------------------------------------
(* Batches.                                                                *)

\* extensions.tributo.inference_runtime: positive integers are options.
Option(p, name, default) ==
  LET e == p.extensions IN
  IF Obj(e) /\ Obj(e.inference_runtime) /\ name \in DOMAIN e.inference_runtime
       /\ AtLeast(e.inference_runtime[name], 1)
  THEN e.inference_runtime[name] ELSE default

DefaultMin == 50000
DefaultMax == 200000

Ceiling(n, d) == (n + d - 1) \div d

\* <<smallest, largest>> batch; the defaults when the two are not in order.
BatchBounds(p) ==
  LET low  == Option(p, "adaptive_min_batch_size", DefaultMin)
      high == Option(p, "adaptive_max_batch_size", DefaultMax)
  IN  IF low > high THEN <<DefaultMin, DefaultMax>> ELSE <<low, high>>

\* measured is Null before the rows are counted, override is Null unless an
\* attempt ran out of memory.
BaseBatch(p, measured, override) ==
  LET bounds == BatchBounds(p) IN
  IF override # Null THEN override
  ELSE IF measured # Null /\ measured > 0
  THEN Min({measured, bounds[2],
            Max({bounds[1],
                 Ceiling(measured, Option(p, "adaptive_target_batches", 20))})})
  ELSE IF Given(Field(p.execution, "batch_size", Missing)) THEN p.execution.batch_size
  ELSE 4096

SinkBatch(p, base) ==
  Option(p, "sink_batch_size", Min({base, BatchBounds(p)[1], 50000}))

\* Mutant: an explicit predictor batch survives the retry.
Batches_Explicit(p, measured, override) ==
  LET base == BaseBatch(p, measured, override) IN
  [predictor |-> Option(p, "predictor_batch_size", base),
   sink      |-> SinkBatch(p, base)]

\* The predictor's and the writer's batch.
Batches(p, measured, override) ==
  LET base == BaseBatch(p, measured, override) IN
  [predictor |-> IF override # Null THEN override
                 ELSE Option(p, "predictor_batch_size", base),
   sink      |-> SinkBatch(p, base)]

-----------------------------------------------------------------------------
(* Explanation, and the plan as a whole.                                   *)

Explained(p) ==
  /\ Obj(p.extensions)
  /\ p.extensions.explanation \in {"exact", "approximate"}
  /\ p.model.algorithm_key = "xgboost"

ReferenceCode(model) ==
  FirstFailure(
    << <<StorageRootOK(model.storage), "INVALID_PAYLOAD">>,
       <<ManifestOK(model.model_artifacts), "INVALID_PAYLOAD">>,
       <<ManifestOK(model.model_artifacts) => PartsSupported(model.model_artifacts),
         "MODEL_FORMAT_UNSUPPORTED">> >>)

\* The code of the first rule of _build_request that refuses the request.
InferenceCode(p) ==
  LET first == FirstFailure(
        << <<ValidInference(p), "INVALID_PAYLOAD">>,
           <<ValidInference(p) =>
               /\ IsBinary(p.model) => PositiveIndex(p.model) # Bad
               /\ ~Given(p.input.timeseries_pivot)
               /\ FilterOK(p.model, p.output.result_filter)
               /\ LayoutOK(p.input)
               /\ QueryOK(p.input)
               /\ ClickHouse(p.input.datasource)
               /\ LET actors == Field(p.execution, "concurrency", Missing) IN
                  Given(actors) => AtLeast(actors, 1),
             "INVALID_PAYLOAD">> >>)
      reference == ReferenceCode(p.model)
  IN  IF first # "OK" THEN first
      ELSE IF reference # "OK" THEN reference
      ELSE IF Usable(p.model.model_artifacts) = {} THEN "MODEL_FORMAT_UNSUPPORTED"
      ELSE IF /\ p.model.task_type \in DOMAIN ObjectiveOf
              /\ Explained(p) =>
                   Alternative(p.model.model_artifacts, "xgboost").format = "xgboost"
              /\ ClickHouse(p.output.datasource)
      THEN "OK" ELSE "INVALID_PAYLOAD"

RequestedColumns(input) ==
  [i \in DOMAIN input.features |-> input.features[i].column_name]

\* The physical columns in the order of the model's feature names.
ModelOrder(input, names) ==
  [k \in DOMAIN names |->
     input.features[CHOOSE i \in DOMAIN input.features :
                      input.features[i].result_column = names[k]].column_name]

InferencePlan(p) ==
  [columns |-> InputColumns(p.input), steps |-> InputSteps(p.input),
   tensor  |-> RequestedColumns(p.input), names |-> <<>>,
   batches |-> Batches(p, Null, Null)]

-----------------------------------------------------------------------------
(* _prepare_model: what has to be so of the stored models.                 *)

Chosen(p) == Alternative(p.model.model_artifacts, "onnx")
Native(p) == Alternative(p.model.model_artifacts, "xgboost")

Location(p, alternative) ==
  At(StorageRoot(p.model.storage), WeightFile(alternative).path)

ModelNames(store, p, alternative) ==
  NamesIn(store, StorageRoot(p.model.storage), alternative)

ModelClasses(store, p, alternative) ==
  ClassesIn(Contents[Read(store, Location(p, alternative))], p.model.task_type)

\* The features of the model are those of the request, in whatever order.
PredictorCode(store, p) ==
  LET code == VerifiedCode(store, p.model, "onnx") IN
  IF code # "OK" THEN code
  ELSE IF ToSet(ModelNames(store, p, Chosen(p))) = ResultColumns(p.input.features)
  THEN "OK" ELSE "MODEL_SCHEMA_MISMATCH"

\* The model that explains is the model that predicts, as far as names and
\* classes tell.
ExplainerCode(store, p, names, classes) ==
  LET code == VerifiedCode(store, p.model, "xgboost") IN
  IF code # "OK" THEN code
  ELSE IF /\ ModelNames(store, p, Native(p)) = names
          /\ ModelClasses(store, p, Native(p)) = classes
  THEN "OK" ELSE "MODEL_SCHEMA_MISMATCH"
=============================================================================
