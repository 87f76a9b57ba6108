---------------------------- MODULE RequestRules ----------------------------
(***************************************************************************)
(* What the Consumer admits: the KnoVa envelope (protocol.py), the rules   *)
(* of validation.py, and what broker.py hands on to the driver.            *)
(*                                                                         *)
(* A request is a record of sections, a section a record of fields.  A     *)
(* value of another JSON type, an empty text or a number out of a domain   *)
(* is Bad; None is Null; an absent key is Missing.  Texts are names,       *)
(* ratios are percents, the bounds of a search space thousandths, a path   *)
(* the sequence of its parts between slashes, and a scalar that may be a   *)
(* string or an integer the pair <<type, text>>.                           *)
(***************************************************************************)
EXTENDS Integers, FiniteSets, Sequences, SequencesExt

CONSTANTS Missing, Null, Bad

ASSUME ValueAssumption ==
  /\ Missing # Null /\ Missing # Bad /\ Null # Bad
  /\ \A x \in {Missing, Null, Bad} :
       x \notin Int /\ x \notin {"num", "str"} \X (Int \cup STRING)

Given(x) == x \notin {Missing, Null}
Obj(x)   == x \notin {Missing, Null, Bad}
Text(x)  == Obj(x)

AtLeast(x, n) == x \in Int /\ x >= n
Or(x, default) == IF x = Missing THEN default ELSE x

Texts(section, names) == \A n \in names : Text(section[n])
IsTrueOrFalse(x) == x \in {TRUE, FALSE}

-----------------------------------------------------------------------------
(* Shared parts of both requests.                                          *)

Datasource(s) ==
  /\ Obj(s)
  /\ s.type \in {"CLICKHOUSE", "DORIS", "HIVE", "JDBC"}
  /\ Texts(s, {"host", "database_name"})
  /\ s.port \in 1 .. 65535
  /\ \A n \in {"properties", "username", "password", "credential_ref"} :
       s[n] # Bad

Aliases(tables) == {tables[i].table_alias : i \in DOMAIN tables}

Primaries(tables) == {i \in DOMAIN tables : tables[i].role = "PRIMARY"}

\* Mutant: a table may be joined a second time.
Extend_Again(connected, relation, aliases) ==
  IF /\ relation.left_alias \in connected
     /\ relation.right_alias \in aliases
     /\ relation.join_type \in {"INNER", "LEFT"}
     /\ Obj(relation.on)
  THEN connected \cup {relation.right_alias}
  ELSE {}

\* The tables joined so far, extended by one relation; the empty set once a
\* relation was refused: PRIMARY is in every other value.
Extend(connected, relation, aliases) ==
  IF /\ relation.left_alias \in connected
     /\ relation.right_alias \in aliases \ connected
     /\ relation.join_type \in {"INNER", "LEFT"}
     /\ Obj(relation.on)
  THEN connected \cup {relation.right_alias}
  ELSE {}

\* The aliases joined after each number of relations.
Joined(primary, relations, aliases) ==
  LET joined[n \in 0 .. Len(relations)] ==
        IF n = 0 THEN primary ELSE Extend(joined[n - 1], relations[n], aliases)
  IN  joined

Topology(tables, rels) ==
  /\ Obj(tables) /\ tables # <<>>
  /\ \A i \in DOMAIN tables :
       /\ Texts(tables[i], {"table_alias", "database_name", "table_name"})
       /\ tables[i].role \in {"PRIMARY", "JOINED"}
  /\ Cardinality(Aliases(tables)) = Len(tables)
  /\ Cardinality(Primaries(tables)) = 1
  /\ LET relations == Or(rels, <<>>)
         aliases   == Aliases(tables)
         primary   == {tables[i].table_alias : i \in Primaries(tables)}
     IN  /\ Obj(relations)
         /\ Joined(primary, relations, aliases)[Len(relations)] = aliases

Column(c, aliases) ==
  /\ Obj(c)
  /\ c.table_alias \in aliases
  /\ Texts(c, {"column_name", "column_type", "result_column"})

ResultColumns(features) == {features[i].result_column : i \in DOMAIN features}

Features(features, aliases) ==
  /\ Obj(features) /\ features # <<>>
  /\ \A i \in DOMAIN features :
       /\ Text(features[i].feature_id)
       /\ Column(features[i], aliases)
       /\ features[i].feature_role \in {"REGULAR", "TEMPORAL_KEY", "KNOWN_FUTURE"}
       /\ features[i].treatment # Bad
  /\ Cardinality({features[i].feature_id : i \in DOMAIN features}) = Len(features)
  /\ Cardinality(ResultColumns(features)) = Len(features)

LabelMapping(m) ==
  Given(m) => Obj(m) /\ Range(m) = 0 .. Cardinality(DOMAIN m) - 1

\* `mapping or {}': an absent mapping and an empty one are the same.
Labels(m) == IF Given(m) THEN DOMAIN m ELSE {}

Query(q) ==
  /\ Obj(q)
  /\ Text(q.sql)
  /\ Obj(Or(q.params, <<>>))
  /\ \A n \in DOMAIN Or(q.params, <<>>) : Text(q.params[n])

Categories ==
  [CLASSIFICATION |-> {"BINARY_CLASSIFICATION", "MULTICLASS_CLASSIFICATION"},
   REGRESSION     |-> {"REGRESSION"},
   TIMESERIES     |-> {"TIMESERIES_FORECAST"},
   CLUSTERING     |-> {"CLUSTERING"}]

-----------------------------------------------------------------------------
(* The training request.                                                   *)

Family ==
  [xgboost |-> "CLASSIFICATION", xgboost_reg |-> "REGRESSION",
   random_forest |-> "CLASSIFICATION", random_forest_reg |-> "REGRESSION",
   logistic_regression |-> "CLASSIFICATION", kmeans |-> "CLUSTERING"]

IsXgboost(algorithm) == algorithm.algorithm_key \in {"xgboost", "xgboost_reg"}

Algorithm(a) ==
  /\ Obj(a)
  /\ a.category \in DOMAIN Categories
  /\ Text(a.algorithm_key)
  /\ a.algorithm_key \in DOMAIN Family => a.category = Family[a.algorithm_key]
  /\ Obj(a.hyper_params)

\* <<type, smallest, largest>>, in thousandths.
XgbSearch ==
  [n_estimators     |-> <<"INT", 10000, 1000000>>,
   max_depth        |-> <<"INT", 1000, 15000>>,
   learning_rate    |-> <<"FLOAT", 1, 1000>>,
   subsample        |-> <<"FLOAT", 100, 1000>>,
   colsample_bytree |-> <<"FLOAT", 100, 1000>>,
   min_child_weight |-> <<"INT", 0, 10000>>,
   gamma            |-> <<"FLOAT", 0, 5000>>,
   reg_alpha        |-> <<"FLOAT", 0, 10000>>,
   reg_lambda       |-> <<"FLOAT", 0, 10000>>]

Domain(name, d, algorithm, grid) ==
  LET catalog == IsXgboost(algorithm) IN
  /\ Obj(d)
  /\ d.type \in {"INT", "FLOAT", "ENUM", "BOOL"}
  /\ catalog => name \in DOMAIN XgbSearch /\ d.type = XgbSearch[name][1]
  /\ IF d.type \in {"INT", "FLOAT"}
     THEN /\ d.min \in Int /\ d.max \in Int
          /\ d.min <= d.max
          /\ catalog => d.min >= XgbSearch[name][2] /\ d.max <= XgbSearch[name][3]
          /\ d.type = "INT" => d.min % 1000 = 0 /\ d.max % 1000 = 0
          /\ IF Given(d.step) THEN AtLeast(d.step, 1) ELSE ~grid
          /\ Or(d.scale, "LINEAR") \in {"LINEAR", "LOG"}
     ELSE Obj(d.choices)

Scheduler(s, space, algorithm) ==
  Given(s) =>
  /\ Obj(s)
  /\ s.type \in {"NONE", "MEDIAN", "ASHA", "HYPERBAND", "PBT"}
  /\ s.type \in {"ASHA", "HYPERBAND"} =>
       /\ s.resource_param \in {"n_estimators", "data_fraction"} \ DOMAIN space
       /\ AtLeast(s.min_resource, 1) /\ AtLeast(s.max_resource, s.min_resource)
  /\ ~(s.type = "PBT" /\ IsXgboost(algorithm))

Tuning(t, algorithm) ==
  \/ t = Missing
  \/ /\ Obj(t) /\ t.mode = "MANUAL"
     /\ ~Given(t.auto_config)
  \/ /\ Obj(t) /\ t.mode = "AUTO"
     /\ Obj(t.auto_config)
     /\ LET auto == t.auto_config IN
        /\ auto.sampler \in {"GRID", "RANDOM", "BAYESIAN", "CMAES"}
        /\ AtLeast(auto.max_trials, 1)
        /\ \A n \in {"patience", "parallelism"} : Given(auto[n]) => AtLeast(auto[n], 1)
        /\ Obj(auto.search_space) /\ DOMAIN auto.search_space # {}
        /\ \A name \in DOMAIN auto.search_space :
             Domain(name, auto.search_space[name], algorithm, auto.sampler = "GRID")
        /\ Scheduler(auto.scheduler, auto.search_space, algorithm)

DataQuery(q, aliases, relations) ==
  /\ Obj(q)
  /\ q.mode \in {"DIRECT_QUERY", "TIMESERIES_PIVOT"}
  /\ IF q.mode = "DIRECT_QUERY" THEN Query(q.query) ELSE Obj(q.pivot_queries)
  /\ \/ Column(q.entity_key, aliases)
     \/ /\ ~Given(q.entity_key)
        /\ Or(relations, <<>>) = <<>>
        /\ q.mode = "DIRECT_QUERY"

Target(t, category, aliases, featureColumns) ==
  category # "CLUSTERING" =>
  /\ Obj(t)
  /\ t.task_type \in Categories[category]
  /\ Column(t, aliases) /\ t.result_column \notin featureColumns
  /\ LabelMapping(t.label_mapping)
  /\ Labels(t.label_mapping) # {} /\ Given(t.positive_label_value) =>
       /\ t.positive_label_value # Bad
       /\ t.positive_label_value[2] \in DOMAIN t.label_mapping

ClassBalance(b, category) ==
  Given(b) =>
  /\ category = "CLASSIFICATION"
  /\ Obj(b)
  /\ b.strategy \in {"NONE", "UNDERSAMPLE", "CUSTOM_AMOUNT", "OVERSAMPLE_SMOTE"}
  /\ Given(b.class_amounts) \/ b.strategy = "CUSTOM_AMOUNT" =>
       /\ Obj(b.class_amounts) /\ DOMAIN b.class_amounts # {}
       /\ \A label \in DOMAIN b.class_amounts : AtLeast(b.class_amounts[label], 1)
  /\ IF b.strategy = "OVERSAMPLE_SMOTE"
     THEN b.oversample_config \in {"SMOTE", "RANDOM_OVERSAMPLE", "ADASYN",
                                  "BORDERLINE_SMOTE"}
     ELSE ~Given(b.oversample_config)

Sampling(s, category) ==
  s # Missing =>
  /\ Obj(s)
  /\ Given(s.sample_ratio) => s.sample_ratio \in 1 .. 99
  /\ Given(s.sample_limit) => AtLeast(s.sample_limit, 1)
  /\ ClassBalance(s.class_balance, category)

Split(s, category) ==
  s # Missing =>
  /\ Obj(s)
  /\ LET ratios == <<Or(s.train_ratio, 70), Or(s.validation_ratio, 15),
                     Or(s.test_ratio, 15)>>
     IN  /\ \A i \in 1 .. 3 : ratios[i] \in 0 .. 100
         /\ ratios[1] + ratios[2] + ratios[3] = 100
  /\ Or(s.strategy, "RANDOM") \in {"RANDOM", "TIME_ORDERED"}
  /\ IsTrueOrFalse(Or(s.stratify, FALSE))
  /\ s.stratify = TRUE =>
       s.strategy # "TIME_ORDERED" /\ category = "CLASSIFICATION"

Limits ==
  {"max_epochs", "early_stopping_patience", "max_training_time_seconds"}

Resources(r) ==
  r # Missing =>
    Obj(r) /\ \A n \in Limits : Given(r[n]) => AtLeast(r[n], 1)

\* Relative, ending in a slash, and no part of it empty, `.' or `..'.
Prefix(parts) ==
  /\ Text(parts)
  /\ Len(parts) >= 2 /\ Last(parts) = ""
  /\ \A i \in 1 .. Len(parts) - 1 : parts[i] \notin {"", ".", ".."}

StorageContext(s) == Obj(s) /\ Texts(s, {"type", "bucket"}) /\ Prefix(s.prefix)

ValidTraining(p) ==
  /\ Algorithm(p.algorithm)
  /\ Datasource(p.datasource)
  /\ Topology(p.tables, p.relations)
  /\ Features(p.features, Aliases(p.tables))
  /\ DataQuery(p.data_query, Aliases(p.tables), p.relations)
  /\ Target(p.target, p.algorithm.category, Aliases(p.tables),
            ResultColumns(p.features))
  /\ Sampling(p.data_sampling, p.algorithm.category)
  /\ Split(p.data_split, p.algorithm.category)
  /\ Tuning(p.tuning, p.algorithm)
  /\ Resources(p.resource_limits)
  /\ StorageContext(p.storage_context)

-----------------------------------------------------------------------------
(* The inference request.                                                  *)

ExecutionLimits ==
  {"batch_size", "max_execution_time_seconds", "progress_report_interval_rows"}

ValidInference(p) ==
  /\ Obj(p.model)
  /\ Texts(p.model, {"model_id", "version_id", "algorithm_key"})
  /\ p.model.algorithm_category \in DOMAIN Categories
  /\ p.model.task_type \in Categories[p.model.algorithm_category]
  /\ LabelMapping(p.model.label_mapping)
  /\ Obj(p.model.storage)
  /\ Obj(p.model.model_artifacts) /\ DOMAIN p.model.model_artifacts # {}
  /\ Obj(p.input)
  /\ Datasource(p.input.datasource)
  /\ Topology(p.input.tables, p.input.relations)
  /\ Features(p.input.features, Aliases(p.input.tables))
  /\ Column(p.input.entity_key, Aliases(p.input.tables))
  /\ Query(p.input.query)
  /\ Given(p.input.expected_total_rows) => AtLeast(p.input.expected_total_rows, 0)
  /\ Obj(p.output)
  /\ Datasource(p.output.datasource)
  /\ Text(p.output.table_name)
  /\ p.execution # Missing =>
       /\ Obj(p.execution)
       /\ \A n \in ExecutionLimits :
            Given(p.execution[n]) => AtLeast(p.execution[n], 1)

Valid(p, kind) == IF kind = "training" THEN ValidTraining(p) ELSE ValidInference(p)

-----------------------------------------------------------------------------
(* The envelope, and what the broker makes of it.                          *)

\* A protocol_version is <<major, minor>>; Bad is any other text.
SupportedMajor(v) == Obj(v) /\ v[1] = 2

\* The fields the pydantic model declares, identifiers of training ("job_id")
\* and of inference ("execution_id") under one name.
Schema(p, kind) ==
  /\ Texts(p, {"tenant_id", "operation_id"})
  /\ IF kind = "training"
     THEN Texts(p, {"model_id", "version_id"}) /\ Obj(p.algorithm)
     ELSE Text(p.task_id) /\ p.model # Bad /\ p.input # Bad /\ p.output # Bad
          /\ p.execution \notin {Bad, Null}

ParseRequest(raw, outer, kind) ==
  IF raw = Bad THEN "INVALID_PAYLOAD"
  ELSE IF ~SupportedMajor(raw.protocol_version) THEN "UNSUPPORTED_PROTOCOL_VERSION"
  ELSE IF Schema(raw, kind) /\ raw.operation_id = outer /\ Valid(raw, kind) THEN "ADMITTED"
  ELSE "INVALID_PAYLOAD"

\* model_dump(exclude_none=True): null sections are dropped, null fields of
\* a section are not.
Payload(p) == [s \in DOMAIN p |-> IF p[s] = Null THEN Missing ELSE p[s]]

TimeoutSection(kind) == IF kind = "training" THEN "resource_limits" ELSE "execution"
TimeoutKey(kind) ==
  IF kind = "training" THEN "max_training_time_seconds"
                       ELSE "max_execution_time_seconds"

\* The deadline of the job; Bad stands for MappingFailure.
Deadline(p, kind) ==
  LET section == p[TimeoutSection(kind)]
      value   == IF Obj(section) THEN section[TimeoutKey(kind)] ELSE Missing
  IN  IF ~Given(value) THEN Null
      ELSE IF AtLeast(value, 1) THEN value ELSE Bad
=============================================================================
