--------------------------- MODULE MCRequestPath ---------------------------
(***************************************************************************)
(* The requests, tables and stored files on which TLC runs RequestPath.    *)
(* Base holds one request of each kind that goes through; Variants holds,  *)
(* section by section, what KnoVa might send instead, right or wrong.      *)
(***************************************************************************)
EXTENDS RequestPath

Num(n) == <<"num", n>>
Str(s) == <<"str", s>>
Col(c, alias, result, type) ==
  [table_alias |-> alias, column_name |-> c, column_type |-> type,
   result_column |-> result]

MCColumnTypes ==
  [id |-> "str", age |-> "num", pay |-> "num", city |-> "str", label |-> "str"]

Row(id, entity, age, label) ==
  [id |-> id,
   cells |-> [id |-> Str(entity), age |-> Num(age), pay |-> Num(10 - age),
              city |-> Str("1"), label |-> label]]

\* Distinct entities; one entity twice, with another label; labels that no
\* mapping knows.
MCTables ==
  [plain   |-> {Row(1, "a", 1, Str("no")), Row(2, "b", 2, Str("yes")),
                Row(3, "c", 3, Str("yes"))},
   twice   |-> {Row(1, "a", 1, Str("no")), Row(2, "a", 2, Str("no")),
                Row(3, "b", 2, Str("yes")), Row(4, "a", 3, Str("yes"))},
   unknown |-> {Row(1, "a", 1, Str("no")), Row(2, "b", 2, Str("maybe")),
                Row(3, "c", 3, Null)}]

MCScore == <<20, 50, 80, 65>>

-----------------------------------------------------------------------------
(* Queries.                                                                *)

Item(c, result) == [alias |-> "t", source |-> c, result |-> result]
Where(c, oper, param, type) ==
  [alias |-> "t", column |-> c, op |-> oper, param |-> param, type |-> type]

Select(projection, where, limit) ==
  [kind |-> "select", projection |-> projection, table |-> <<"db", "people">>,
   alias |-> "t", where |-> where, limit |-> limit, order |-> FALSE,
   nested |-> FALSE]

Younger == <<Where("age", ">=", "p", <<"Int64">>)>>
OfLabel(param) == <<Where("label", "=", param, <<"String">>)>>

TrainingItems ==
  <<Item("age", "f1"), Item("pay", "f2"), Item("label", "y"), Item("id", "id")>>
InferenceItems == <<Item("id", "id"), Item("age", "f1"), Item("pay", "f2")>>

Asked(sql, params) == [sql |-> sql, params |-> params]
P(text) == [n \in {"p"} |-> text]

\* One branch of a class sample.
Sample(param, limit) == Select(TrainingItems, OfLabel(param), limit)
Union(m, n) == [kind |-> "union", branches |-> <<Sample("no", m), Sample("yes", n)>>]
NoYes == [no |-> "no", yes |-> "yes"]

TrainingQueries ==
  LET S(where, limit) == Select(TrainingItems, where, limit) IN
  { Asked(S(Younger, 2), P("2")),
    Asked(S(Younger, 1), P("2")),
    Asked(S(Younger, Missing), P("300")),
    Asked(S(<<>>, 2), Missing),
    Asked(S(<<Where("city", "=", "p", <<"LowCardinality", "String">>)>>, Missing), P("1")),
    Asked(S(<<Where("age", "!=", "p", <<"Nullable", "Int64">>)>>, Missing), P("2")),
    Asked(S(<<Where("height", "<", "p", <<"Int64">>)>>, Missing), P("2")),
    Asked(S(<<Where("age", "<", "p", <<"Date">>)>>, Missing), P("2")),
    Asked(S(<<>>, Missing), P("2")),
    Asked(S(Younger, Missing), Missing),
    Asked(S(Younger, Missing), P(Null)),
    Asked([S(<<>>, Missing) EXCEPT !.order = TRUE], Missing),
    Asked([S(<<>>, Missing) EXCEPT !.table = <<"people">>, !.alias = Missing], Missing),
    Asked([S(<<>>, Missing) EXCEPT !.table = <<"other">>], Missing),
    Asked(Select(Tail(TrainingItems), <<>>, Missing), Missing),
    Asked(Union(1, 1), NoYes), Asked(Union(2, 2), NoYes), Asked(Union(2, 1), NoYes),
    Asked(Union(1, 1), P("no")),
    Asked(Select(<<Item("age", "f2"), Item("pay", "f1")>> \o SubSeq(TrainingItems, 3, 4),
                 <<>>, Missing), Missing),
    Asked([kind |-> "other"], Missing) }

InferenceQueries ==
  LET S(where, limit) == Select(InferenceItems, where, limit) IN
  { Asked(S(Younger, 1), P("2")),
    Asked(S(Younger, 0), P("2")),
    Asked(S(Younger, Missing), P("300")),
    Asked([S(Younger, 2) EXCEPT !.nested = TRUE], P("1")),
    Asked([S(Younger, Missing) EXCEPT !.nested = TRUE], P("1")),
    Asked([S(Younger, 2) EXCEPT !.order = TRUE], P("1")),
    Asked(S(<<Where("city", "=", "p", <<"String">>)>>, Missing), P("1")),
    Asked(S(<<Where("age", "=", "p", <<"String">>)>>, Missing), P("2")),
    Asked(S(<<Where("age", "<", "p", <<"UInt8">>)>>, Missing), P("300")),
    Asked(S(<<Where("age", ">=", "p", <<"Nullable", "Int64">>)>>, Missing), P("2")),
    Asked(S(<<Where("height", "<", "p", <<"Int64">>)>>, Missing), P("2")),
    Asked([S(Younger, Missing) EXCEPT !.table = <<"people">>], P("2")),
    Asked(Select(Tail(InferenceItems), <<>>, Missing), Missing),
    Asked([kind |-> "other"], Missing) }

-----------------------------------------------------------------------------
(* Models and their files.                                                 *)

F12 == <<"f1", "f2">>
F21 == <<"f2", "f1">>

Logistic == <<"binary", "logistic">>
RawLogit == <<"binary", "logitraw">>
Softprob == <<"multi", "softprob">>
Squared  == <<"reg", "squarederror">>
NoFit    == <<"any", "any">>

Tensors(objective) ==
  Signature(IF objective = Squared THEN "REGRESSION" ELSE "BINARY_CLASSIFICATION")
OwnNames == [inputs |-> <<"x">>, outputs |-> <<"class", "p">>]

Content(format, objective, names, flaw) ==
  [format |-> format, size |-> 1, objective |-> objective,
   loads |-> flaw # "unloadable", external |-> flaw = "external",
   tensors |-> IF flaw = "renamed" THEN OwnNames ELSE Tensors(objective),
   shaped |-> flaw # "shapeless",
   classes |-> IF flaw = "widthless" \/ objective = Squared THEN Missing
               ELSE IF objective = Softprob /\ flaw # "two" THEN 3 ELSE 2,
   names |-> names, width |-> IF flaw = "narrow" THEN 1 ELSE 2]

Objectives == {Logistic, RawLogit, Softprob, Squared}

ContentNames ==
  ({"onnx"} \X Objectives \X {F12, F21} \X {"none"})
    \cup ({"ubj"} \X Objectives \X {<<>>, F12, F21} \X {"none"})
    \cup ({"json"} \X {NoFit} \X {F12, F21} \X {"none"})
    \cup ({"onnx"} \X {Logistic} \X {F12}
            \X {"unloadable", "external", "renamed", "shapeless", "widthless", "narrow"})
    \cup ({"onnx"} \X {Softprob} \X {F12, F21} \X {"two"})
    \cup {<<"onnx", Logistic, <<>>, "none">>, <<"ubj", Softprob, <<>>, "two">>}

MCContents == [c \in ContentNames |-> Content(c[1], c[2], c[3], c[4])]

Onnx(objective, names) == <<"onnx", objective, names, "none">>
Ubj(objective, names)  == <<"ubj", objective, names, "none">>
Sidecar(names)         == <<"json", NoFit, names, "none">>
Flawed(flaw)           == <<"onnx", Logistic, F12, flaw>>

ArtifactFile(path, content) == [path |-> path, content |-> content]

\* The exporters leave both models, or fail to leave the ONNX one.
MCBundles ==
  LET OnnxOf(k) == [name |-> "model-onnx", format |-> "onnx", signature |-> Tensors(k[1]),
                    files |-> <<ArtifactFile(<<"model.onnx">>,
                                             <<"onnx", k[1], k[2], k[3]>>)>>]
      UbjOf(k)  == [name |-> "model-ubj", format |-> "ubj",
                    files |-> <<ArtifactFile(<<"model.ubj">>, <<"ubj", k[1], <<>>, k[3]>>),
                                ArtifactFile(<<"feature_names.json">>, Sidecar(k[2]))>>]
      keys == (Objectives \X {F12, F21} \X {"none"})
                \cup ({Softprob} \X {F12, F21} \X {"two"})
  IN  {<<OnnxOf(k), UbjOf(k)>> : k \in keys}
        \cup {<<UbjOf(<<Logistic, F12, "none">>)>>}

\* Models from elsewhere: label -> contents of the two weight files and of
\* the sidecar, Missing when there is none.
Shelf ==
  [good       |-> <<Onnx(Logistic, F12), Ubj(Logistic, <<>>), Sidecar(F12)>>,
   reversed   |-> <<Onnx(Logistic, F21), Ubj(Logistic, F21), Missing>>,
   native     |-> <<Missing, Ubj(Logistic, <<>>), Sidecar(F21)>>,
   nameless   |-> <<Missing, Ubj(Logistic, <<>>), Missing>>,
   raw        |-> <<Missing, Ubj(RawLogit, F12), Missing>>,
   different  |-> <<Onnx(Logistic, F12), Ubj(Logistic, F21), Missing>>,
   onnx       |-> <<Onnx(Logistic, F12), Missing, Missing>>,
   other      |-> <<Onnx(Squared, F12), Ubj(Squared, F12), Missing>>,
   three      |-> <<Onnx(Softprob, F12), Ubj(Softprob, F12), Missing>>,
   regressive |-> <<Missing, Ubj(Squared, F12), Missing>>,
   unloadable |-> <<Flawed("unloadable"), Missing, Missing>>,
   external   |-> <<Flawed("external"), Missing, Missing>>,
   renamed    |-> <<Flawed("renamed"), Missing, Missing>>,
   shapeless  |-> <<Flawed("shapeless"), Missing, Missing>>,
   widthless  |-> <<Flawed("widthless"), Missing, Missing>>,
   narrow     |-> <<Flawed("narrow"), Missing, Missing>>,
   unnamed    |-> <<Onnx(Logistic, <<>>), Missing, Missing>>]

FilePath(label, k) == <<label, <<"model.onnx", "model.ubj", "feature_names.json">>[k]>>
ShelfRoot == [scheme |-> "file", host |-> "", path |-> <<"data", "shelf">>]

MCStored ==
  LET files == {x \in (DOMAIN Shelf) \X (1 .. 3) : Shelf[x[1]][x[2]] # Missing}
      Place(x) == At(ShelfRoot, FilePath(x[1], x[2]))
  IN  [l \in {Place(x) : x \in files} |->
         LET x == CHOOSE y \in files : Place(y) = l IN Shelf[x[1]][x[2]]]

Declared(label, k) ==
  [path |-> FilePath(label, k), size |-> 1, hash |-> Shelf[label][k],
   tensors |-> IF label = "renamed" THEN OwnNames ELSE Missing]

Artifacts(label) ==
  LET Have(k) == Shelf[label][k] # Missing
      onnx == IF Have(1) THEN <<[format |-> "onnx", files |-> <<Declared(label, 1)>>]>>
              ELSE <<>>
      ubj  == IF Have(2)
              THEN <<[format |-> "xgboost",
                      files  |-> <<Declared(label, 2)>>
                                   \o IF Have(3) THEN <<Declared(label, 3)>> ELSE <<>>]>>
              ELSE <<>>
  IN  [part \in {"model_weights"} |->
         [required_for_inference |-> TRUE, alternatives |-> onnx \o ubj]]

YesNo == [yes |-> 1, no |-> 0]
NoYesCodes == [yes |-> 0, no |-> 1]

ShelfModel(label) ==
  [model_id |-> "m", version_id |-> "v", algorithm_key |-> "xgboost",
   algorithm_category |-> "CLASSIFICATION", task_type |-> "BINARY_CLASSIFICATION",
   label_mapping |-> YesNo, positive_label_value |-> Str("yes"),
   storage |-> [type |-> "nas", bucket |-> <<"", "data">>, prefix |-> <<"shelf", "">>,
               properties |-> Missing],
   model_artifacts |-> Artifacts(label)]

\* What may be there instead of a file.
MCReplacements == {Missing, Bad, Onnx(Logistic, F21), Ubj(Logistic, F21), Sidecar(F21)}

-----------------------------------------------------------------------------
(* The base requests.                                                      *)

Source ==
  [type |-> "CLICKHOUSE", host |-> "h", database_name |-> "db", port |-> 8123,
   properties |-> Missing, username |-> "u", password |-> Missing,
   credential_ref |-> "CLICKHOUSE_PW"]

Table(alias, role) ==
  [table_alias |-> alias, database_name |-> "db", table_name |-> "people",
   role |-> role]

Feature(id, c, result) ==
  [feature_id |-> id, feature_role |-> "REGULAR", treatment |-> Missing]
    @@ Col(c, "t", result, "Int64")

BaseFeatures == <<Feature("1", "age", "f1"), Feature("2", "pay", "f2")>>
EntityId == Col("id", "t", "id", "String")

BaseAlgorithm ==
  [category |-> "CLASSIFICATION", algorithm_key |-> "xgboost",
   hyper_params |-> [objective |-> Missing, num_class |-> Missing,
                     n_estimators |-> Missing, num_rounds |-> 5,
                     early_stopping_rounds |-> Missing]]

BaseTarget ==
  [task_type |-> "BINARY_CLASSIFICATION", label_mapping |-> YesNo,
   positive_label_value |-> Str("yes")] @@ Col("label", "t", "y", <<"String">>)

DataQueryOf(query) ==
  [mode |-> "DIRECT_QUERY", query |-> query, pivot_queries |-> Missing,
   entity_key |-> EntityId]

BaseStorage ==
  [type |-> "nas", bucket |-> <<"", "data", "">>, prefix |-> <<"models", "m1", "">>,
   properties |-> Missing, ray_storage_path |-> Missing]

BaseTraining ==
  [protocol_version |-> <<2, 8>>, tenant_id |-> "x", operation_id |-> "op",
   model_id |-> "m", version_id |-> "v",
   algorithm |-> BaseAlgorithm, datasource |-> Source,
   tables |-> <<Table("t", "PRIMARY")>>, relations |-> Missing,
   features |-> BaseFeatures,
   data_query |-> DataQueryOf(Asked(Select(TrainingItems, <<>>, Missing), Missing)),
   target |-> BaseTarget, data_sampling |-> Missing, data_split |-> Missing,
   tuning |-> Missing, resource_limits |-> Missing,
   storage_context |-> BaseStorage, evaluation |-> Missing,
   extensions |-> Missing, feature_engineering |-> Missing]

BaseInput ==
  [datasource |-> Source, tables |-> <<Table("t", "PRIMARY")>>,
   relations |-> Missing, features |-> BaseFeatures, entity_key |-> EntityId,
   query |-> Asked(Select(InferenceItems, <<>>, Missing), Missing),
   expected_total_rows |-> Missing, timeseries_pivot |-> Missing]

BaseInference ==
  [protocol_version |-> <<2, 8>>, tenant_id |-> "x", operation_id |-> "op",
   task_id |-> "t", model |-> ShelfModel("good"), input |-> BaseInput,
   output |-> [datasource |-> Source, table_name |-> "results",
               result_filter |-> Missing],
   execution |-> Missing, extensions |-> Missing]

MCBase == [training |-> BaseTraining, inference |-> BaseInference]

-----------------------------------------------------------------------------
(* What may be sent instead.                                               *)

Datasources ==
  { [Source EXCEPT !.type = "DORIS"], [Source EXCEPT !.port = 0],
    [Source EXCEPT !.credential_ref = "NOT_SET"],
    [Source EXCEPT !.credential_ref = "not env://", !.password = "inline"],
    [Source EXCEPT !.credential_ref = Missing, !.password = "inline"],
    [Source EXCEPT !.credential_ref = Null],
    [Source EXCEPT !.properties = Null], [Source EXCEPT !.host = Bad],
    [Source EXCEPT !.properties = [native_table |-> <<"db", "people">>, http_port |-> 0]],
    [Source EXCEPT !.properties = [native_table |-> <<"db", "people", "x">>,
                                   http_port |-> Missing]] }

Joins ==
  LET R(l, r, how) == [left_alias |-> l, right_alias |-> r, join_type |-> how, on |-> "on"]
  IN  { <<R("t", "u", "LEFT")>>, <<R("t", "u", "FULL")>>, <<R("u", "t", "INNER")>>,
        <<R("t", "u", "INNER"), R("t", "u", "LEFT")>>,
        <<R("t", "u", "INNER"), R("u", "w", "INNER")>>,
        <<R("t", "u", "INNER"), R("u", "u", "INNER")>>, <<>>, Null }

JoinedTables ==
  { <<Table("t", "PRIMARY"), Table("u", "JOINED")>>,
    <<Table("w", "JOINED"), Table("t", "PRIMARY"), Table("u", "JOINED")>>,
    <<Table("t", "PRIMARY"), Table("t", "JOINED")>>,
    <<Table("t", "PRIMARY"), Table("u", "PRIMARY")>>, <<Table("t", "JOINED")>>, <<>> }

Untreated ==
  [treatment_type |-> Missing, missing_value_strategy |-> Missing,
   outlier_strategy |-> Missing, scaling_method |-> Missing,
   encoding_method |-> Missing]

FeatureLists ==
  { Reverse(BaseFeatures), <<>>, Bad, [BaseFeatures EXCEPT ![2].feature_id = "1"],
    [BaseFeatures EXCEPT ![2].result_column = "f1"],
    [BaseFeatures EXCEPT ![2].result_column = "f3"],
    [BaseFeatures EXCEPT ![2].table_alias = "u"],
    [BaseFeatures EXCEPT ![2].feature_role = "OTHER"],
    [BaseFeatures EXCEPT ![1].column_name = "height"],
    [BaseFeatures EXCEPT ![1].treatment = [Untreated EXCEPT !.encoding_method = "ONEHOT"]],
    [BaseFeatures EXCEPT ![1].treatment = [Untreated EXCEPT !.scaling_method = "AUTO"]],
    [BaseFeatures EXCEPT ![1].treatment = [Untreated EXCEPT !.treatment_type = "TEXT"]] }

Algorithms ==
  LET Hyper(f, v) == [BaseAlgorithm EXCEPT !.hyper_params[f] = v] IN
  { [BaseAlgorithm EXCEPT !.category = "REGRESSION", !.algorithm_key = "xgboost_reg"],
    [BaseAlgorithm EXCEPT !.category = "CLUSTERING", !.algorithm_key = "kmeans"],
    [BaseAlgorithm EXCEPT !.category = "REGRESSION"],
    [BaseAlgorithm EXCEPT !.algorithm_key = "random_forest"],
    [BaseAlgorithm EXCEPT !.algorithm_key = "prophet"],
    [BaseAlgorithm EXCEPT !.hyper_params = Bad],
    Hyper("n_estimators", 3), Hyper("n_estimators", 0), Hyper("num_class", 3),
    Hyper("objective", Softprob), Hyper("objective", RawLogit), Hyper("early_stopping_rounds", 2) }

Targets ==
  LET T(f, v) == [BaseTarget EXCEPT ![f] = v]
      Multi(m) == [T("label_mapping", m) EXCEPT !.task_type = "MULTICLASS_CLASSIFICATION"]
  IN  { T("label_mapping", NoYesCodes), T("label_mapping", [yes |-> 0, no |-> 2]),
        T("label_mapping", Missing), T("positive_label_value", Missing),
        T("positive_label_value", Str("no")), T("positive_label_value", Str("maybe")),
        T("positive_label_value", Bad), T("result_column", "f1"), T("table_alias", "u"),
        [T("label_mapping", Null) EXCEPT !.positive_label_value = Str("0")],
        [T("label_mapping", [n \in {"0", "1"} |-> 1 - NumberOf(n)])
           EXCEPT !.positive_label_value = Num("1")],
        Multi([yes |-> 2, no |-> 0, maybe |-> 1]), Multi(YesNo),
        T("task_type", "REGRESSION"), Missing, Null }

Samplings ==
  LET Section(ratio, limit, balance) ==
        [sample_ratio |-> ratio, sample_limit |-> limit, class_balance |-> balance]
      Balance(strategy, amounts) ==
        Section(Missing, Missing, [strategy |-> strategy, class_amounts |-> amounts,
                                   oversample_config |-> Missing])
  IN  { Balance("UNDERSAMPLE", [no |-> 1, yes |-> 1]),
        Balance("CUSTOM_AMOUNT", [no |-> 2, yes |-> 2]),
        Balance("CUSTOM_AMOUNT", [no |-> 0, yes |-> 2]),
        Balance("CUSTOM_AMOUNT", Missing), Balance("UNDERSAMPLE", Missing),
        Balance("NONE", Missing), Balance("OVERSAMPLE_SMOTE", Missing),
        Section(50, 10, Missing), Section(100, Missing, Null), Section(Missing, 0, Missing) }

Splits ==
  LET Base3(train, validation, test) ==
        [train_ratio |-> train, validation_ratio |-> validation, test_ratio |-> test,
         strategy |-> Missing, stratify |-> Missing, random_seed |-> Missing,
         cross_validation |-> Missing]
      Even == Base3(70, 15, 15)
  IN  { Base3(80, 20, 0), Base3(80, 0, 20), Base3(0, 50, 50), Base3(70, 15, 16),
        [Even EXCEPT !.strategy = "TIME_ORDERED", !.stratify = TRUE],
        [Even EXCEPT !.strategy = "SORTED"], [Even EXCEPT !.stratify = TRUE],
        [Even EXCEPT !.random_seed = -1], [Even EXCEPT !.random_seed = SeedSpace + 7],
        [Even EXCEPT !.random_seed = Null], [Even EXCEPT !.random_seed = Bad],
        [Even EXCEPT !.cross_validation = TRUE] }

Tunings ==
  LET Auto(sampler, name, domain, scheduler) ==
        [mode |-> "AUTO",
         auto_config |-> [sampler |-> sampler, max_trials |-> 3, patience |-> Missing,
                          parallelism |-> Null, scheduler |-> scheduler,
                          search_space |-> [n \in {name} |-> domain]]]
      Of(type, min, max, step) ==
        [type |-> type, min |-> min, max |-> max, step |-> step, scale |-> Missing,
         choices |-> Missing]
      Asha(low, high) == [type |-> "ASHA", resource_param |-> "n_estimators",
                          min_resource |-> low, max_resource |-> high]
      Depth == Of("INT", 2000, 6000, Missing)
  IN  { [mode |-> "MANUAL", auto_config |-> Missing],
        [mode |-> "MANUAL", auto_config |-> Bad], [mode |-> "AUTO", auto_config |-> Null],
        Auto("RANDOM", "max_depth", Depth, Missing),
        Auto("GRID", "max_depth", Depth, Missing),
        Auto("GRID", "max_depth", [Depth EXCEPT !.step = 1], Null),
        Auto("RANDOM", "max_depth", Of("INT", 2000, 16000, Missing), Missing),
        Auto("RANDOM", "max_depth", Of("INT", 6000, 2000, Missing), Missing),
        Auto("RANDOM", "max_depth", Of("INT", 2500, 6000, Missing), Missing),
        Auto("RANDOM", "depth", Depth, Missing),
        Auto("RANDOM", "max_depth", Depth, Asha(1, 9)),
        Auto("RANDOM", "max_depth", Depth, Asha(9, 1)),
        Auto("RANDOM", "n_estimators", Of("INT", 10000, 20000, Missing), Asha(1, 9)),
        Auto("RANDOM", "max_depth", Depth, [Asha(1, 9) EXCEPT !.type = "PBT"]) }

TrainingLimits ==
  LET L(epochs, patience, time) ==
        [max_epochs |-> epochs, early_stopping_patience |-> patience,
         max_training_time_seconds |-> time]
  IN  { L(3, Missing, 60), L(0, Missing, Missing), L(Null, Missing, Missing),
        L(Missing, 2, Missing), L(Missing, 0, Missing), L(Missing, Missing, 0),
        L(Missing, Null, Null), L(Missing, Missing, Bad), Bad, Null }

Storages ==
  { [BaseStorage EXCEPT !.type = "s3", !.bucket = <<"bkt">>],
    [BaseStorage EXCEPT !.type = "s3", !.bucket = <<"bkt", "">>],
    [BaseStorage EXCEPT !.type = "s3", !.bucket = <<"bkt", "dir">>],
    [BaseStorage EXCEPT !.type = "hdfs"], [BaseStorage EXCEPT !.bucket = <<"data">>],
    [BaseStorage EXCEPT !.bucket = <<"", "data", "..", "etc">>],
    [BaseStorage EXCEPT !.prefix = <<"models", "..", "">>],
    [BaseStorage EXCEPT !.prefix = <<"models">>],
    [BaseStorage EXCEPT !.ray_storage_path = <<"", "ray">>],
    [BaseStorage EXCEPT !.ray_storage_path = <<"ray">>],
    [BaseStorage EXCEPT !.ray_storage_path = <<"">>],
    [BaseStorage EXCEPT !.properties = Null], Missing }

TrainingExtensions ==
  { Bad, Null, [num_workers |-> 4, cpus_per_worker |-> 0, use_gpu |-> Bad],
    [num_workers |-> 0], [num_workers |-> Bad, use_gpu |-> TRUE] }

TrainingVariants ==
  [protocol_version    |-> {<<1, 0>>, <<2, 9>>, Bad, Missing},
   operation_id        |-> {"other", Missing},
   algorithm           |-> Algorithms,
   datasource          |-> Datasources,
   tables              |-> JoinedTables,
   relations           |-> Joins,
   features            |-> FeatureLists,
   data_query          |->
     {DataQueryOf(q) : q \in TrainingQueries}
       \cup {[BaseTraining.data_query EXCEPT !.entity_key = Missing],
             [BaseTraining.data_query EXCEPT !.entity_key.table_alias = "u"],
             [BaseTraining.data_query EXCEPT !.mode = "TIMESERIES_PIVOT",
                                             !.pivot_queries = "some"]},
   target              |-> Targets,
   data_sampling       |-> Samplings,
   data_split          |-> Splits,
   tuning              |-> Tunings,
   resource_limits     |-> TrainingLimits,
   storage_context     |-> Storages,
   evaluation          |-> {[metrics |-> {"auc", "f1"}, artifacts |-> Missing],
                            [metrics |-> Null, artifacts |-> Missing]},
   extensions          |-> TrainingExtensions,
   feature_engineering |->
     {[f \in DOMAIN Treatments |-> IF f = "scaling_method" THEN m ELSE Missing] :
        m \in {"NONE", "MINMAX"}}]

-----------------------------------------------------------------------------
Models ==
  LET Good    == ShelfModel("good")
      With(f, v) == [Good EXCEPT ![f] = v]
      Manifested(part, entry) == With("model_artifacts", (part :> entry) @@ Good.model_artifacts)
      Entry(required, alternatives) ==
        [required_for_inference |-> required, alternatives |-> alternatives]
      Sklearn(path) ==
        <<[format |-> "sklearn",
           files |-> <<[path |-> path, size |-> 1, hash |-> "h", tensors |-> Missing]>>]>>
      WeightsOf(alternatives) == Manifested("model_weights", Entry(TRUE, alternatives))
      FileOf(label, f, v) ==
        [ShelfModel(label) EXCEPT !.model_artifacts["model_weights"].alternatives[1].files[1][f] = v]
      FirstFile(f, v) == FileOf("good", f, v)
      OfTask(label, category, task) ==
        [ShelfModel(label) EXCEPT !.algorithm_category = category, !.task_type = task]
  IN  {ShelfModel(label) : label \in DOMAIN Shelf \ {"good"}}
        \cup { With("label_mapping", NoYesCodes), With("label_mapping", [yes |-> 1, no |-> 2]),
               With("label_mapping", [yes |-> 1, no |-> 0, maybe |-> 2]),
               With("positive_label_value", Str("no")), With("positive_label_value", Num("1")),
               With("positive_label_value", Missing), With("algorithm_key", "random_forest"),
               [With("label_mapping", Null) EXCEPT !.positive_label_value = Num("0")],
               With("storage", Missing),
               [Good EXCEPT !.storage.prefix = <<"..", "shelf", "">>],
               [Good EXCEPT !.storage.bucket = <<"data">>],
               [Good EXCEPT !.storage.properties = Null],
               [Good EXCEPT !.storage.type = "s3", !.storage.bucket = <<"bkt">>],
               Manifested("weights", Entry(FALSE, Sklearn(<<"w">>))),
               Manifested("pipeline", Entry(FALSE, Sklearn(<<"p">>))),
               Manifested("pipeline", Entry(TRUE, Sklearn(<<"p">>))),
               Manifested("pipeline", Entry(FALSE, Sklearn(FilePath("good", 1)))),
               Manifested("pipeline", Entry(FALSE, <<>>)),
               WeightsOf(Sklearn(<<"w">>)),
               WeightsOf(Artifacts("good")["model_weights"].alternatives
                           \o Artifacts("reversed")["model_weights"].alternatives),
               FirstFile("size", 2), FirstFile("hash", Onnx(Logistic, F21)),
               FirstFile("hash", Bad), FirstFile("path", <<"good", "..", "model.onnx">>),
               FirstFile("path", <<"good", "lost", "model.onnx">>),
               FirstFile("tensors", OwnNames), FileOf("renamed", "tensors", Missing),
               FirstFile("tensors", [inputs |-> <<>>, outputs |-> <<"prediction">>]),
               OfTask("good", "REGRESSION", "REGRESSION"),
               OfTask("other", "REGRESSION", "REGRESSION"),
               [OfTask("three", "CLASSIFICATION", "MULTICLASS_CLASSIFICATION")
                  EXCEPT !.label_mapping = [yes |-> 1, no |-> 0, maybe |-> 2]],
               OfTask("three", "CLASSIFICATION", "MULTICLASS_CLASSIFICATION"),
               OfTask("good", "TIMESERIES", "TIMESERIES_FORECAST"),
               OfTask("good", "REGRESSION", "BINARY_CLASSIFICATION") }

Inputs ==
  LET I(f, v) == [BaseInput EXCEPT ![f] = v] IN
  {I("query", q) : q \in InferenceQueries}
    \cup {I("datasource", d) : d \in Datasources}
    \cup { I("features", Reverse(BaseFeatures)), I("features", Tail(BaseFeatures)),
           [I("features", [BaseFeatures EXCEPT ![2].result_column = "f3"]) EXCEPT
              !.query.sql.projection[3].result = "f3"],
           I("features", [BaseFeatures EXCEPT ![2].column_name = "age"]),
           I("entity_key", Missing),
           [I("entity_key", Col("age", "t", "f1", "Int64")) EXCEPT
              !.query.sql.projection = Tail(InferenceItems)],
           I("tables", <<Table("t", "PRIMARY"), Table("u", "JOINED")>>),
           [I("tables", <<Table("t", "PRIMARY"), Table("u", "JOINED")>>) EXCEPT
              !.relations = <<[left_alias |-> "t", right_alias |-> "u",
                               join_type |-> "LEFT", on |-> "on"]>>],
           I("expected_total_rows", 0), I("expected_total_rows", -1),
           I("timeseries_pivot", "some"), Bad }

Outputs ==
  LET O(f, v) == [BaseInference.output EXCEPT ![f] = v]
      KeepOf(mode, labels) == O("result_filter", [mode |-> mode, labels |-> labels])
  IN  { KeepOf("INCLUDE", {"yes"}), KeepOf("EXCLUDE", {"yes"}), KeepOf("INCLUDE", {}),
        KeepOf("EXCLUDE", {"maybe"}), KeepOf("ONLY", {"yes"}), O("result_filter", Null),
        O("table_name", Bad), O("datasource", [Source EXCEPT !.type = "HIVE"]),
        O("datasource", [Source EXCEPT !.credential_ref = "NOT_SET"]), Bad }

Executions ==
  LET E(size, time, interval) ==
        [batch_size |-> size, max_execution_time_seconds |-> time,
         progress_report_interval_rows |-> interval, concurrency |-> Missing]
  IN  { [E(3, 60, 1) EXCEPT !.concurrency = 4], [E(3, 60, 1) EXCEPT !.concurrency = 0],
        E(3, 60, 1), E(0, Missing, Missing), E(Null, Null, Null), E(3, 0, Missing),
        E(3, Bad, Missing), Null, Bad }

InferenceExtensions ==
  LET X(threshold, explanation, runtime) ==
        [decision_threshold |-> threshold, explanation |-> explanation,
         inference_runtime |-> runtime]
  IN  { X(0, Missing, Missing), X(50, "exact", Missing), X(65, "exact", Missing),
        X(80, Missing, Bad), X(Bad, "approximate", Missing), X(Null, "off", Null),
        X(Missing, Missing, [predictor_batch_size |-> 9, sink_batch_size |-> 2]),
        X(Missing, "exact", [adaptive_min_batch_size |-> 1, adaptive_max_batch_size |-> 2,
                             adaptive_target_batches |-> 2]),
        X(Missing, Missing, [adaptive_min_batch_size |-> 300000,
                             predictor_batch_size |-> 0]),
        Bad, Null }

InferenceVariants ==
  [protocol_version |-> {<<1, 0>>}, task_id |-> {Missing}, model |-> Models,
   input |-> Inputs, output |-> Outputs, execution |-> Executions,
   extensions |-> InferenceExtensions]

MCVariants == [training |-> TrainingVariants, inference |-> InferenceVariants]
=============================================================================
