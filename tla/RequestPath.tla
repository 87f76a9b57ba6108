---------------------------- MODULE RequestPath ----------------------------
(***************************************************************************)
(* A training request and the batch inference of what it trained, from the *)
(* documents KnoVa sends to the rows that are written: admission, the      *)
(* driver's plan, the rows read, what becomes of them, the published       *)
(* manifest, the verification of the stored files, the batches.            *)
(*                                                                         *)
(* KnoVa may change sections of a request (Variants), the stored files may *)
(* be overwritten or lost at any time, and attempts may run out of memory. *)
(* Events, control and the codes of a failed training are the subject of   *)
(* TrainingRun and InferenceRun.                                           *)
(***************************************************************************)
EXTENDS TrainingRows, ResultRows

CONSTANTS
  Base,           \* operation -> request before any change
  Variants,       \* operation -> section -> set of values
  Tables,         \* name -> rows
  ColumnTypes,    \* column -> "num" or "str"
  Bundles,        \* what the exporters may leave
  Stored,         \* the files there before
  Replacements,   \* what a file may be overwritten with
  MaxChanges      \* bound: sections changed and files overwritten, together

Sections ==
  [training  |-> {"protocol_version", "tenant_id", "operation_id", "model_id",
                  "version_id", "algorithm", "datasource", "tables", "relations",
                  "features", "data_query", "target", "data_sampling", "data_split",
                  "tuning", "resource_limits", "storage_context", "evaluation",
                  "extensions", "feature_engineering"},
   inference |-> {"protocol_version", "tenant_id", "operation_id", "task_id", "model",
                  "input", "output", "execution", "extensions"}]

\* What KnoVa may send in a section.
May(kind, section) ==
  {Base[kind][section]}
    \cup IF section \in DOMAIN Variants[kind] THEN Variants[kind][section] ELSE {}

\* A JSON array is a sequence.
IsList(x) == Len(x) \in Nat /\ x = [i \in 1 .. Len(x) |-> x[i]]
Listed(x) == Obj(x) => IsList(x)

ParsedLayout(layout) ==
  Listed(layout.tables) /\ Listed(layout.relations) /\ Listed(layout.features)

\* A clause of a SELECT is the list of its terms, a LIMIT is a number, and a
\* parameter that is a text is a string.
ParsedSelect(q) ==
  IsList(q.projection) /\ IsList(q.where) /\ q.limit \in Nat \cup {Missing}

ParsedQuery(query) ==
  Obj(query) /\ Obj(query.sql) =>
    /\ Obj(query.params) =>
         \A n \in DOMAIN query.params : Text(query.params[n]) => query.params[n] \in STRING
    /\ query.sql.kind = "select" => ParsedSelect(query.sql)
    /\ query.sql.kind = "union" =>
         /\ IsList(query.sql.branches)
         /\ \A i \in DOMAIN query.sql.branches : ParsedSelect(query.sql.branches[i])

ParsedArtifacts(artifacts) ==
  Obj(artifacts) =>
    \A part \in DOMAIN artifacts :
      LET entry == artifacts[part] IN
      Obj(entry) /\ Obj(entry.alternatives) =>
        /\ IsList(entry.alternatives)
        /\ \A i \in DOMAIN entry.alternatives : Listed(entry.alternatives[i].files)

ParsedModel(model) == Obj(model) => ParsedArtifacts(model.model_artifacts)

ASSUME RequestAssumption ==
  /\ \A kind \in {"training", "inference"} :
       DOMAIN Base[kind] = Sections[kind] /\ DOMAIN Variants[kind] \subseteq Sections[kind]
  /\ \A section \in {"tables", "relations", "features"} :
       \A x \in May("training", section) : Listed(x)
  /\ \A x \in May("training", "data_query") : Obj(x) => ParsedQuery(x.query)
  /\ \A x \in May("training", "target") :
       Obj(x) /\ Obj(x.label_mapping) => IsFiniteSet(DOMAIN x.label_mapping)
  /\ \A x \in May("training", "storage_context") :
       Obj(x) => Listed(x.bucket) /\ Listed(x.prefix)
  /\ \A x \in May("inference", "input") :
       Obj(x) => ParsedLayout(x) /\ ParsedQuery(x.query)
  /\ \A x \in May("inference", "model") : ParsedModel(x)

\* What a file may hold; Bad cannot be read.
Held == DOMAIN Contents \cup {Missing, Bad}

ASSUME StorageAssumption ==
  /\ MaxChanges \in Nat
  /\ Missing \notin DOMAIN Contents /\ Bad \notin DOMAIN Contents
  /\ \A l \in DOMAIN Stored : Stored[l] \in Held
  /\ Replacements \subseteq Held
  /\ \A bundle \in Bundles :
       /\ IsList(bundle)
       /\ \A i \in DOMAIN bundle :
            /\ IsList(bundle[i].files)
            /\ \A j \in DOMAIN bundle[i].files : LET file == bundle[i].files[j] IN
                 file.content \in DOMAIN Contents /\ IsList(file.path) /\ file.path # <<>>

\* A graph is in one file, with the tensors of the Bundle's signature, as many as
\* its objective has, and of their shapes.
WellNamed(content, signature) ==
  /\ ~content.external /\ content.shaped /\ content.tensors = signature
  /\ signature # Missing
  /\ signature = [side \in {"inputs", "outputs"} |-> signature[side]]
  /\ Len(signature.inputs) = 1
  /\ Len(signature.outputs) = IF content.objective[1] = "reg" THEN 1 ELSE 2

\* What an exporter leaves: one weight file under the name of the format, that
\* loads and tells its features, or has them in the one file beside it.
WellMade(artifact) ==
  LET files    == artifact.files
      weights  == {j \in DOMAIN files :
                     Last(files[j].path) = WeightName[ProtocolFormat[artifact.format]]}
      sidecars == {j \in DOMAIN files : IsSidecar(files[j])}
      Names(j) == Contents[files[j].content].names
  IN  /\ Cardinality(weights) = 1
      /\ \A i, j \in sidecars : i = j
      /\ \A j \in weights :
           LET content == Contents[files[j].content]
               nameless == content.names = <<>> /\ artifact.format = "ubj" /\ sidecars # {}
               names    == Names(IF nameless THEN Min(sidecars) ELSE j)
           IN  /\ content.loads /\ content.format = artifact.format
               /\ artifact.format = "onnx" => WellNamed(content, artifact.signature)
               /\ content.objective[1] # "reg" => content.classes # Missing
               /\ names # <<>> /\ content.width \in {0, Len(names)}

\* A Bundle has each file at a path of its own.
ASSUME ExportAssumption ==
  \A bundle \in Bundles :
    /\ \A i, j \in DOMAIN bundle :
         \A k \in DOMAIN bundle[i].files, l \in DOMAIN bundle[j].files :
           /\ bundle[i].name = bundle[j].name
           /\ bundle[i].files[k].path = bundle[j].files[l].path
           => i = j /\ k = l
    /\ \A i \in DOMAIN bundle :
         bundle[i].format \in DOMAIN ProtocolFormat => WellMade(bundle[i])

\* Rows are told apart by their identity, and the model scores each of them.
ASSUME TableAssumption ==
  \A t \in DOMAIN Tables :
    /\ IsFiniteSet(Tables[t])
    /\ \A r \in Tables[t] : r = [id |-> r.id, cells |-> r.cells] /\ Score[r.id] \in 0 .. 100
    /\ \A r, s \in Tables[t] : r.id = s.id => r = s

VARIABLES
  op, doc, edits,      \* the operation, its request, the sections changed
  pc, code,            \* the stage, and the code it ended with
  table, plan,
  rows, prepared,      \* the rows read, and as they reach the fit
  short,               \* the classes a warning is logged for
  published,           \* the model section of the published model, or Null
  store, tampers,
  run,                 \* the inference: see NoRun
  results

vars == <<op, doc, edits, pc, code, table, plan, rows, prepared, short,
          published, store, tampers, run, results>>

MaxRetries == 3

NoRun ==
  [classes |-> Missing, loaded |-> Missing, explaining |-> Missing,
   count |-> 0, retries |-> 0]

Init ==
  /\ op \in {"training", "inference"}
  /\ doc = Base[op] /\ edits = {}
  /\ pc = "compose" /\ code = "OK"
  /\ table \in DOMAIN Tables /\ plan = Null
  /\ rows = {} /\ prepared = {} /\ short = {} /\ published = Null
  /\ store = Stored /\ tampers = 0
  /\ run = NoRun /\ results = {}

Budget == Cardinality(edits) + tampers < MaxChanges

Stop(c) == pc' = "ended" /\ code' = c

\* The fields of one record, and those of another that it does not have.
Over(new, old) ==
  [x \in DOMAIN new \cup DOMAIN old |-> IF x \in DOMAIN new THEN new[x] ELSE old[x]]

-----------------------------------------------------------------------------
(* The request.                                                            *)

Edit(section, value) ==
  /\ pc = "compose"
  /\ Budget /\ <<op, section>> \notin edits
  /\ doc' = [doc EXCEPT ![section] = value]
  /\ edits' = edits \cup {<<op, section>>}
  /\ UNCHANGED <<op, pc, code, table, plan, rows, prepared, short, published,
                 store, tampers, run, results>>

\* The Consumer parses and validates, and submits the payload.
Admit ==
  /\ pc = "compose"
  /\ LET verdict == ParseRequest(doc, "op", op) IN
     IF verdict = "ADMITTED"
     THEN pc' = "build" /\ code' = code /\ doc' = Payload(doc)
     ELSE Stop(verdict) /\ doc' = doc
  /\ UNCHANGED <<op, edits, table, plan, rows, prepared, short, published,
                 store, tampers, run, results>>

-----------------------------------------------------------------------------
(* Training.                                                               *)

BuildTraining ==
  /\ pc = "build" /\ op = "training"
  /\ IF Plannable(doc)
     THEN plan' = TrainingPlan(doc) /\ pc' = "load" /\ code' = code
     ELSE Stop("INVALID_PAYLOAD") /\ plan' = plan
  /\ UNCHANGED <<op, doc, edits, table, rows, prepared, short, published,
                 store, tampers, run, results>>

Readable == plan.columns \subseteq DOMAIN ColumnTypes

\* The datasource is read; a column it does not have, and a fit of no rows,
\* fail.
Load ==
  /\ pc = "load"
  /\ \E answer \in IF Readable THEN Reads(Tables[table], plan.columns, plan.steps)
                  ELSE {{}} :
       IF answer = {} THEN Stop("FAILED") /\ rows' = rows
       ELSE pc' = "prepare" /\ code' = code /\ rows' = answer
  /\ UNCHANGED <<op, doc, edits, table, plan, prepared, short, published,
                 store, tampers, run, results>>

Prepare ==
  /\ pc = "prepare"
  /\ \E outcome \in Prepared(rows, doc, plan) :
       IF outcome[1]
       THEN /\ prepared' = outcome[2] /\ short' = ShortClasses(outcome[2], doc)
            /\ pc' = "fit" /\ code' = code
       ELSE Stop("FAILED") /\ UNCHANGED <<prepared, short>>
  /\ UNCHANGED <<op, doc, edits, table, plan, rows, published, store, tampers,
                 run, results>>

\* What the exporters are known to leave: models of this very fit.
Exports(bundle) ==
  \A i \in DOMAIN bundle : \A j \in DOMAIN bundle[i].files :
    LET content == Contents[bundle[i].files[j].content] IN
    /\ content.names \in {<<>>, plan.features}
    /\ content.format # "json" =>
         /\ content.objective = plan.objective
         /\ content.classes \in {Missing, plan.classes}

TrainedModel(manifest) ==
  [storage |-> manifest.storage, model_artifacts |-> manifest.model_artifacts,
   task_type |-> doc.target.task_type,
   algorithm_category |-> doc.algorithm.category,
   algorithm_key |-> doc.algorithm.algorithm_key,
   label_mapping |-> doc.target.label_mapping,
   positive_label_value |-> doc.target.positive_label_value]

\* The files of the Bundle, where the exporters put them.
BundleFiles(canonical, bundle) ==
  LET files == UNION {{<<i, j>> : j \in DOMAIN bundle[i].files} : i \in DOMAIN bundle}
      Path(x) == At(canonical, <<"artifacts", bundle[x[1]].name>>
                                 \o bundle[x[1]].files[x[2]].path)
  IN  [l \in {Path(x) : x \in files} |->
         LET x == CHOOSE y \in files : Path(y) = l
         IN  bundle[x[1]].files[x[2]].content]

\* The fit, the export, and the manifest that COMPLETED carries.
Publish ==
  /\ pc = "fit"
  /\ \E bundle \in {b \in Bundles : Exports(b)} :
       LET canonical == At(plan.bundle, <<"bundle-1">>) IN
       /\ store' = Over(BundleFiles(canonical, bundle), store)
       /\ IF /\ ArtifactsPublishable(bundle)
             /\ ArtifactStorage(doc.storage_context, canonical) # Bad
          THEN /\ published' = TrainedModel(Manifest(doc, canonical, bundle))
               /\ pc' = "published" /\ code' = code
          ELSE Stop("MODEL_EXPORT_FAILED") /\ UNCHANGED published
  /\ UNCHANGED <<op, doc, edits, table, plan, rows, prepared, short, tampers,
                 run, results>>

\* KnoVa asks for an inference with the model it was given.
UseModel ==
  /\ pc = "published"
  /\ op' = "inference" /\ pc' = "compose"
  /\ doc' = [Base["inference"] EXCEPT !.model = Over(published, @)]
  /\ plan' = Null /\ rows' = {} /\ prepared' = {} /\ short' = {}
  /\ UNCHANGED <<edits, code, table, published, store, tampers, run, results>>

-----------------------------------------------------------------------------
(* Inference.                                                              *)

BuildInference ==
  /\ pc = "build" /\ op = "inference"
  /\ IF InferenceCode(doc) = "OK"
     THEN plan' = InferencePlan(doc) /\ pc' = "verify" /\ code' = code
     ELSE Stop(InferenceCode(doc)) /\ plan' = plan
  /\ UNCHANGED <<op, doc, edits, table, rows, prepared, short, published,
                 store, tampers, run, results>>

\* The order of the columns comes from the verified model.
Verify ==
  /\ pc = "verify"
  /\ LET verdict == PredictorCode(store, doc)
         names   == ModelNames(store, doc, Chosen(doc))
     IN  IF verdict # "OK" THEN Stop(verdict) /\ UNCHANGED <<plan, run>>
         ELSE /\ plan' = [plan EXCEPT !.names = names,
                                      !.tensor = ModelOrder(doc.input, names)]
              /\ run' = [run EXCEPT !.classes = ModelClasses(store, doc, Chosen(doc))]
              /\ pc' = "explainer" /\ code' = code
  /\ UNCHANGED <<op, doc, edits, table, rows, prepared, short, published,
                 store, tampers, results>>

VerifyExplainer ==
  /\ pc = "explainer"
  /\ LET verdict == IF Explained(doc)
                    THEN ExplainerCode(store, doc, plan.names, run.classes)
                    ELSE "OK"
     IN  IF verdict # "OK" THEN Stop(verdict)
         ELSE pc' = "normalize" /\ code' = code
  /\ UNCHANGED <<op, doc, edits, table, plan, rows, prepared, short,
                 published, store, tampers, run, results>>

Weights(alternative) == Read(store, Location(doc, alternative))

\* Mutant: the file is taken as it is.
Unchanged_Present(alternative) == Weights(alternative) \notin {Missing, Bad}

\* The file still has the bytes that were declared.
Unchanged(alternative) == Weights(alternative) = WeightFile(alternative).hash

\* A native predictor is read again and copied into a Bundle of its own.
Normalize ==
  /\ pc = "normalize"
  /\ IF Chosen(doc).format # "xgboost" THEN pc' = "measure" /\ UNCHANGED <<code, run>>
     ELSE IF Weights(Chosen(doc)) \in {Missing, Bad}
     THEN Stop("FAILED") /\ UNCHANGED run
     ELSE IF Unchanged(Chosen(doc))
     THEN /\ run' = [run EXCEPT !.loaded = Weights(Chosen(doc))]
          /\ pc' = "measure" /\ code' = code
     ELSE Stop("MODEL_ARTIFACT_CORRUPTED") /\ UNCHANGED run
  /\ UNCHANGED <<op, doc, edits, table, plan, rows, prepared, short,
                 published, store, tampers, results>>

Measure ==
  /\ pc = "measure"
  /\ LET verdict == MeasureCode(plan, ColumnTypes)
         count   == Measured(Tables[table], plan)
     IN  IF verdict # "OK" THEN Stop(verdict) /\ UNCHANGED <<plan, run>>
         ELSE IF count = 0 THEN Stop("EMPTY_INPUT") /\ UNCHANGED <<plan, run>>
         ELSE /\ run' = [run EXCEPT !.count = count]
              /\ plan' = [plan EXCEPT !.batches = Batches(doc, count, Null)]
              /\ pc' = "predict" /\ code' = code
  /\ UNCHANGED <<op, doc, edits, table, rows, prepared, short, published,
                 store, tampers, results>>

\* run_inference: the core imports the ONNX file under its declared hash, or
\* uses the Bundle of the normalised model, then reads and predicts.
Predict ==
  /\ pc = "predict"
  /\ IF Chosen(doc).format = "onnx" /\ ~Unchanged(Chosen(doc))
     THEN Stop("MODEL_LOAD_FAILED") /\ UNCHANGED <<rows, run>>
     ELSE /\ \E answer \in Reads(Tables[table], plan.columns, plan.steps) :
               rows' = answer
          /\ run' = [run EXCEPT !.loaded = IF Chosen(doc).format = "onnx"
                                           THEN Weights(Chosen(doc)) ELSE @]
          /\ pc' = "explain" /\ code' = code
  /\ UNCHANGED <<op, doc, edits, table, plan, prepared, short, published,
                 store, tampers, results>>

\* The attribution actors read the native file once more.
Explain ==
  /\ pc = "explain"
  /\ IF Explained(doc) /\ ~Unchanged(Native(doc))
     THEN Stop("PREDICTION_FAILED") /\ UNCHANGED <<run, results>>
     ELSE /\ run' = [run EXCEPT !.explaining = IF Explained(doc)
                                               THEN Weights(Native(doc)) ELSE @]
          /\ results' = Results(doc, rows, plan.names, plan.tensor)
          /\ pc' = "written" /\ code' = code
  /\ UNCHANGED <<op, doc, edits, table, plan, rows, prepared, short,
                 published, store, tampers>>

\* The attempt runs out of memory: half the batch, the same model and order.
Retry ==
  /\ pc \in {"predict", "explain"}
  /\ plan.batches.predictor > 1 /\ run.retries < MaxRetries
  /\ LET half == plan.batches.predictor \div 2 IN
     /\ run' = [run EXCEPT !.retries = @ + 1]
     /\ plan' = [InferencePlan(doc) EXCEPT
                   !.names = plan.names, !.tensor = plan.tensor,
                   !.batches = Batches(doc, run.count, half)]
  /\ pc' = "predict" /\ rows' = {}
  /\ UNCHANGED <<op, doc, edits, code, table, prepared, short, published,
                 store, tampers, results>>

\* Memory runs out for good.
GiveUp ==
  /\ pc \in {"predict", "explain"}
  /\ plan.batches.predictor <= 1 \/ run.retries = MaxRetries
  /\ Stop("PREDICTION_FAILED")
  /\ UNCHANGED <<op, doc, edits, table, plan, rows, prepared, short,
                 published, store, tampers, run, results>>

-----------------------------------------------------------------------------
(* The storage is not the operation's own.                                 *)

ModelFiles ==
  {l \in DOMAIN store : \E x \in FileIndexes(doc.model.model_artifacts) :
     At(StorageRoot(doc.model.storage), FileAt(doc.model.model_artifacts, x).path) = l}

Tamper(location, content) ==
  /\ pc \in {"verify", "explainer", "normalize", "measure", "predict", "explain"}
  /\ Budget
  /\ location \in ModelFiles /\ content # store[location]
  /\ store' = [store EXCEPT ![location] = content]
  /\ tampers' = tampers + 1
  /\ UNCHANGED <<op, doc, edits, pc, code, table, plan, rows, prepared, short,
                 published, run, results>>

Next ==
  \/ \E section \in DOMAIN Variants[op] : \E value \in Variants[op][section] :
       Edit(section, value)
  \/ Admit
  \/ BuildTraining \/ Load \/ Prepare \/ Publish \/ UseModel
  \/ BuildInference \/ Verify \/ VerifyExplainer \/ Normalize
  \/ Measure \/ Predict \/ Explain \/ Retry \/ GiveUp
  \/ \E location \in DOMAIN store, content \in Replacements : Tamper(location, content)

Spec == Init /\ [][Next]_vars

-----------------------------------------------------------------------------
(* Properties.                                                             *)

Stages ==
  {"compose", "build", "load", "prepare", "fit", "published", "verify", "explainer",
   "normalize", "measure", "predict", "explain", "written", "ended"}

Codes ==
  {"OK", "FAILED", "INVALID_PAYLOAD", "UNSUPPORTED_PROTOCOL_VERSION",
   "MODEL_EXPORT_FAILED", "MODEL_FORMAT_UNSUPPORTED", "MODEL_ARTIFACT_NOT_FOUND",
   "MODEL_ARTIFACT_CORRUPTED", "MODEL_LOAD_FAILED", "MODEL_SCHEMA_MISMATCH",
   "INPUT_COLUMN_MISSING", "EMPTY_INPUT", "PREDICTION_FAILED"}

TrainingPlanOK ==
  /\ plan.rounds >= 1 /\ plan.workers >= 2 /\ plan.classes >= 2
  /\ plan.split.train + plan.split.validation + plan.split.test = 100
  /\ plan.split.seed \in 0 .. SeedSpace - 1
  /\ plan.early # Null => plan.early = Missing \/ plan.early >= 1

InferencePlanOK ==
  /\ plan.batches.predictor >= 1 /\ plan.batches.sink >= 1
  /\ ToSet(plan.tensor) \subseteq plan.columns

\* Every stage and code is one the code knows, a plan holds what the
\* runtimes accept whatever the hints of the request said, and the
\* operation ends with a code exactly when it failed.
TypeOK ==
  /\ op \in {"training", "inference"} /\ pc \in Stages /\ code \in Codes
  /\ pc = "ended" <=> code # "OK"
  /\ plan # Null => IF op = "training" THEN TrainingPlanOK ELSE InferencePlanOK
  /\ rows # {} => {r.id : r \in rows} \subseteq {r.id : r \in Tables[table]}
  /\ run.retries \in 0 .. MaxRetries /\ tampers \in 0 .. MaxChanges
  /\ \A l \in DOMAIN store : store[l] \in DOMAIN Contents \cup {Missing, Bad}

Layout == IF op = "training" THEN doc ELSE doc.input

\* Every relation joins two of the tables, there is one fewer of them than of
\* tables, and whoever follows them from the PRIMARY table reaches every table.
IsTree(tables, relations) ==
  LET aliases == Aliases(tables)
      primary == {tables[i].table_alias : i \in Primaries(tables)}
      Closed(set) == \A i \in DOMAIN relations :
                       relations[i].left_alias \in set => relations[i].right_alias \in set
  IN  /\ \A i \in DOMAIN relations :
           {relations[i].left_alias, relations[i].right_alias} \subseteq aliases
      /\ Len(relations) = Cardinality(aliases) - 1
      /\ \A set \in SUBSET aliases : primary \subseteq set /\ Closed(set) => set = aliases

\* An admitted request joins its tables into a tree that hangs on the
\* PRIMARY one: none is unreachable, joined to itself or joined twice.
JoinIsATree == pc = "build" => IsTree(Layout.tables, Or(Layout.relations, <<>>))

\* An admitted request can be submitted: its deadline is absent or positive
\* (broker.py would refuse it after validation had accepted it).
AdmittedHasDeadline == pc = "build" => Deadline(doc, op) # Bad

\* What is admitted can be planned and run.
AdmittedIsSound == TypeOK /\ JoinIsATree /\ AdmittedHasDeadline

Ids(answers) == {{r.id : r \in a} : a \in answers}

\* What a planned read may yield is what the query of the request may: the
\* same filters on the same values, and the LIMIT after the filters.
ReadIsTheQuery ==
  /\ pc = "load" /\ ~Balanced(doc) /\ Readable =>
       Reads(Tables[table], plan.columns, plan.steps)
         = Answers(doc.data_query.query.sql, Params(doc.data_query.query), Tables[table])
  /\ pc = "predict" =>
       Ids(Reads(Tables[table], plan.columns, plan.steps))
         = Ids(Answers(doc.input.query.sql, Params(doc.input.query), Tables[table]))

\* Class quotas taken in Ray are the UNION ALL KnoVa wrote, as long as no
\* entity appears twice.
SamplesAreTheQuery ==
  pc = "prepare" /\ Balanced(doc) /\ ~HasDuplicates(rows, doc.data_query.entity_key) =>
  LET outcomes == Prepared(rows, doc, plan) IN
  (\A o \in outcomes : o[1]) =>
    Ids({o[2] : o \in outcomes})
      = Ids(Answers(doc.data_query.query.sql, Params(doc.data_query.query), Tables[table]))

\* total_rows of STARTED is the number of rows the inference then reads.
MeasuredIsRead ==
  pc \in {"explain", "written"} => Cardinality(rows) = run.count

\* The rows that are read, by Ray's steps instead of the datasource's SQL, are
\* those the query of the request asks for, and as many as were announced.
ReadsAreTheQuery == ReadIsTheQuery /\ SamplesAreTheQuery /\ MeasuredIsRead

\* What a prepared row was read as.
Raw(r)      == CHOOSE raw \in rows : raw.id = r.id
RawLabel(r) == Raw(r).cells[doc.target.result_column]

\* One row of each entity reaches the fit; a class has its quota unless too few
\* entities are of that class alone, for duplicates are dropped first, and no
\* more than its quota unless another label of class_amounts is the same value.
QuotaFilled ==
  pc = "fit" =>
  LET entity    == doc.data_query.entity_key
      Entity(r) == r.cells[entity.result_column]
      Sure(class) ==
        IF ~Given(entity) THEN {r.id : r \in {s \in rows : RawLabel(s) = class}}
        ELSE {e \in Values(rows, entity.result_column) :
                \A r \in rows : Entity(r) = e => RawLabel(r) = class}
  IN  /\ \A r, s \in prepared :
           Given(entity) /\ Entity(Raw(r)) = Entity(Raw(s)) => r = s
      /\ \A i \in DOMAIN plan.quotas :
           LET class == plan.quotas[i][1]
               quota == plan.quotas[i][2]
               taken == Cardinality({r \in prepared : RawLabel(r) = class})
           IN  /\ (\A j \in DOMAIN plan.quotas : plan.quotas[j][1] = class => j = i)
                    => taken <= quota
               /\ taken >= Min({quota, Cardinality(Sure(class))})

\* A text label reaches the fit as the code the request gave it; a label
\* without a code never does.
LabelsKeepMeaning ==
  pc = "fit" /\ ~IsRegression(doc) =>
  \A r \in prepared :
    LET raw == RawLabel(r) IN
    raw[1] = "str" =>
      /\ raw[2] \in Labels(doc.target.label_mapping)
      /\ r.cells[doc.target.result_column] = <<"num", doc.target.label_mapping[raw[2]]>>

\* A warning is logged for each class of a text label whose rows are more than
\* 5 % off the requested amount, and for no other.  (All read alike: for which
\* class one is logged, only the model says.)
WarnedIffShort ==
  /\ pc = "fit" /\ Balanced(doc)
  /\ Unwrapped(doc.target.column_type) \in {"String", "FixedString"}
  /\ \A r \in rows : RawLabel(r) # Null => RawLabel(r)[1] = "str"
  => short = {label \in DOMAIN Amounts(doc) :
                LET taken  == Cardinality({r \in prepared : RawLabel(r)[2] = label})
                    wanted == Amounts(doc)[label]
                IN  20 * taken > 21 * wanted \/ 20 * taken < 19 * wanted}

\* The rows reach the fit as the request asked: which, how many, with which
\* label, and a warning is logged for each class that is off.
FitsWhatWasAsked == QuotaFilled /\ LabelsKeepMeaning /\ WarnedIffShort

Trained == published # Null /\ <<"inference", "model">> \notin edits

\* The class an inference reports the probability of is the class the
\* training called positive.
PositiveIsTheSameClass ==
  pc = "verify" /\ Trained /\ IsBinary(doc.model) =>
    PositiveIndex(doc.model) = PositiveCode(doc.model)

\* The native model has an objective that an inference takes.
Explainable(files, model) ==
  LET native == Alternative(model.model_artifacts, "xgboost")
      bytes  == Read(files, At(StorageRoot(model.storage), WeightFile(native).path))
  IN  NativeObjective(Contents[bytes].objective, model.task_type)

\* Unless somebody touched the files, the model a training published is
\* found, complete and readable, where the manifest says; it is only refused
\* when the inference sends other features, or wants explanations of a binary
\* objective that no native model may have.
PublishedIsFound ==
  Trained /\ op = "inference" /\ tampers = 0 =>
  /\ code \notin {"MODEL_FORMAT_UNSUPPORTED", "MODEL_ARTIFACT_NOT_FOUND",
                  "MODEL_ARTIFACT_CORRUPTED", "MODEL_LOAD_FAILED"}
  /\ code = "MODEL_SCHEMA_MISMATCH" =>
       \/ ResultColumns(doc.input.features)
            # ToSet(ModelNames(store, doc, Chosen(doc)))
       \/ Explained(doc) /\ ~Explainable(store, doc.model)

\* The bytes that predict and the bytes that explain are the declared ones,
\* whenever the files are overwritten.
RunsOnVerifiedBytes ==
  /\ run.loaded # Missing => run.loaded = WeightFile(Chosen(doc)).hash
  /\ run.explaining # Missing => run.explaining = WeightFile(Native(doc)).hash

DeclaredNames(alternative) ==
  LET weights  == Contents[WeightFile(alternative).hash]
      sidecars == {i \in DOMAIN alternative.files : IsSidecar(alternative.files[i])}
  IN  IF weights.names # <<>> THEN weights.names
      ELSE Contents[alternative.files[Min(sidecars)].hash].names

\* Position k of the tensor holds the column the request declares for the
\* model's k-th feature, after a retry too, and every written row says so.
FeatureOrderIsModels ==
  pc = "written" =>
  LET names == DeclaredNames(Chosen(doc))
      Declared(k) == {doc.input.features[i].column_name :
                        i \in {j \in DOMAIN doc.input.features :
                                 doc.input.features[j].result_column = names[k]}}
  IN  /\ DOMAIN plan.tensor = DOMAIN names
      /\ \A k \in DOMAIN names : {plan.tensor[k]} = Declared(k)
      /\ \A r \in results : \A k \in DOMAIN names :
           \E row \in rows : row.id = r.id /\ \E c \in Declared(k) :
             <<names[k], row.cells[c]>> \in r.features

\* An attempt after one that ran out of memory has a smaller batch, whatever
\* sizes the request asked for.
RetryShrinks ==
  [][run'.retries > run.retries =>
       plan'.batches.predictor < plan.batches.predictor]_vars

\* With a threshold, a row has the positive label if and only if the
\* probability written beside it reaches the threshold.
ThresholdDecides ==
  pc = "written" /\ Threshold(doc) # Null =>
  \A r \in results :
    r.label = LabelText(doc.model, PositiveIndex(doc.model))
      <=> r.probability >= Threshold(doc)

\* The explanation of a binary prediction and its probability speak of one
\* class: the contributions add up to a positive margin if and only if that
\* class is the likelier one.
SignMatchesProbability ==
  pc = "written" /\ IsBinary(doc.model) /\ Explained(doc) =>
  \A r \in results : r.margin > 0 <=> r.probability > 50

\* The filter keeps the rows whose written label it names (INCLUDE) or does
\* not name (EXCLUDE), and every such row.
FilterKeepsExactly ==
  pc = "written" /\ Given(doc.output.result_filter) =>
  LET filter == doc.output.result_filter
      Named(label) == label \in filter.labels
  IN  /\ \A r \in results : Named(r.label) <=> filter.mode = "INCLUDE"
      /\ \A row \in rows : (Named(Label(doc, row.id)) <=> filter.mode = "INCLUDE") =>
           \E r \in results : r.id = row.id

\* A row of the result table says what the model says of that row: from its own
\* features, in the label, the probability and the sign of the explanation, for
\* the class that training called positive, and only if the filter keeps it.
ResultsMeanTheModel ==
  /\ FeatureOrderIsModels /\ PositiveIsTheSameClass
  /\ ThresholdDecides /\ SignMatchesProbability /\ FilterKeepsExactly

\* The invariant of the proofs.  A document has its sections, each as it was
\* sent or Missing, but for the model, which a training may have handed over.
DocumentInv ==
  /\ DOMAIN doc = Sections[op]
  /\ \A s \in Sections[op] \ {"model"} : doc[s] \in May(op, s) \cup {Missing}
  /\ IsFiniteSet(edits)
  /\ op = "inference" => ParsedModel(doc.model)
  /\ pc = "published" =>
       "model_artifacts" \in DOMAIN published /\ ParsedArtifacts(published.model_artifacts)

TrainingStages  == {"load", "prepare", "fit", "published"}
InferenceStages ==
  {"verify", "explainer", "normalize", "measure", "predict", "explain", "written"}

\* The plan of every stage is that of the document, and once the model is
\* verified the order of its features is the declared one.
PlanInv ==
  /\ pc \in {"compose", "build"} => plan = Null /\ rows = {}
  /\ pc \in TrainingStages =>
       op = "training" /\ Plannable(doc) /\ plan = TrainingPlan(doc)
  /\ pc \in InferenceStages =>
       /\ op = "inference" /\ InferenceCode(doc) = "OK"
       /\ DOMAIN plan = DOMAIN InferencePlan(doc)
       /\ plan.columns = InputColumns(doc.input) /\ plan.steps = InputSteps(doc.input)
       /\ DOMAIN plan.batches = {"predictor", "sink"} /\ plan.batches.predictor \in Nat
       /\ InferencePlanOK
  /\ pc \in InferenceStages \ {"verify"} =>
       /\ plan.names = DeclaredNames(Chosen(doc))
       /\ ToSet(plan.names) = ResultColumns(doc.input.features)
       /\ plan.tensor = ModelOrder(doc.input, plan.names)

\* What has been read is what the plan reads, what is fitted is what the
\* preparation leaves of it, what was counted is its size, and what has been
\* written is what the model makes of it.
RowsInv ==
  /\ pc \in {"prepare", "fit", "published", "explain", "written"} =>
       rows \in Reads(Tables[table], plan.columns, plan.steps)
  /\ pc = "fit" =>
       <<TRUE, prepared>> \in Prepared(rows, doc, plan) /\ short = ShortClasses(prepared, doc)
  /\ pc \in {"predict", "explain", "written"} =>
       run.count = Measured(Tables[table], plan)
  /\ pc = "written" => results = Results(doc, rows, plan.names, plan.tensor)

\* No file is in use before the stage that reads it.
RunInv ==
  /\ DOMAIN run = DOMAIN NoRun /\ table \in DOMAIN Tables
  /\ run.loaded # Missing => pc \in {"measure", "predict", "explain", "written", "ended"}
  /\ run.explaining # Missing => pc = "written"

PathInv ==
  /\ AdmittedIsSound /\ RunsOnVerifiedBytes
  /\ DocumentInv /\ PlanInv /\ RowsInv /\ RunInv

\* Both models are found among the files and accepted, as one model, but for the
\* objective of the native one.
Intact(files, model) ==
  LET artifacts    == model.model_artifacts
      root         == StorageRoot(model.storage)
      Names(a)     == NamesIn(files, root, a)
      Classes(a)   == ClassesIn(Contents[Read(files, At(root, WeightFile(a).path))],
                                model.task_type)
      onnx         == Alternative(artifacts, "onnx")
      native       == Alternative(artifacts, "xgboost")
  IN  /\ DOMAIN artifacts = {"model_weights"} /\ Usable(artifacts) # {}
      /\ onnx.format = "onnx" /\ native.format = "xgboost"
      /\ VerifiedCode(files, model, "onnx") = "OK"
      /\ VerifiedCode(files, model, "xgboost")
           = IF Explainable(files, model) THEN "OK" ELSE "MODEL_SCHEMA_MISMATCH"
      /\ Names(onnx) = Names(native) /\ Classes(onnx) = Classes(native)

\* A published model stays intact until somebody touches the files, and what
\* has been verified is what it says.
PublishedInv ==
  /\ pc = "published" =>
       /\ {"storage", "model_artifacts", "task_type", "label_mapping"} \subseteq DOMAIN published
       /\ Intact(store, published)
  /\ Trained /\ op = "inference" /\ tampers = 0 =>
       /\ Intact(store, doc.model)
       /\ pc = "explainer" => /\ plan.names = ModelNames(store, doc, Chosen(doc))
                              /\ run.classes = ModelClasses(store, doc, Chosen(doc))

IInv == PathInv /\ PublishedInv /\ PublishedIsFound
=============================================================================
