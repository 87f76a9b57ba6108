--------------------------- MODULE ModelArtifacts ---------------------------
(***************************************************************************)
(* A model on its way from training to inference: the manifest a training  *)
(* reports of its Bundle (training.py), the rules an inference applies to  *)
(* the manifest it is given, which file it picks, and what it has to find  *)
(* in the bytes of that file (inference.py).                               *)
(*                                                                         *)
(* The bytes of a file are named; two names are two SHA-256 sums.          *)
(* Contents tells what a name stands for:                                  *)
(*   [format, size, loads, external, tensors, shaped, objective, classes,  *)
(*    names, width]                                                        *)
(* tensors are the names of the inputs and of the outputs of a graph,      *)
(* shaped says that they have the ranks and widths of a task's tensors.    *)
(***************************************************************************)
EXTENDS TrainingPlan

CONSTANT Contents

Below(root, location) ==
  /\ root.scheme = location.scheme /\ root.host = location.host
  /\ Len(location.path) > Len(root.path)
  /\ SubSeq(location.path, 1, Len(root.path)) = root.path

At(root, parts) == [root EXCEPT !.path = @ \o parts]

-----------------------------------------------------------------------------
(* Training: the manifest of the published Bundle.                         *)

\* Mutant: the prefix of the request, not the one of the Bundle.
ArtifactStorage_Requested(s, canonical) ==
  IF ~Below(BundleLocation(s), canonical) THEN Bad
  ELSE IF s.type = "s3"
  THEN IF s.bucket # <<canonical.host>> THEN Bad
       ELSE [type |-> "s3", bucket |-> s.bucket, prefix |-> s.prefix,
             properties |-> s.properties]
  ELSE [type |-> "nas", bucket |-> <<"">> \o Nonempty(s.bucket), prefix |-> s.prefix,
        properties |-> s.properties]

\* Where the protocol finds the Bundle, or Bad: an S3 bucket is compared as
\* it was written, a shared path after normalisation.
ArtifactStorage(s, canonical) ==
  IF ~Below(BundleLocation(s), canonical) THEN Bad
  ELSE IF s.type = "s3"
  THEN IF s.bucket # <<canonical.host>> THEN Bad
       ELSE [type |-> "s3", bucket |-> s.bucket, prefix |-> canonical.path \o <<"">>,
             properties |-> s.properties]
  ELSE LET root == Nonempty(s.bucket)
       IN  [type |-> "nas", bucket |-> <<"">> \o root,
            prefix |-> SubSeq(canonical.path, Len(root) + 1,
                              Len(canonical.path)) \o <<"">>,
            properties |-> s.properties]

ProtocolFormat == [onnx |-> "onnx", ubj |-> "xgboost"]

\* The artifacts of a Bundle that are models.
ModelArtifacts(artifacts) ==
  Subsequence(artifacts,
              {i \in DOMAIN artifacts : artifacts[i].format \in DOMAIN ProtocolFormat})

\* The tensors of a graph are named as in the signature of the Bundle, which the
\* model has with the graph.
ManifestFile(artifact, file) ==
  [path |-> <<"artifacts", artifact.name>> \o file.path,
   size |-> Contents[file.content].size, hash |-> file.content,
   tensors |-> IF artifact.format = "onnx" THEN artifact.signature ELSE Missing]

\* Both formats, each once, and no artifact without files.
ArtifactsPublishable(artifacts) ==
  LET models == ModelArtifacts(artifacts) IN
  /\ {models[i].format : i \in DOMAIN models} = DOMAIN ProtocolFormat
  /\ Len(models) = Cardinality(DOMAIN ProtocolFormat)
  /\ \A i \in DOMAIN models : models[i].files # <<>>

Manifest(p, canonical, artifacts) ==
  LET models == ModelArtifacts(artifacts) IN
  [storage |-> ArtifactStorage(p.storage_context, canonical),
   model_artifacts |->
     [part \in {"model_weights"} |->
        [required_for_inference |-> TRUE,
         alternatives |->
           [i \in DOMAIN models |->
              [format |-> ProtocolFormat[models[i].format],
               files  |-> [j \in DOMAIN models[i].files |->
                             ManifestFile(models[i], models[i].files[j])]]]]]]

-----------------------------------------------------------------------------
(* Inference: the declared manifest.                                       *)

SafePath(parts) ==
  /\ Text(parts) /\ parts # <<>>
  /\ \A i \in DOMAIN parts : parts[i] \notin {"", ".", ".."}

\* _model_reference refuses properties that are no object (684).
StorageRootOK(s) ==
  /\ Text(s.bucket)
  /\ Text(s.prefix) /\ Len(s.prefix) > 1
  /\ s.prefix[1] # "" /\ Last(s.prefix) = "" /\ ".." \notin ToSet(s.prefix)
  /\ \/ s.type \in Shared /\ s.bucket[1] = ""
     \/ s.type = "s3" /\ BucketName(s.bucket)
  /\ s.properties \notin {Null, Bad}

StorageRoot(s) ==
  LET prefix == Nonempty(s.prefix) IN
  IF s.type = "s3"
  THEN [scheme |-> "s3", host |-> Stripped(s.bucket)[1], path |-> prefix]
  ELSE [scheme |-> "file", host |-> "", path |-> Nonempty(s.bucket) \o prefix]

Parts == {"pipeline", "model_weights", "preprocessor"}
Formats ==
  {"onnx", "sklearn", "spark_pipeline_model", "pytorch", "tensorflow", "tensorrt",
   "xgboost", "lightgbm", "ray_checkpoint", "ray_preprocessor"}

\* Every file of every alternative of every part.
FileIndexes(artifacts) ==
  UNION {UNION {{<<part, i, j>> : j \in DOMAIN artifacts[part].alternatives[i].files} :
                   i \in DOMAIN artifacts[part].alternatives} :
           part \in DOMAIN artifacts}
FileAt(artifacts, x) == artifacts[x[1]].alternatives[x[2]].files[x[3]]

PartOK(entry) ==
  /\ Obj(entry)
  /\ IsTrueOrFalse(entry.required_for_inference)
  /\ Obj(entry.alternatives) /\ entry.alternatives # <<>>
  /\ \A i \in DOMAIN entry.alternatives :
       /\ entry.alternatives[i].format \in Formats
       /\ Obj(entry.alternatives[i].files) /\ entry.alternatives[i].files # <<>>
  /\ Cardinality({entry.alternatives[i].format : i \in DOMAIN entry.alternatives})
       = Len(entry.alternatives)

ManifestOK(artifacts) ==
  /\ DOMAIN artifacts \subseteq Parts
  /\ \A part \in DOMAIN artifacts : PartOK(artifacts[part])
  /\ LET files == FileIndexes(artifacts) IN
     /\ \A x \in files : LET f == FileAt(artifacts, x) IN
          SafePath(f.path) /\ AtLeast(f.size, 0) /\ Text(f.hash)
     /\ Cardinality({FileAt(artifacts, x).path : x \in files}) = Cardinality(files)

\* A part this runtime cannot apply must not be required.
PartsSupported(artifacts) ==
  /\ "model_weights" \in DOMAIN artifacts
  /\ \A part \in DOMAIN artifacts \ {"model_weights"} :
       ~artifacts[part].required_for_inference

\* A name per suffix: the code asks for .onnx and .ubj.
WeightName == [onnx |-> "model.onnx", xgboost |-> "model.ubj"]
WeightFiles(alternative) ==
  {i \in DOMAIN alternative.files :
     Last(alternative.files[i].path) = WeightName[alternative.format]}

\* The alternatives with one weight file, by their positions.
Usable(artifacts) ==
  LET alternatives == artifacts["model_weights"].alternatives IN
  {i \in DOMAIN alternatives :
     /\ alternatives[i].format \in DOMAIN WeightName
     /\ Cardinality(WeightFiles(alternatives[i])) = 1}

\* The first of the preferred format, otherwise the first.
Alternative(artifacts, preferred) ==
  LET alternatives == artifacts["model_weights"].alternatives
      usable == Usable(artifacts)
      wanted == {i \in usable : alternatives[i].format = preferred}
  IN  alternatives[Min(IF wanted = {} THEN usable ELSE wanted)]

WeightFile(alternative) ==
  alternative.files[CHOOSE i \in WeightFiles(alternative) : TRUE]

-----------------------------------------------------------------------------
(* Inference: the bytes.                                                   *)

\* The first failing check of a sequence of <<holds, code>>.
FirstFailure(checks) ==
  LET failing == {i \in DOMAIN checks : ~checks[i][1]}
  IN  IF failing = {} THEN "OK" ELSE checks[Min(failing)][2]

Read(store, location) == IF location \in DOMAIN store THEN store[location] ELSE Missing

IsSidecar(file) == Last(file.path) = "feature_names.json"

\* Every file of the alternative is read and compared with its declaration.
FileChecks(store, root, files, i) ==
  LET content == Read(store, At(root, files[i].path)) IN
  << <<content # Missing, "MODEL_ARTIFACT_NOT_FOUND">>,
     <<content # Bad, "MODEL_LOAD_FAILED">>,
     <<content = files[i].hash /\ Contents[content].size = files[i].size,
       "MODEL_ARTIFACT_CORRUPTED">>,
     <<IsSidecar(files[i]) => \A j \in 1 .. i - 1 : ~IsSidecar(files[j]),
       "MODEL_SCHEMA_MISMATCH">> >>

FilesCode(store, root, files) ==
  LET codes == [i \in DOMAIN files |-> FirstFailure(FileChecks(store, root, files, i))]
      bad   == {i \in DOMAIN codes : codes[i] # "OK"}
  IN  IF bad = {} THEN "OK" ELSE codes[Min(bad)]

\* The feature names of the verified bytes; a native model without names has
\* them in its sidecar.
NamesIn(store, root, alternative) ==
  LET weights  == Contents[Read(store, At(root, WeightFile(alternative).path))]
      sidecars == {i \in DOMAIN alternative.files : IsSidecar(alternative.files[i])}
  IN  IF weights.names = <<>> /\ alternative.format = "xgboost" /\ sidecars # {}
      THEN Contents[Read(store, At(root, alternative.files[Min(sidecars)].path))].names
      ELSE weights.names

ClassesIn(content, task) ==
  CASE task = "REGRESSION" -> Missing
    [] task = "BINARY_CLASSIFICATION" /\ content.format = "ubj" -> 2
    [] OTHER -> content.classes

\* How the tensors of a task are called.
Signature(task) ==
  [inputs  |-> <<"float_input">>,
   outputs |-> IF task = "REGRESSION" THEN <<"prediction">>
               ELSE <<"label", "probabilities">>]

\* Unless the manifest gives other names, as many as the task has.
DeclaredTensors(file, task) ==
  [side \in {"inputs", "outputs"} |->
     IF /\ file.tensors # Missing
        /\ Len(file.tensors[side]) = Len(Signature(task)[side])
     THEN file.tensors[side] ELSE Signature(task)[side]]

\* A native model has an objective of its task; of the binary ones the logistic
\* alone, whatever a training may fit.
NativeObjective(objective, task) ==
  /\ objective[1] = ObjectiveOf[task]
  /\ task = "BINARY_CLASSIFICATION" => objective[2] = "logistic"

\* What the bytes have to say about task, tensors, features and classes.
SchemaCode(content, alternative, names, model) ==
  LET task    == model.task_type
      classes == ClassesIn(content, task)
      format  == alternative.format
      onnx    == format = "onnx"
  IN  FirstFailure(
        << <<content.loads /\ ProtocolFormat[content.format] = format,
             "MODEL_LOAD_FAILED">>,
           <<onnx => ~content.external, "MODEL_FORMAT_UNSUPPORTED">>,
           <<onnx => content.tensors = DeclaredTensors(WeightFile(alternative), task),
             "MODEL_SCHEMA_MISMATCH">>,
           <<~onnx => NativeObjective(content.objective, task), "MODEL_SCHEMA_MISMATCH">>,
           <<onnx /\ task # "REGRESSION" => classes # Missing, "MODEL_SCHEMA_MISMATCH">>,
           <<onnx => content.shaped, "MODEL_SCHEMA_MISMATCH">>,
           <<content.width \in {0, Len(names)}, "MODEL_SCHEMA_MISMATCH">>,
           <<names # <<>> /\ Cardinality(ToSet(names)) = Len(names),
             "MODEL_SCHEMA_MISMATCH">>,
           <<classes # Missing =>
               /\ task = "BINARY_CLASSIFICATION" => classes = 2
               /\ Labels(model.label_mapping) # {} =>
                    Range(model.label_mapping) = 0 .. classes - 1,
             "MODEL_SCHEMA_MISMATCH">> >>)

VerifiedCode(store, model, preferred) ==
  LET alternative == Alternative(model.model_artifacts, preferred)
      root        == StorageRoot(model.storage)
      files       == FilesCode(store, root, alternative.files)
      weights     == Read(store, At(root, WeightFile(alternative).path))
  IN  IF files # "OK" THEN files
      ELSE SchemaCode(Contents[weights], alternative,
                      NamesIn(store, root, alternative), model)
=============================================================================
