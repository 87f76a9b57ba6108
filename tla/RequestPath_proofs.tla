------------------------- MODULE RequestPath_proofs -------------------------
(***************************************************************************)
(* Proofs about RequestPath: lemmas about the operators of its rules and   *)
(* plans, the invariant PathInv with one lemma per action, what follows    *)
(* from it of the rows that are read, fitted and written, and PublishedInv *)
(* with PublishedIsFound on top of it, again with one lemma per action.    *)
(***************************************************************************)
EXTENDS RequestPath, TLAPS, FiniteSetTheorems, SequenceTheorems, WellFoundedInduction

-----------------------------------------------------------------------------
(* Sets of numbers and lists *)

\* A set of natural numbers that is not empty has a least element.
LEMMA LeastNumber ==
  ASSUME NEW S \in SUBSET Nat, S # {}
  PROVE  Min(S) \in S /\ \A n \in S : Min(S) <= n
<1>1. PICK m \in S : \A n \in S : ~(<<n, m>> \in OpToRel(<, Nat))
  <2>1. IsWellFoundedOn(OpToRel(<, Nat), Nat)
    BY NatLessThanWellFounded
  <2> QED
    BY <2>1, WFMin
<1>2. \A n \in S : m <= n
  <2>1. \A n \in S : n \in Nat /\ m \in Nat /\ ~(n < m)
    BY <1>1 DEF OpToRel
  <2> QED
    BY <2>1
<1> QED
  BY <1>2 DEF Min

\* The least and the largest of two numbers.
LEMMA TwoNumbers ==
  ASSUME NEW m \in Nat, NEW n \in Nat
  PROVE  /\ Min({m, n}) \in {m, n} /\ Min({m, n}) <= m /\ Min({m, n}) <= n
         /\ Max({m, n}) \in {m, n} /\ m <= Max({m, n}) /\ n <= Max({m, n})
<1>1. Min({m, n}) \in {m, n} /\ Min({m, n}) <= m /\ Min({m, n}) <= n
  BY LeastNumber
<1>2. \E x \in {m, n} : \A y \in {m, n} : x >= y
  OBVIOUS
<1>3. Max({m, n}) \in {m, n} /\ \A y \in {m, n} : Max({m, n}) >= y
  BY <1>2 DEF Max
<1> QED
  BY <1>1, <1>3

\* A list that is neither absent nor wrong is a sequence.
LEMMA ListIsSeq ==
  ASSUME NEW x, Obj(x), Listed(x)
  PROVE  /\ x \in Seq({x[i] : i \in 1 .. Len(x)})
         /\ Len(x) \in Nat /\ DOMAIN x = 1 .. Len(x)
         /\ x # <<>> => Len(x) > 0
<1>1. Len(x) \in Nat /\ x = [i \in 1 .. Len(x) |-> x[i]]
  BY DEF Listed, IsList
<1>2. DOMAIN x = 1 .. Len(x)
  BY <1>1
<1>3. x \in Seq({x[i] : i \in 1 .. Len(x)})
  BY <1>1
<1> QED
  BY <1>1, <1>2, <1>3

-----------------------------------------------------------------------------
(* Joins *)

\* Joined(...) is the function its definition says: each number of relations
\* extends what the relations before it have joined.
LEMMA JoinedSteps ==
  ASSUME NEW primary, NEW relations, NEW aliases, Len(relations) \in Nat
  PROVE  LET joined == Joined(primary, relations, aliases)
         IN  /\ joined[0] = primary
             /\ \A n \in 1 .. Len(relations) :
                  joined[n] = Extend(joined[n - 1], relations[n], aliases)
<1> DEFINE k == Len(relations)
           Is(f, m) == f = [n \in 0 .. m |-> IF n = 0 THEN primary
                                   ELSE Extend(f[n - 1], relations[n], aliases)]
           Without == {m \in 0 .. k : ~ \E f : Is(f, m)}
<1>1. Without = {}
  <2> SUFFICES ASSUME Without # {} PROVE FALSE
    OBVIOUS
  <2>1. Without \in SUBSET Nat
    OBVIOUS
  <2>2. PICK m \in Without : \A n \in Without : m <= n
    <3> HIDE DEF Without
    <3> QED
      BY <2>1, LeastNumber
  <2>3. CASE m = 0
    <3> DEFINE f == [n \in 0 .. 0 |-> primary]
    <3>1. Is(f, 0)
      OBVIOUS
    <3> QED
      BY <2>3, <3>1
  <2>4. CASE m # 0
    <3>1. m - 1 \in 0 .. k /\ m \in 1 .. k /\ m - 1 \notin Without
      BY <2>2, <2>4
    <3>2. PICK f : Is(f, m - 1)
      BY <3>1
    <3> DEFINE g == [n \in 0 .. m |-> IF n = m THEN Extend(f[m - 1], relations[m], aliases)
                                      ELSE f[n]]
    <3>3. \A n \in 0 .. m : g[n] = IF n = 0 THEN primary
                                   ELSE Extend(g[n - 1], relations[n], aliases)
      <4> TAKE n \in 0 .. m
      <4>1. \A i \in 0 .. m - 1 : f[i] = IF i = 0 THEN primary
                                   ELSE Extend(f[i - 1], relations[i], aliases)
        BY <3>2
      <4>2. CASE n = m
        BY <4>2, <3>1, <2>4
      <4>3. CASE n # m
        BY <4>3, <4>1, <3>1
      <4> QED
        BY <4>2, <4>3
    <3>4. Is(g, m)
      BY <3>3
    <3> QED
      BY <3>4
  <2> QED
    BY <2>3, <2>4
<1>2. PICK f : Is(f, k)
  BY <1>1
<1>3. LET joined == Joined(primary, relations, aliases) IN Is(joined, k)
  BY <1>2 DEF Joined
<1> QED
  BY <1>3

\* What has been joined after some relations: nothing once one was refused,
\* otherwise one alias more for each relation, all of them reached from the
\* primary table.
LEMMA JoinedGrows ==
  ASSUME NEW primary, NEW relations, NEW aliases, Len(relations) \in Nat,
         IsFiniteSet(aliases), NEW first \in aliases, primary = {first},
         NEW n \in 0 .. Len(relations)
  PROVE  LET joined == Joined(primary, relations, aliases)
         IN  joined[n] # {} =>
               /\ joined[n] \subseteq aliases
               /\ Cardinality(joined[n]) = n + 1
               /\ \A i \in 1 .. n :
                    /\ relations[i].left_alias \in joined[n]
                    /\ relations[i].right_alias \in joined[n]
               /\ \A set : /\ primary \subseteq set
                           /\ \A i \in 1 .. n : relations[i].left_alias \in set =>
                                                relations[i].right_alias \in set
                           => joined[n] \subseteq set
<1> DEFINE joined == Joined(primary, relations, aliases)
           Good(m) == joined[m] # {} =>
               /\ joined[m] \subseteq aliases
               /\ Cardinality(joined[m]) = m + 1
               /\ \A i \in 1 .. m :
                    /\ relations[i].left_alias \in joined[m]
                    /\ relations[i].right_alias \in joined[m]
               /\ \A set : /\ primary \subseteq set
                           /\ \A i \in 1 .. m : relations[i].left_alias \in set =>
                                                relations[i].right_alias \in set
                           => joined[m] \subseteq set
           Wrong == {m \in 0 .. Len(relations) : ~Good(m)}
<1>1. /\ joined[0] = primary
      /\ \A m \in 1 .. Len(relations) :
           joined[m] = Extend(joined[m - 1], relations[m], aliases)
  BY JoinedSteps
<1> HIDE DEF joined
<1>2. Wrong = {}
  <2> SUFFICES ASSUME Wrong # {} PROVE FALSE
    OBVIOUS
  <2>1. Wrong \in SUBSET Nat
    OBVIOUS
  <2>2. PICK m \in Wrong : \A i \in Wrong : m <= i
    <3> HIDE DEF Wrong
    <3> QED
      BY <2>1, LeastNumber
  <2>3. CASE m = 0
    <3>1. Cardinality({first}) = 1
      BY FS_Singleton
    <3>2. joined[m] = {first}
      BY <1>1, <2>3
    <3>3. Good(m)
      BY <2>3, <3>1, <3>2
    <3> QED
      BY <3>3, <2>2
  <2>4. CASE m # 0
    <3>1. m - 1 \in 0 .. Len(relations) /\ m \in 1 .. Len(relations) /\ m - 1 \notin Wrong
      BY <2>2, <2>4
    <3>2. Good(m - 1)
      BY <3>1
    <3> DEFINE before == joined[m - 1]  left == relations[m].left_alias
               right == relations[m].right_alias
    <3>3. joined[m] # {}
      BY <2>2
    <3>4. /\ left \in before /\ right \in aliases \ before
          /\ joined[m] = before \cup {right}
      BY <1>1, <3>1, <3>3 DEF Extend
    <3>5. /\ before # {} /\ before \subseteq aliases
          /\ Cardinality(before) = m
      BY <3>2, <3>4, <3>1
    <3>6. Cardinality(joined[m]) = m + 1
      <4>1. IsFiniteSet(before)
        BY <3>5, FS_Subset
      <4>2. Cardinality(before \cup {right}) = Cardinality(before) + 1
        <5> HIDE DEF before, right
        <5> QED
          BY <4>1, <3>4, FS_AddElement
      <4> QED
        BY <4>2, <3>4, <3>5
    <3>7. ASSUME NEW i \in 1 .. m
          PROVE  /\ relations[i].left_alias \in joined[m]
                 /\ relations[i].right_alias \in joined[m]
      <4>1. CASE i = m
        BY <4>1, <3>4
      <4>2. CASE i # m
        <5>1. i \in 1 .. (m - 1)
          BY <4>2, <3>1
        <5> QED
          BY <5>1, <3>2, <3>4, <3>5
      <4> QED
        BY <4>1, <4>2
    <3>8. ASSUME NEW set, primary \subseteq set,
                 \A i \in 1 .. m : relations[i].left_alias \in set =>
                                   relations[i].right_alias \in set
          PROVE  joined[m] \subseteq set
      <4>1. \A i \in 1 .. (m - 1) : i \in 1 .. m
        BY <3>1
      <4>2. before \subseteq set
        BY <4>1, <3>2, <3>5, <3>8
      <4>3. m \in 1 .. m
        BY <3>1
      <4> QED
        BY <4>2, <4>3, <3>4, <3>8
    <3>9. Good(m)
      BY <3>4, <3>5, <3>6, <3>7, <3>8
    <3> QED
      BY <3>9, <2>2
  <2> QED
    BY <2>3, <2>4
<1>3. Good(n)
  BY <1>2
<1> QED
  BY <1>3 DEF joined

\* A topology that is accepted joins its tables into a tree on the primary.
LEMMA TopologyIsATree ==
  ASSUME NEW tables, NEW rels, Topology(tables, rels), Listed(tables), Listed(rels)
  PROVE  LET relations == Or(rels, <<>>)
             aliases   == Aliases(tables)
             primary   == {tables[i].table_alias : i \in Primaries(tables)}
         IN  /\ \A i \in DOMAIN relations :
                  {relations[i].left_alias, relations[i].right_alias} \subseteq aliases
             /\ Len(relations) = Cardinality(aliases) - 1
             /\ \A set \in SUBSET aliases :
                  /\ primary \subseteq set
                  /\ \A i \in DOMAIN relations : relations[i].left_alias \in set =>
                                                 relations[i].right_alias \in set
                  => set = aliases
<1> DEFINE relations == Or(rels, <<>>)
           aliases   == Aliases(tables)
           primary   == {tables[i].table_alias : i \in Primaries(tables)}
           joined    == Joined(primary, relations, aliases)
           k         == Len(relations)
<1>1. /\ Obj(tables) /\ tables # <<>>
      /\ Cardinality(aliases) = Len(tables) /\ Cardinality(Primaries(tables)) = 1
      /\ Obj(relations) /\ joined[k] = aliases
  BY DEF Topology
<1>2. /\ Len(tables) \in Nat /\ DOMAIN tables = 1 .. Len(tables) /\ Len(tables) > 0
  BY <1>1, ListIsSeq
<1>3. Len(relations) \in Nat /\ DOMAIN relations = 1 .. Len(relations)
  <2>1. CASE rels = Missing
    BY <2>1 DEF Or
  <2>2. CASE rels # Missing
    <3>1. relations = rels
      BY <2>2 DEF Or
    <3> QED
      BY <3>1, <1>1, ListIsSeq
  <2> QED
    BY <2>1, <2>2
<1>4. IsFiniteSet(aliases)
  <2> DEFINE f == [i \in 1 .. Len(tables) |-> tables[i].table_alias]
  <2>1. f \in Surjection(1 .. Len(tables), aliases)
    BY <1>2 DEF Surjection, Aliases
  <2>2. IsFiniteSet(1 .. Len(tables))
    BY <1>2, FS_Interval
  <2> QED
    BY <2>1, <2>2, FS_Surjection
<1>5. PICK p : Primaries(tables) = {p}
  <2>1. Primaries(tables) \subseteq 1 .. Len(tables)
    BY <1>2 DEF Primaries
  <2>2. IsFiniteSet(Primaries(tables))
    <3>1. IsFiniteSet(1 .. Len(tables))
      BY <1>2, FS_Interval
    <3> QED
      BY <2>1, <3>1, FS_Subset
  <2> QED
    BY <2>2, <1>1, FS_Singleton
<1>6. primary = {tables[p].table_alias} /\ tables[p].table_alias \in aliases
  <2>1. p \in DOMAIN tables
    BY <1>5 DEF Primaries
  <2> QED
    BY <2>1, <1>5 DEF Aliases
<1>7. aliases # {}
  BY <1>6
<1> HIDE DEF relations, aliases, primary
<1>8. k \in 0 .. Len(relations)
  BY <1>3
<1>9. /\ joined[k] # {}
      /\ Cardinality(joined[k]) = k + 1
      /\ \A i \in 1 .. k : /\ relations[i].left_alias \in joined[k]
                           /\ relations[i].right_alias \in joined[k]
      /\ \A set : /\ primary \subseteq set
                  /\ \A i \in 1 .. k : relations[i].left_alias \in set =>
                                       relations[i].right_alias \in set
                  => joined[k] \subseteq set
  BY <1>1, <1>3, <1>4, <1>6, <1>7, <1>8, JoinedGrows
<1>10. /\ \A i \in DOMAIN relations :
           {relations[i].left_alias, relations[i].right_alias} \subseteq aliases
      /\ Len(relations) = Cardinality(aliases) - 1
      /\ \A set \in SUBSET aliases :
            /\ primary \subseteq set
            /\ \A i \in DOMAIN relations : relations[i].left_alias \in set =>
                                           relations[i].right_alias \in set
            => set = aliases
  BY <1>9, <1>1, <1>3
<1> QED
  BY <1>10 DEF relations, aliases, primary

-----------------------------------------------------------------------------
(* Plans *)

\* A hint is one of the values allowed, or the default.
LEMMA HintType ==
  ASSUME NEW extensions, NEW name, NEW allowed, NEW default
  PROVE  Hint(extensions, name, allowed, default) \in allowed \cup {default}
BY DEF Hint

\* What a training is planned with is what the runtime accepts: at least one
\* round, two workers and two classes, a split of all rows with a seed of its
\* space, and a patience of at least one round.
LEMMA TrainingPlanSound ==
  ASSUME NEW p, Plannable(p)
  PROVE  LET planned == TrainingPlan(p) IN
         /\ planned.rounds >= 1 /\ planned.workers >= 2 /\ planned.classes >= 2
         /\ planned.split.train + planned.split.validation + planned.split.test = 100
         /\ planned.split.seed \in 0 .. SeedSpace - 1
         /\ planned.early # Null => planned.early = Missing \/ planned.early >= 1
<1> DEFINE planned == TrainingPlan(p)
<1>1. /\ planned.rounds = Rounds(p) /\ planned.workers = Workers(p.extensions)
      /\ planned.classes = ClassCount(p) /\ planned.split = SplitPlan(p.data_split)
      /\ planned.early = EarlyStopping(p)
  BY DEF TrainingPlan
<1>2. AlgorithmPlannable(p) /\ Split(p.data_split, p.algorithm.category)
  BY DEF Plannable, ValidTraining
<1> HIDE DEF planned
<1>3. planned.rounds >= 1
  <2>1. /\ RequestedRounds(p) \in Nat /\ RequestedRounds(p) >= 1
        /\ MaxEpochs(p) \in Nat /\ MaxEpochs(p) >= 1
    BY <1>2 DEF AlgorithmPlannable, AtLeast
  <2> QED
    BY <2>1, <1>1, TwoNumbers DEF Rounds
<1>4. planned.workers >= 2
  <2>1. Workers(p.extensions) \in (Nat \ {0, 1}) \cup {2}
    BY HintType DEF Workers
  <2> QED
    BY <2>1, <1>1
<1>5. planned.classes >= 2
  BY <1>1, <1>2 DEF AlgorithmPlannable, ObjectivePlannable, AtLeast
<1>6. planned.split.train + planned.split.validation + planned.split.test = 100
  <2>1. CASE p.data_split = Missing
    BY <1>1, <2>1 DEF SplitPlan, Field
  <2>2. CASE p.data_split # Missing
    <3> DEFINE ratios == <<Or(p.data_split.train_ratio, 70),
                           Or(p.data_split.validation_ratio, 15),
                           Or(p.data_split.test_ratio, 15)>>
    <3>1. ratios[1] + ratios[2] + ratios[3] = 100
      BY <1>2, <2>2 DEF Split
    <3> QED
      BY <3>1, <1>1, <2>2 DEF SplitPlan, Field
  <2> QED
    BY <2>1, <2>2
<1>7. planned.split.seed \in 0 .. SeedSpace - 1
  <2> DEFINE seed == Field(p.data_split, "random_seed", 42)
  <2>1. seed \in Int \cup {Null}
    BY <1>2 DEF AlgorithmPlannable, SplitPlannable
  <2> DEFINE drawn == IF seed = Null THEN 42 ELSE seed
  <2>2. planned.split.seed = drawn % 1024
    BY <1>1 DEF SplitPlan, SeedSpace
  <2> HIDE DEF seed
  <2>3. drawn \in Int
    BY <2>1
  <2> HIDE DEF drawn
  <2>4. drawn % 1024 \in 0 .. 1023
    BY <2>3
  <2> QED
    BY <2>2, <2>4 DEF SeedSpace
<1>8. planned.early # Null => planned.early = Missing \/ planned.early >= 1
  BY <1>1, <1>2 DEF AlgorithmPlannable, AtLeast, Given
<1> QED
  BY <1>3, <1>4, <1>5, <1>6, <1>7, <1>8 DEF planned

\* An option of the inference runtime is a positive integer or the default.
LEMMA OptionType ==
  ASSUME NEW p, NEW name, NEW default \in Nat \ {0}
  PROVE  Option(p, name, default) \in Nat \ {0}
BY DEF Option, AtLeast

\* Division that rounds up leaves at least one of something.
LEMMA CeilingType ==
  ASSUME NEW n \in Nat \ {0}, NEW d \in Nat \ {0}
  PROVE  Ceiling(n, d) \in Nat
<1>1. n + d - 1 \in Nat
  OBVIOUS
<1> HIDE DEF Ceiling
<1>2. \A m \in Nat : m \div d \in Nat
  OBVIOUS
<1> QED
  BY <1>1, <1>2 DEF Ceiling

\* Batches have at least one row, and a retry has the size it asks for.
LEMMA BatchesType ==
  ASSUME NEW p, ValidInference(p), NEW measured \in Nat \cup {Null},
         NEW override \in (Nat \ {0}) \cup {Null}
  PROVE  LET batches == Batches(p, measured, override) IN
         /\ DOMAIN batches = {"predictor", "sink"}
         /\ batches.predictor \in Nat \ {0} /\ batches.sink \in Nat \ {0}
         /\ override # Null => batches.predictor = override
<1> DEFINE bounds == BatchBounds(p)  base == BaseBatch(p, measured, override)
           batches == Batches(p, measured, override)
<1>1. bounds[1] \in Nat \ {0} /\ bounds[2] \in Nat \ {0}
  <2> DEFINE low == Option(p, "adaptive_min_batch_size", DefaultMin)
             high == Option(p, "adaptive_max_batch_size", DefaultMax)
  <2>1. low \in Nat \ {0} /\ high \in Nat \ {0}
    BY OptionType DEF DefaultMin, DefaultMax
  <2> QED
    BY <2>1 DEF BatchBounds, DefaultMin, DefaultMax
<1>2. base \in Nat \ {0}
  <2>1. CASE override # Null
    BY <2>1 DEF BaseBatch
  <2>2. CASE override = Null /\ measured # Null /\ measured > 0
    <3> DEFINE parts == Ceiling(measured, Option(p, "adaptive_target_batches", 20))
               most == Max({bounds[1], parts})
    <3>1. parts \in Nat
      BY <2>2, OptionType, CeilingType
    <3>2. base = Min({measured, bounds[2], most})
      BY <2>2 DEF BaseBatch
    <3> HIDE DEF bounds, base, parts
    <3>3. most \in Nat \ {0}
      BY <1>1, <3>1, TwoNumbers
    <3> HIDE DEF most
    <3>4. {measured, bounds[2], most} \in SUBSET (Nat \ {0})
      BY <1>1, <2>2, <3>3
    <3> QED
      BY <3>2, <3>4, LeastNumber
  <2>3. CASE override = Null /\ ~(measured # Null /\ measured > 0)
    <3>1. Given(Field(p.execution, "batch_size", Missing))
            => p.execution.batch_size \in Nat \ {0}
      BY DEF ValidInference, ExecutionLimits, Field, Or, Given, AtLeast
    <3> QED
      BY <2>3, <3>1 DEF BaseBatch
  <2> QED
    BY <2>1, <2>2, <2>3
<1>3. SinkBatch(p, base) \in Nat \ {0}
  <2> HIDE DEF base, bounds
  <2>1. {base, bounds[1], 50000} \in SUBSET (Nat \ {0})
    BY <1>1, <1>2
  <2>2. Min({base, bounds[1], 50000}) \in Nat \ {0}
    BY <2>1, LeastNumber
  <2> QED
    BY <2>2, OptionType DEF SinkBatch, bounds
<1>4. /\ DOMAIN batches = {"predictor", "sink"}
      /\ batches.predictor = IF override # Null THEN override
                             ELSE Option(p, "predictor_batch_size", base)
      /\ batches.sink = SinkBatch(p, base)
  BY DEF Batches
<1> HIDE DEF batches, base
<1>5. Option(p, "predictor_batch_size", base) \in Nat \ {0}
  BY <1>2, OptionType
<1> QED
  BY <1>3, <1>4, <1>5 DEF batches

-----------------------------------------------------------------------------
(* Codes *)

\* A sequence of checks whose first failure is "OK" has no failure.
LEMMA NoFailure ==
  ASSUME NEW checks, DOMAIN checks \subseteq Nat, FirstFailure(checks) = "OK",
         \A i \in DOMAIN checks : checks[i][2] # "OK"
  PROVE  \A i \in DOMAIN checks : checks[i][1]
<1> DEFINE failing == {i \in DOMAIN checks : ~checks[i][1]}
<1>1. failing \in SUBSET Nat
  OBVIOUS
<1>2. CASE failing # {}
  <2>1. FirstFailure(checks) = checks[Min(failing)][2]
    BY <1>2 DEF FirstFailure
  <2>2. Min(failing) \in failing
    <3> HIDE DEF failing
    <3> QED
      BY <1>1, <1>2, LeastNumber
  <2> QED
    BY <2>1, <2>2
<1> QED
  BY <1>2

\* What a request that _build_request accepts has passed.
LEMMA InferenceAccepted ==
  ASSUME NEW p, InferenceCode(p) = "OK"
  PROVE  /\ ValidInference(p)
         /\ IsBinary(p.model) => PositiveIndex(p.model) # Bad
         /\ FilterOK(p.model, p.output.result_filter)
         /\ LayoutOK(p.input) /\ QueryOK(p.input)
         /\ ClickHouse(p.input.datasource)
         /\ ReferenceCode(p.model) = "OK"
         /\ Usable(p.model.model_artifacts) # {}
         /\ Explained(p) => Native(p).format = "xgboost"
<1> DEFINE more == /\ IsBinary(p.model) => PositiveIndex(p.model) # Bad
                   /\ ~Given(p.input.timeseries_pivot)
                   /\ FilterOK(p.model, p.output.result_filter)
                   /\ LayoutOK(p.input)
                   /\ QueryOK(p.input)
                   /\ ClickHouse(p.input.datasource)
                   /\ LET actors == Field(p.execution, "concurrency", Missing) IN
                      Given(actors) => AtLeast(actors, 1)
           checks == << <<ValidInference(p), "INVALID_PAYLOAD">>,
                        <<ValidInference(p) => more, "INVALID_PAYLOAD">> >>
<1>1. FirstFailure(checks) = "OK" /\ ReferenceCode(p.model) = "OK"
      /\ Usable(p.model.model_artifacts) # {}
      /\ (Explained(p) => Native(p).format = "xgboost")
  BY DEF InferenceCode, Native
<1> HIDE DEF more
<1>2. /\ DOMAIN checks = {1, 2}
      /\ checks[1][1] = ValidInference(p)
      /\ checks[2][1] = (ValidInference(p) => more)
      /\ checks[1][2] = "INVALID_PAYLOAD" /\ checks[2][2] = "INVALID_PAYLOAD"
  OBVIOUS
<1> HIDE DEF checks
<1>3. checks[1][1] /\ checks[2][1]
  BY <1>1, <1>2, NoFailure
<1>4. ValidInference(p) /\ more
  BY <1>2, <1>3
<1> QED
  BY <1>1, <1>4 DEF more

-----------------------------------------------------------------------------
(* The model and its files *)

\* Subsequence(...) is what its definition says: the elements at the positions,
\* one after the other.
LEMMA SubsequenceSteps ==
  ASSUME NEW seq, NEW positions, Len(seq) \in Nat
  PROVE  \E upTo :
           /\ upTo[0] = <<>>
           /\ \A n \in 1 .. Len(seq) :
                upTo[n] = IF n \in positions THEN Append(upTo[n - 1], seq[n]) ELSE upTo[n - 1]
           /\ Subsequence(seq, positions) = upTo[Len(seq)]
<1> DEFINE k == Len(seq)
           More(s, n) == IF n \in positions THEN Append(s, seq[n]) ELSE s
           Is(f, m) == f = [n \in 0 .. m |-> IF n = 0 THEN <<>> ELSE More(f[n - 1], n)]
           Without == {m \in 0 .. k : ~ \E f : Is(f, m)}
<1> DEFINE upTo == CHOOSE f : Is(f, k)
<1>0. Subsequence(seq, positions) = upTo[k]
  BY DEF Subsequence
<1>a. \A s, n : More(s, n) = IF n \in positions THEN Append(s, seq[n]) ELSE s
  OBVIOUS
<1> HIDE DEF More, upTo
<1>1. Without = {}
  <2> SUFFICES ASSUME Without # {} PROVE FALSE
    OBVIOUS
  <2>1. Without \in SUBSET Nat
    OBVIOUS
  <2>2. PICK m \in Without : \A n \in Without : m <= n
    <3> HIDE DEF Without
    <3> QED
      BY <2>1, LeastNumber
  <2>3. CASE m = 0
    <3> DEFINE f == [n \in 0 .. 0 |-> <<>>]
    <3>1. Is(f, 0)
      OBVIOUS
    <3> QED
      BY <2>3, <3>1
  <2>4. CASE m # 0
    <3>1. m - 1 \in 0 .. k /\ m \in 1 .. k /\ m - 1 \notin Without
      BY <2>2, <2>4
    <3>2. PICK f : Is(f, m - 1)
      BY <3>1
    <3> DEFINE g == [n \in 0 .. m |-> IF n = m THEN More(f[m - 1], m) ELSE f[n]]
    <3>3. \A n \in 0 .. m : g[n] = IF n = 0 THEN <<>> ELSE More(g[n - 1], n)
      <4> TAKE n \in 0 .. m
      <4>1. \A i \in 0 .. m - 1 : f[i] = IF i = 0 THEN <<>> ELSE More(f[i - 1], i)
        BY <3>2
      <4>2. CASE n = m
        BY <4>2, <3>1, <2>4
      <4>3. CASE n # m
        BY <4>3, <4>1, <3>1
      <4> QED
        BY <4>2, <4>3
    <3>4. Is(g, m)
      BY <3>3
    <3> QED
      BY <3>4
  <2> QED
    BY <2>3, <2>4
<1>2. PICK f : Is(f, k)
  BY <1>1
<1>3. Is(upTo, k)
  BY <1>2 DEF upTo
<1>4. upTo[0] = <<>> /\ \A n \in 1 .. k : upTo[n] = More(upTo[n - 1], n)
  BY <1>3
<1> QED
  BY <1>0, <1>a, <1>4

\* A subsequence is a sequence of the elements at the positions.
LEMMA SubsequenceType ==
  ASSUME NEW S, NEW seq, Len(seq) \in Nat, NEW positions,
         \A i \in (1 .. Len(seq)) \cap positions : seq[i] \in S
  PROVE  Subsequence(seq, positions) \in Seq(S)
<1>1. PICK upTo :
        /\ upTo[0] = <<>>
        /\ \A n \in 1 .. Len(seq) :
             upTo[n] = IF n \in positions THEN Append(upTo[n - 1], seq[n]) ELSE upTo[n - 1]
        /\ Subsequence(seq, positions) = upTo[Len(seq)]
  BY SubsequenceSteps
<1> DEFINE Wrong == {m \in 0 .. Len(seq) : upTo[m] \notin Seq(S)}
<1>a. upTo[0] \in Seq(S)
  BY <1>1
<1>b. ASSUME NEW m \in 1 .. Len(seq), upTo[m - 1] \in Seq(S)
      PROVE  upTo[m] \in Seq(S)
  <2>1. CASE m \in positions
    <3>1. seq[m] \in S /\ upTo[m] = Append(upTo[m - 1], seq[m])
      BY <1>1, <2>1
    <3> QED
      BY <3>1, <1>b
  <2>2. CASE m \notin positions
    BY <1>1, <1>b, <2>2
  <2> QED
    BY <2>1, <2>2
<1>2. Wrong = {}
  <2> SUFFICES ASSUME Wrong # {} PROVE FALSE
    OBVIOUS
  <2>1. Wrong \in SUBSET Nat
    OBVIOUS
  <2>2. PICK m \in Wrong : \A i \in Wrong : m <= i
    <3> HIDE DEF Wrong
    <3> QED
      BY <2>1, LeastNumber
  <2>3. m # 0
    BY <1>a, <2>2
  <2>4. m - 1 \in 0 .. Len(seq) /\ m \in 1 .. Len(seq) /\ m - 1 \notin Wrong
    BY <2>2, <2>3
  <2>5. upTo[m - 1] \in Seq(S)
    BY <2>4
  <2>6. upTo[m] \in Seq(S)
    BY <1>b, <2>4, <2>5
  <2> QED
    BY <2>2, <2>6
<1> QED
  BY <1>1, <1>2

\* The alternative an accepted request chooses is one of the declared ones and
\* has exactly one weight file.
LEMMA AlternativeIs ==
  ASSUME NEW model, NEW preferred, Obj(model), Obj(model.model_artifacts),
         ParsedModel(model),
         ReferenceCode(model) = "OK", Usable(model.model_artifacts) # {}
  PROVE  LET a == Alternative(model.model_artifacts, preferred)
         IN  /\ Obj(a.files) /\ IsList(a.files)
             /\ a.format \in DOMAIN WeightName
             /\ WeightFiles(a) # {}
             /\ \E i \in DOMAIN a.files : WeightFile(a) = a.files[i]
<1> DEFINE alternatives == model.model_artifacts["model_weights"].alternatives
           usable == Usable(model.model_artifacts)
           wanted == {i \in usable : alternatives[i].format = preferred}
           among  == IF wanted = {} THEN usable ELSE wanted
           a      == alternatives[Min(among)]
           checks == << <<StorageRootOK(model.storage), "INVALID_PAYLOAD">>,
                        <<ManifestOK(model.model_artifacts), "INVALID_PAYLOAD">>,
                        <<ManifestOK(model.model_artifacts) =>
                            PartsSupported(model.model_artifacts),
                          "MODEL_FORMAT_UNSUPPORTED">> >>
<1>1. ManifestOK(model.model_artifacts) /\ PartsSupported(model.model_artifacts)
  <2>1. FirstFailure(checks) = "OK"
    BY DEF ReferenceCode
  <2>2. /\ DOMAIN checks = {1, 2, 3}
        /\ checks[2][1] = ManifestOK(model.model_artifacts)
        /\ checks[3][1] = (ManifestOK(model.model_artifacts) =>
                             PartsSupported(model.model_artifacts))
        /\ checks[1][2] = "INVALID_PAYLOAD" /\ checks[2][2] = "INVALID_PAYLOAD"
        /\ checks[3][2] = "MODEL_FORMAT_UNSUPPORTED"
    OBVIOUS
  <2> HIDE DEF checks
  <2>3. checks[2][1] /\ checks[3][1]
    BY <2>1, <2>2, NoFailure
  <2> QED
    BY <2>2, <2>3
<1>2. "model_weights" \in DOMAIN model.model_artifacts
  BY <1>1 DEF PartsSupported
<1>3. PartOK(model.model_artifacts["model_weights"])
  BY <1>1, <1>2 DEF ManifestOK
<1>4. /\ IsList(alternatives)
      /\ \A i \in DOMAIN alternatives : Obj(alternatives[i].files) /\ IsList(alternatives[i].files)
  BY <1>2, <1>3 DEF PartOK, ParsedModel, ParsedArtifacts, Listed
<1>5. DOMAIN alternatives \subseteq Nat
  BY <1>4 DEF IsList
<1>6. usable \subseteq DOMAIN alternatives
  BY DEF Usable
<1>7. Min(among) \in usable
  <2>1. among \in SUBSET Nat /\ among # {} /\ among \subseteq usable
    BY <1>5, <1>6
  <2> HIDE DEF among
  <2> QED
    BY <2>1, LeastNumber
<1>8. Alternative(model.model_artifacts, preferred) = a
  BY DEF Alternative
<1>9. /\ Obj(a.files) /\ IsList(a.files)
      /\ a.format \in DOMAIN WeightName
      /\ Cardinality(WeightFiles(a)) = 1
  BY <1>4, <1>6, <1>7 DEF Usable
<1> HIDE DEF a
<1>10. WeightFiles(a) # {}
  BY <1>9, FS_EmptySet
<1>11. \E i \in DOMAIN a.files : WeightFile(a) = a.files[i]
  <2>1. (CHOOSE i \in WeightFiles(a) : TRUE) \in WeightFiles(a)
    BY <1>10
  <2>2. WeightFiles(a) \subseteq DOMAIN a.files
    BY DEF WeightFiles
  <2> QED
    BY <2>1, <2>2 DEF WeightFile
<1> QED
  BY <1>8, <1>9, <1>10, <1>11

\* Every file of an alternative that is verified has the bytes declared of it.
LEMMA FilesAreDeclared ==
  ASSUME NEW stored, NEW root, NEW files, Obj(files), IsList(files),
         FilesCode(stored, root, files) = "OK", NEW i \in DOMAIN files
  PROVE  Read(stored, At(root, files[i].path)) = files[i].hash
<1> DEFINE Checks(j) == FileChecks(stored, root, files, j)
           codes == [j \in DOMAIN files |-> FirstFailure(Checks(j))]
           bad   == {j \in DOMAIN codes : codes[j] # "OK"}
<1>1. bad = {}
  <2> SUFFICES ASSUME bad # {} PROVE FALSE
    OBVIOUS
  <2>1. FilesCode(stored, root, files) = codes[Min(bad)]
    BY DEF FilesCode
  <2>2. bad \in SUBSET Nat
    BY DEF IsList
  <2>3. Min(bad) \in bad
    <3> HIDE DEF bad
    <3> QED
      BY <2>2, LeastNumber
  <2> QED
    BY <2>1, <2>3
<1>2. FirstFailure(Checks(i)) = "OK"
  BY <1>1
<1> DEFINE content == Read(stored, At(root, files[i].path))
           same    == content = files[i].hash /\ Contents[content].size = files[i].size
<1>3. /\ DOMAIN Checks(i) = {1, 2, 3, 4}
      /\ Checks(i)[3][1] = same
      /\ Checks(i)[1][2] # "OK" /\ Checks(i)[2][2] # "OK"
      /\ Checks(i)[3][2] # "OK" /\ Checks(i)[4][2] # "OK"
  BY DEF FileChecks
<1> HIDE DEF Checks, same
<1>4. Checks(i)[3][1]
  BY <1>2, <1>3, NoFailure
<1> QED
  BY <1>3, <1>4 DEF same

-----------------------------------------------------------------------------
(* Reads *)

Kinds == {"filter", "limit", "select", "rename"}

IsSteps(steps) ==
  Len(steps) \in Nat /\ \A i \in 1 .. Len(steps) : steps[i].kind \in Kinds

\* A set of rows as a read may leave it: rows of the table, each once.
RowsOf(answer, from) ==
  /\ IsFiniteSet(answer)
  /\ \A r \in answer : r = [id |-> r.id, cells |-> r.cells] /\ \E t \in from : t.id = r.id
  /\ \A r, s \in answer : r.id = s.id => r = s

\* After(...) is what its definition says: a step is applied to every set of
\* rows the steps before it may have left.
LEMMA AfterSteps ==
  ASSUME NEW from, NEW columns, NEW steps, Len(steps) \in Nat
  PROVE  LET after == After(from, columns, steps)
         IN  /\ after[0] = {Scan(from, columns)}
             /\ \A n \in 1 .. Len(steps) :
                  after[n] = UNION {Transform(read, steps[n]) : read \in after[n - 1]}
<1> DEFINE k == Len(steps)
           first == {Scan(from, columns)}
           Applied(answers, n) == UNION {Transform(read, steps[n]) : read \in answers}
           Is(f, m) == f = [n \in 0 .. m |-> IF n = 0 THEN first ELSE Applied(f[n - 1], n)]
           Without == {m \in 0 .. k : ~ \E f : Is(f, m)}
           after == CHOOSE f : Is(f, k)
<1>0. After(from, columns, steps) = after
  BY DEF After
<1>a. \A answers, n :
        Applied(answers, n) = UNION {Transform(read, steps[n]) : read \in answers}
  OBVIOUS
<1>b. first = {Scan(from, columns)}
  OBVIOUS
<1> HIDE DEF Applied, first, after
<1>1. Without = {}
  <2> SUFFICES ASSUME Without # {} PROVE FALSE
    OBVIOUS
  <2>1. Without \in SUBSET Nat
    OBVIOUS
  <2>2. PICK m \in Without : \A n \in Without : m <= n
    <3> HIDE DEF Without
    <3> QED
      BY <2>1, LeastNumber
  <2>3. CASE m = 0
    <3> DEFINE f == [n \in 0 .. 0 |-> first]
    <3>1. Is(f, 0)
      OBVIOUS
    <3> QED
      BY <2>3, <3>1
  <2>4. CASE m # 0
    <3>1. m - 1 \in 0 .. k /\ m \in 1 .. k /\ m - 1 \notin Without
      BY <2>2, <2>4
    <3>2. PICK f : Is(f, m - 1)
      BY <3>1
    <3> DEFINE g == [n \in 0 .. m |-> IF n = m THEN Applied(f[m - 1], m) ELSE f[n]]
    <3>3. \A n \in 0 .. m : g[n] = IF n = 0 THEN first ELSE Applied(g[n - 1], n)
      <4> TAKE n \in 0 .. m
      <4>1. \A i \in 0 .. m - 1 : f[i] = IF i = 0 THEN first ELSE Applied(f[i - 1], i)
        BY <3>2
      <4>2. CASE n = m
        BY <4>2, <3>1, <2>4
      <4>3. CASE n # m
        BY <4>3, <4>1, <3>1
      <4> QED
        BY <4>2, <4>3
    <3>4. Is(g, m)
      BY <3>3
    <3> QED
      BY <3>4
  <2> QED
    BY <2>3, <2>4
<1>2. PICK f : Is(f, k)
  BY <1>1
<1>3. Is(after, k)
  BY <1>2 DEF after
<1>4. after[0] = first /\ \A n \in 1 .. k : after[n] = Applied(after[n - 1], n)
  BY <1>3
<1> QED
  BY <1>0, <1>a, <1>b, <1>4

\* Another function of the rows that keeps their identities leaves rows of the
\* table, each once.
LEMMA CellsOnly ==
  ASSUME NEW from, NEW read, RowsOf(read, from), NEW f,
         \A r \in read : f[r] = [id |-> r.id, cells |-> f[r].cells]
  PROVE  /\ RowsOf({f[r] : r \in read}, from)
         /\ Cardinality({f[r] : r \in read}) = Cardinality(read)
<1> DEFINE made == {f[r] : r \in read}
           g == [r \in read |-> f[r]]
<1>0. \A r \in read : f[r].id = r.id
  <2> TAKE r \in read
  <2>1. PICK cells : f[r] = [id |-> r.id, cells |-> cells]
    OBVIOUS
  <2> QED
    BY <2>1
<1>1. \A r, s \in read : f[r].id = f[s].id => r = s
  BY <1>0 DEF RowsOf
<1>2. g \in Bijection(read, made)
  BY <1>1 DEF Bijection, Injection, Surjection, IsInjective
<1>3. ExistsBijection(read, made)
  BY <1>2 DEF ExistsBijection
<1>4. IsFiniteSet(made) /\ Cardinality(made) = Cardinality(read)
  <2>1. IsFiniteSet(read)
    BY DEF RowsOf
  <2> HIDE DEF made
  <2> QED
    BY <1>3, <2>1, FS_Bijection, Zenon
<1>5. \A r \in made : r = [id |-> r.id, cells |-> r.cells] /\ \E t \in from : t.id = r.id
  <2> TAKE r \in made
  <2>1. PICK s \in read : r = f[s]
    OBVIOUS
  <2>2. PICK cells : r = [id |-> s.id, cells |-> cells]
    BY <2>1
  <2>3. PICK t \in from : t.id = s.id
    BY DEF RowsOf
  <2> QED
    BY <2>2, <2>3
<1>6. \A r, s \in made : r.id = s.id => r = s
  BY <1>1
<1> QED
  BY <1>4, <1>5, <1>6 DEF RowsOf

\* A scan has the rows of the table, with some of their cells.
LEMMA ScanRows ==
  ASSUME NEW t \in DOMAIN Tables, NEW columns
  PROVE  /\ RowsOf(Scan(Tables[t], columns), Tables[t])
         /\ Cardinality(Scan(Tables[t], columns)) = Cardinality(Tables[t])
         /\ Scan(Tables[t], columns)
              = {[id |-> r.id, cells |-> Restrict(r.cells, columns)] : r \in Tables[t]}
<1> DEFINE f == [r \in Tables[t] |-> [id |-> r.id, cells |-> Restrict(r.cells, columns)]]
           All == {[id |-> r.id, cells |-> Restrict(r.cells, columns)] : r \in Tables[t]}
<1>1. RowsOf(Tables[t], Tables[t])
  BY TableAssumption DEF RowsOf
<1>2. \A r \in Tables[t] : [r EXCEPT !.cells = Restrict(r.cells, columns)]
                             = [id |-> r.id, cells |-> Restrict(r.cells, columns)]
  <2> TAKE r \in Tables[t]
  <2>1. r = [id |-> r.id, cells |-> r.cells]
    BY TableAssumption
  <2> QED
    BY <2>1
<1>3. Scan(Tables[t], columns) = All
  BY <1>2 DEF Scan
<1>4. {f[r] : r \in Tables[t]} = All
  OBVIOUS
<1>5. \A r \in Tables[t] : f[r] = [id |-> r.id, cells |-> f[r].cells]
  OBVIOUS
<1> HIDE DEF f
<1>6. /\ RowsOf({f[r] : r \in Tables[t]}, Tables[t])
      /\ Cardinality({f[r] : r \in Tables[t]}) = Cardinality(Tables[t])
  BY <1>1, <1>5, CellsOnly
<1> QED
  BY <1>3, <1>4, <1>6

\* Some of the rows are rows of the table.
LEMMA FewerRows ==
  ASSUME NEW from, NEW read, RowsOf(read, from), NEW fewer \in SUBSET read
  PROVE  RowsOf(fewer, from)
BY FS_Subset DEF RowsOf

\* A step leaves rows of the table, each once.
LEMMA TransformRows ==
  ASSUME NEW from, NEW read, RowsOf(read, from), NEW step, step.kind \in Kinds,
         NEW left \in Transform(read, step)
  PROVE  RowsOf(left, from)
<1>1. CASE step.kind = "filter"
  BY <1>1, FewerRows DEF Transform
<1>2. CASE step.kind = "limit"
  <2>1. left \in Picks(read, step.count)
    BY <1>2 DEF Transform
  <2>2. left \in SUBSET read
    BY <2>1 DEF Picks, kSubset
  <2> QED
    BY <2>2, FewerRows
<1>3. CASE step.kind = "select"
  <2> DEFINE f == [r \in read |-> [r EXCEPT !.cells = Restrict(r.cells, step.columns)]]
  <2>1. left = {[r EXCEPT !.cells = Restrict(r.cells, step.columns)] : r \in read}
    BY <1>3 DEF Transform
  <2>2. left = {f[r] : r \in read}
    BY <2>1
  <2>3. \A r \in read : f[r] = [id |-> r.id, cells |-> f[r].cells]
    BY DEF RowsOf
  <2> HIDE DEF f
  <2> QED
    BY <2>2, <2>3, CellsOnly
<1>4. CASE step.kind = "rename"
  <2> DEFINE f == [r \in read |-> [r EXCEPT !.cells = Renamed(r.cells, step.pairs)]]
  <2>1. left = {[r EXCEPT !.cells = Renamed(r.cells, step.pairs)] : r \in read}
    BY <1>4 DEF Transform
  <2>2. left = {f[r] : r \in read}
    BY <2>1
  <2>3. \A r \in read : f[r] = [id |-> r.id, cells |-> f[r].cells]
    BY DEF RowsOf
  <2> HIDE DEF f
  <2> QED
    BY <2>2, <2>3, CellsOnly
<1> QED
  BY <1>1, <1>2, <1>3, <1>4 DEF Kinds

\* Whatever may be read of a table are rows of it, each once.
LEMMA ReadRows ==
  ASSUME NEW t \in DOMAIN Tables, NEW columns, NEW steps, IsSteps(steps),
         NEW read \in Reads(Tables[t], columns, steps)
  PROVE  RowsOf(read, Tables[t])
<1> DEFINE after == After(Tables[t], columns, steps)
           Good(m) == \A answer \in after[m] : RowsOf(answer, Tables[t])
           Wrong == {m \in 0 .. Len(steps) : ~Good(m)}
<1>1. /\ Len(steps) \in Nat
      /\ after[0] = {Scan(Tables[t], columns)}
      /\ \A n \in 1 .. Len(steps) :
           after[n] = UNION {Transform(r, steps[n]) : r \in after[n - 1]}
  BY AfterSteps DEF IsSteps
<1> HIDE DEF after
<1>2. Good(0)
  BY <1>1, ScanRows
<1>3. ASSUME NEW n \in 1 .. Len(steps), Good(n - 1) PROVE Good(n)
  <2> TAKE answer \in after[n]
  <2>1. PICK r \in after[n - 1] : answer \in Transform(r, steps[n])
    BY <1>1
  <2>2. RowsOf(r, Tables[t]) /\ steps[n].kind \in Kinds
    BY <1>3 DEF IsSteps
  <2> QED
    BY <2>1, <2>2, TransformRows
<1> HIDE DEF Good
<1>4. Wrong = {}
  <2> SUFFICES ASSUME Wrong # {} PROVE FALSE
    OBVIOUS
  <2>1. Wrong \in SUBSET Nat
    BY <1>1
  <2>2. PICK m \in Wrong : \A i \in Wrong : m <= i
    <3> HIDE DEF Wrong
    <3> QED
      BY <2>1, LeastNumber
  <2>3. m # 0
    BY <1>2, <2>2
  <2>4. m - 1 \in 0 .. Len(steps) /\ m \in 1 .. Len(steps) /\ m - 1 \notin Wrong
    BY <1>1, <2>2, <2>3
  <2> QED
    BY <1>3, <2>2, <2>4
<1>5. Good(Len(steps))
  BY <1>1, <1>4
<1> QED
  BY <1>5 DEF Good, Reads, after

-----------------------------------------------------------------------------
(* The steps of a planned read *)

\* A function of the first numbers is a sequence.
LEMMA FunctionIsSeq ==
  ASSUME NEW n \in Nat, NEW S, NEW f \in [1 .. n -> S]
  PROVE  f \in Seq(S) /\ Len(f) = n /\ DOMAIN f = 1 .. n
OBVIOUS

\* The steps of an inference: its filters, and its limit if it has one.
LEMMA InputStepsAre ==
  ASSUME NEW input, ParsedSelect(input.query.sql)
  PROVE  LET q      == input.query.sql
             params == Params(input.query)
             steps  == InputSteps(input)
         IN  /\ Len(q.where) \in Nat /\ DOMAIN q.where = 1 .. Len(q.where)
             /\ Len(steps) = Len(q.where) + IF q.limit = Missing THEN 0 ELSE 1
             /\ DOMAIN steps = 1 .. Len(steps)
             /\ \A i \in 1 .. Len(q.where) :
                  steps[i] = Filter(q.where[i].column, q.where[i].op,
                                    TypedParameter(params[q.where[i].param], q.where[i].type))
             /\ q.limit # Missing => steps[Len(q.where) + 1] = LimitTo(q.limit)
<1> DEFINE q       == input.query.sql
           params  == Params(input.query)
           n       == Len(q.where)
           Of(i)   == Filter(q.where[i].column, q.where[i].op,
                             TypedParameter(params[q.where[i].param], q.where[i].type))
           filters == [i \in DOMAIN q.where |-> Of(i)]
           limits  == IF q.limit = Missing THEN <<>> ELSE <<LimitTo(q.limit)>>
           S       == {Of(i) : i \in 1 .. n} \cup {LimitTo(q.limit)}
<1>1. n \in Nat /\ DOMAIN q.where = 1 .. n
  BY DEF ParsedSelect, IsList
<1>2. InputSteps(input) = filters \o limits
  BY DEF InputSteps
<1> HIDE DEF Of
<1>3. filters \in Seq(S) /\ Len(filters) = n /\ \A i \in 1 .. n : filters[i] = Of(i)
  <2>1. filters = [i \in 1 .. n |-> Of(i)]
    BY <1>1
  <2>2. filters \in [1 .. n -> S]
    BY <2>1
  <2>3. \A i \in 1 .. n : filters[i] = Of(i)
    BY <2>1
  <2> HIDE DEF S, filters
  <2>4. filters \in Seq(S) /\ Len(filters) = n
    BY <1>1, <2>2, FunctionIsSeq
  <2> QED
    BY <2>3, <2>4
<1>4. limits \in Seq(S)
  <2>1. LimitTo(q.limit) \in S
    OBVIOUS
  <2> HIDE DEF S
  <2> QED
    BY <2>1
<1>5. Len(limits) = IF q.limit = Missing THEN 0 ELSE 1
  OBVIOUS
<1>6. q.limit # Missing => limits[1] = LimitTo(q.limit)
  OBVIOUS
<1> HIDE DEF filters, limits, S
<1>7. /\ filters \o limits \in Seq(S)
      /\ Len(filters \o limits) = Len(filters) + Len(limits)
      /\ \A i \in 1 .. Len(filters) + Len(limits) :
           (filters \o limits)[i] = IF i <= Len(filters) THEN filters[i]
                                    ELSE limits[i - Len(filters)]
  BY <1>3, <1>4, ConcatProperties
<1>8. \A i \in 1 .. n : (filters \o limits)[i] = Of(i)
  BY <1>1, <1>3, <1>5, <1>7
<1>9. q.limit # Missing => (filters \o limits)[n + 1] = LimitTo(q.limit)
  BY <1>1, <1>3, <1>5, <1>6, <1>7
<1>10. DOMAIN (filters \o limits) = 1 .. Len(filters \o limits)
  BY <1>7
<1> QED
  BY <1>1, <1>2, <1>3, <1>5, <1>7, <1>8, <1>9, <1>10 DEF Of

\* The steps of an inference are filters and limits of a number of rows.
LEMMA InputStepsType ==
  ASSUME NEW input, ParsedSelect(input.query.sql)
  PROVE  LET steps == InputSteps(input)
         IN  /\ IsSteps(steps) /\ DOMAIN steps = 1 .. Len(steps)
             /\ \A i \in DOMAIN steps : steps[i].kind = "limit" => steps[i].count \in Nat
<1> DEFINE q == input.query.sql  steps == InputSteps(input)  n == Len(q.where)
           params == Params(input.query)
           Of(i)   == Filter(q.where[i].column, q.where[i].op,
                             TypedParameter(params[q.where[i].param], q.where[i].type))
<1>1. /\ n \in Nat
      /\ Len(steps) = n + (IF q.limit = Missing THEN 0 ELSE 1)
      /\ DOMAIN steps = 1 .. Len(steps)
      /\ \A i \in 1 .. n : steps[i] = Of(i)
      /\ q.limit # Missing => steps[n + 1] = LimitTo(q.limit)
  BY InputStepsAre
<1>2. \A i : Of(i).kind = "filter"
  BY DEF Filter
<1>3. LimitTo(q.limit).kind = "limit" /\ LimitTo(q.limit).count = q.limit
  BY DEF LimitTo
<1>4. q.limit \in Nat \cup {Missing}
  BY DEF ParsedSelect
<1> HIDE DEF steps, Of, n
<1>5. \A i \in 1 .. Len(steps) :
        steps[i].kind \in {"filter", "limit"}
        /\ (steps[i].kind = "limit" => steps[i].count \in Nat)
  <2> TAKE i \in 1 .. Len(steps)
  <2>1. CASE i \in 1 .. n
    BY <2>1, <1>1, <1>2
  <2>2. CASE i \notin 1 .. n
    <3>1. q.limit # Missing /\ i = n + 1
      BY <1>1, <2>2
    <3> QED
      BY <3>1, <1>1, <1>3, <1>4
  <2> QED
    BY <2>1, <2>2
<1> QED
  BY <1>1, <1>5 DEF steps, IsSteps, Kinds

\* The steps of a training that selects: its filters, its limit if it has one,
\* the columns of the model if anything else was read, and their names.
LEMMA TrainingStepsAre ==
  ASSUME NEW p, ~Balanced(p), ParsedSelect(p.data_query.query.sql)
  PROVE  LET q      == p.data_query.query.sql
             params == Params(p.data_query.query)
             steps  == TrainingSteps(p)
             n      == Len(q.where)
             m      == n + IF q.limit = Missing THEN 0 ELSE 1
         IN  /\ n \in Nat /\ DOMAIN q.where = 1 .. n
             /\ Len(steps) = IF m = 0 THEN 1 ELSE m + 2
             /\ DOMAIN steps = 1 .. Len(steps)
             /\ \A i \in 1 .. n :
                  steps[i] = Filter(q.where[i].column, q.where[i].op,
                                    QueryScalar(params[q.where[i].param], q.where[i].type))
             /\ q.limit # Missing => steps[n + 1] = LimitTo(q.limit)
             /\ m # 0 => steps[m + 1] = SelectOnly(Sources(ColumnMapping(p)))
             /\ steps[Len(steps)] = RenameTo(ColumnMapping(p))
<1> DEFINE q       == p.data_query.query.sql
           params  == Params(p.data_query.query)
           n       == Len(q.where)
           m       == n + IF q.limit = Missing THEN 0 ELSE 1
           Of(i)   == Filter(q.where[i].column, q.where[i].op,
                             QueryScalar(params[q.where[i].param], q.where[i].type))
           filters == [i \in DOMAIN q.where |-> Of(i)]
           limits  == IF q.limit = Missing THEN <<>> ELSE <<LimitTo(q.limit)>>
           first   == filters \o limits
           select  == SelectOnly(Sources(ColumnMapping(p)))
           rename  == RenameTo(ColumnMapping(p))
           then    == IF first = <<>> THEN <<>> ELSE Append(first, select)
           steps   == then \o <<rename>>
           S       == {Of(i) : i \in 1 .. n} \cup {LimitTo(q.limit), select, rename}
<1>1. n \in Nat /\ DOMAIN q.where = 1 .. n
  BY DEF ParsedSelect, IsList
<1>2. TrainingSteps(p) = steps
  BY DEF TrainingSteps, SelectSteps
<1> HIDE DEF Of, select, rename
<1>3. filters \in Seq(S) /\ Len(filters) = n /\ \A i \in 1 .. n : filters[i] = Of(i)
  <2>1. filters = [i \in 1 .. n |-> Of(i)]
    BY <1>1
  <2>2. filters \in [1 .. n -> S]
    BY <2>1
  <2>3. \A i \in 1 .. n : filters[i] = Of(i)
    BY <2>1
  <2> HIDE DEF S, filters
  <2>4. filters \in Seq(S) /\ Len(filters) = n
    BY <1>1, <2>2, FunctionIsSeq
  <2> QED
    BY <2>3, <2>4
<1>4. limits \in Seq(S)
  <2>1. LimitTo(q.limit) \in S
    OBVIOUS
  <2> HIDE DEF S
  <2> QED
    BY <2>1
<1>5. Len(limits) = IF q.limit = Missing THEN 0 ELSE 1
  OBVIOUS
<1>6. q.limit # Missing => limits[1] = LimitTo(q.limit)
  OBVIOUS
<1>7. select \in S /\ rename \in S
  OBVIOUS
<1> HIDE DEF filters, limits, S, n
<1>9. m \in Nat /\ m = n + Len(limits)
  BY <1>1, <1>5
<1> HIDE DEF m
<1>8. /\ first \in Seq(S) /\ Len(first) = m
      /\ \A i \in 1 .. m : first[i] = IF i <= n THEN filters[i] ELSE limits[i - n]
  BY <1>1, <1>3, <1>4, <1>9, ConcatProperties
<1>10. (\A i \in 1 .. n : first[i] = Of(i)) /\ (q.limit # Missing => first[n + 1] = LimitTo(q.limit))
  BY <1>1, <1>3, <1>5, <1>6, <1>8, <1>9
<1> HIDE DEF first
<1>11. /\ then \in Seq(S) /\ Len(then) = IF m = 0 THEN 0 ELSE m + 1
       /\ \A i \in 1 .. m : then[i] = first[i]
       /\ m # 0 => then[m + 1] = select
  <2>1. CASE first = <<>>
    <3>1. m = 0 /\ then = <<>>
      BY <2>1, <1>8
    <3>2. then \in Seq(S) /\ Len(then) = 0
      BY <3>1, EmptySeq
    <3> QED
      BY <3>1, <3>2
  <2>2. CASE first # <<>>
    <3>1. m # 0
      BY <2>2, <1>8
    <3>2. then = Append(first, select)
      BY <2>2
    <3> HIDE DEF then
    <3> QED
      BY <3>2, <3>1, <1>7, <1>8, <1>9, AppendProperties
  <2> QED
    BY <2>1, <2>2
<1> HIDE DEF then
<1>12. <<rename>> \in Seq(S) /\ Len(<<rename>>) = 1 /\ <<rename>>[1] = rename
  BY <1>7
<1>13. /\ steps \in Seq(S) /\ Len(steps) = Len(then) + 1
       /\ \A i \in 1 .. Len(then) + 1 :
            steps[i] = IF i <= Len(then) THEN then[i] ELSE <<rename>>[i - Len(then)]
  BY <1>11, <1>12, ConcatProperties
<1>14. /\ Len(steps) = IF m = 0 THEN 1 ELSE m + 2
       /\ \A i \in 1 .. m : steps[i] = first[i]
       /\ m # 0 => steps[m + 1] = select
       /\ steps[Len(steps)] = rename
  BY <1>9, <1>11, <1>12, <1>13
<1>15. DOMAIN steps = 1 .. Len(steps)
  BY <1>13
<1> HIDE DEF steps
<1>16. (\A i \in 1 .. n : steps[i] = Of(i)) /\ (q.limit # Missing => steps[n + 1] = LimitTo(q.limit))
  <2>1. \A i \in 1 .. n : i \in 1 .. m
    BY <1>1, <1>5, <1>9
  <2>2. q.limit # Missing => n + 1 \in 1 .. m
    BY <1>1, <1>5, <1>9
  <2> QED
    BY <2>1, <2>2, <1>10, <1>14
<1> QED
  BY <1>1, <1>2, <1>14, <1>15, <1>16 DEF Of, m, n, select, rename

\* The steps of a training are among the kinds of steps.
LEMMA TrainingStepsType ==
  ASSUME NEW p, Balanced(p) \/ ParsedSelect(p.data_query.query.sql)
  PROVE  IsSteps(TrainingSteps(p))
<1> DEFINE q == p.data_query.query.sql  n == Len(q.where)  steps == TrainingSteps(p)
<1>1. CASE Balanced(p)
  <2>1. steps = <<RenameTo(ColumnMapping(p))>>
    BY <1>1 DEF TrainingSteps
  <2>2. Len(steps) = 1 /\ steps[1].kind = "rename"
    BY <2>1 DEF RenameTo
  <2> QED
    BY <2>2 DEF IsSteps, Kinds
<1>2. CASE ~Balanced(p)
  <2> DEFINE m == n + IF q.limit = Missing THEN 0 ELSE 1
             params == Params(p.data_query.query)
             Of(i) == Filter(q.where[i].column, q.where[i].op,
                             QueryScalar(params[q.where[i].param], q.where[i].type))
  <2>1. /\ n \in Nat
        /\ Len(steps) = IF m = 0 THEN 1 ELSE m + 2
        /\ \A i \in 1 .. n : steps[i] = Of(i)
        /\ q.limit # Missing => steps[n + 1] = LimitTo(q.limit)
        /\ m # 0 => steps[m + 1] = SelectOnly(Sources(ColumnMapping(p)))
        /\ steps[Len(steps)] = RenameTo(ColumnMapping(p))
    BY <1>2, TrainingStepsAre
  <2>2. \A i : Of(i).kind = "filter"
    BY DEF Filter
  <2>3. /\ \A x : LimitTo(x).kind = "limit" /\ SelectOnly(x).kind = "select"
                  /\ RenameTo(x).kind = "rename"
    BY DEF LimitTo, SelectOnly, RenameTo
  <2> HIDE DEF steps, Of, n
  <2>4. \A i \in 1 .. Len(steps) : steps[i].kind \in Kinds
    <3> TAKE i \in 1 .. Len(steps)
    <3>1. CASE i \in 1 .. n
      BY <3>1, <2>1, <2>2 DEF Kinds
    <3>2. CASE i = Len(steps)
      BY <3>2, <2>1, <2>3 DEF Kinds
    <3>3. CASE i \notin 1 .. n /\ i # Len(steps) /\ i = m + 1
      <4>1. m # 0
        BY <3>3, <2>1
      <4> QED
        BY <4>1, <3>3, <2>1, <2>3 DEF Kinds
    <3>4. CASE i \notin 1 .. n /\ i # Len(steps) /\ i # m + 1
      <4>1. q.limit # Missing /\ i = n + 1
        BY <3>4, <2>1
      <4> QED
        BY <4>1, <2>1, <2>3 DEF Kinds
    <3> QED
      BY <3>1, <3>2, <3>3, <3>4
  <2>5. Len(steps) \in Nat
    BY <2>1
  <2> QED
    BY <2>4, <2>5 DEF IsSteps, steps
<1> QED
  BY <1>1, <1>2

\* What an inference counts is a number.
LEMMA MeasuredType ==
  ASSUME NEW t \in DOMAIN Tables, NEW planned, IsSteps(planned.steps),
         DOMAIN planned.steps = 1 .. Len(planned.steps),
         \A i \in DOMAIN planned.steps :
           planned.steps[i].kind = "limit" => planned.steps[i].count \in Nat
  PROVE  Measured(Tables[t], planned) \in Nat
<1> DEFINE kept == {r \in Tables[t] : \A i \in DOMAIN planned.steps :
                      planned.steps[i].kind = "filter" =>
                        Compare(planned.steps[i].op, r.cells[planned.steps[i].column],
                                planned.steps[i].value)}
           limits == {planned.steps[i].count :
                        i \in {j \in DOMAIN planned.steps : planned.steps[j].kind = "limit"}}
           all == limits \cup {Cardinality(kept)}
<1>1. Measured(Tables[t], planned) = Min(all)
  BY DEF Measured
<1>2. Cardinality(kept) \in Nat
  <2>1. IsFiniteSet(Tables[t])
    BY TableAssumption
  <2>2. kept \in SUBSET Tables[t]
    OBVIOUS
  <2> HIDE DEF kept
  <2> QED
    BY <2>1, <2>2, FS_Subset, FS_CardinalityType
<1> HIDE DEF kept
<1>3. all \in SUBSET Nat /\ all # {}
  BY <1>2
<1> HIDE DEF all
<1> QED
  BY <1>1, <1>3, LeastNumber

-----------------------------------------------------------------------------
(* What verifying a model answers *)

\* The first failure of a sequence of checks is "OK" or the code of one.
LEMMA FailureCode ==
  ASSUME NEW checks, DOMAIN checks \subseteq Nat, NEW C,
         \A i \in DOMAIN checks : checks[i][2] \in C
  PROVE  FirstFailure(checks) \in C \cup {"OK"}
<1> DEFINE failing == {i \in DOMAIN checks : ~checks[i][1]}
<1>1. failing \in SUBSET Nat
  OBVIOUS
<1>2. CASE failing # {}
  <2>1. FirstFailure(checks) = checks[Min(failing)][2]
    BY <1>2 DEF FirstFailure
  <2>2. Min(failing) \in failing
    <3> HIDE DEF failing
    <3> QED
      BY <1>1, <1>2, LeastNumber
  <2> QED
    BY <2>1, <2>2
<1>3. CASE failing = {}
  BY <1>3 DEF FirstFailure
<1> QED
  BY <1>2, <1>3

\* The codes of a request that _build_request refuses.
LEMMA InferenceCodes ==
  ASSUME NEW p
  PROVE  InferenceCode(p) \in Codes
<1> DEFINE more == /\ IsBinary(p.model) => PositiveIndex(p.model) # Bad
                   /\ ~Given(p.input.timeseries_pivot)
                   /\ FilterOK(p.model, p.output.result_filter)
                   /\ LayoutOK(p.input)
                   /\ QueryOK(p.input)
                   /\ ClickHouse(p.input.datasource)
                   /\ LET actors == Field(p.execution, "concurrency", Missing) IN
                      Given(actors) => AtLeast(actors, 1)
           checks == << <<ValidInference(p), "INVALID_PAYLOAD">>,
                        <<ValidInference(p) => more, "INVALID_PAYLOAD">> >>
           a == StorageRootOK(p.model.storage)
           b == ManifestOK(p.model.model_artifacts)
           c == PartsSupported(p.model.model_artifacts)
           references == << <<a, "INVALID_PAYLOAD">>, <<b, "INVALID_PAYLOAD">>,
                            <<b => c, "MODEL_FORMAT_UNSUPPORTED">> >>
<1>1. FirstFailure(checks) \in Codes
  <2> HIDE DEF more
  <2>1. /\ DOMAIN checks \subseteq Nat
        /\ \A i \in DOMAIN checks : checks[i][2] \in {"INVALID_PAYLOAD"}
    OBVIOUS
  <2> HIDE DEF checks
  <2>2. FirstFailure(checks) \in {"INVALID_PAYLOAD"} \cup {"OK"}
    BY <2>1, FailureCode
  <2> QED
    BY <2>2 DEF Codes
<1>2. ReferenceCode(p.model) \in Codes
  <2>1. ReferenceCode(p.model) = FirstFailure(references)
    BY DEF ReferenceCode
  <2> HIDE DEF a, b, c
  <2>2. /\ DOMAIN references \subseteq Nat
        /\ \A i \in DOMAIN references :
             references[i][2] \in {"INVALID_PAYLOAD", "MODEL_FORMAT_UNSUPPORTED"}
    OBVIOUS
  <2> HIDE DEF references
  <2>3. FirstFailure(references)
          \in {"INVALID_PAYLOAD", "MODEL_FORMAT_UNSUPPORTED"} \cup {"OK"}
    BY <2>2, FailureCode
  <2> QED
    BY <2>1, <2>3 DEF Codes
<1>3. InferenceCode(p) \in {FirstFailure(checks), ReferenceCode(p.model), "OK",
                            "MODEL_FORMAT_UNSUPPORTED", "INVALID_PAYLOAD"}
  <2> DEFINE last == /\ p.model.task_type \in DOMAIN ObjectiveOf
                     /\ Explained(p) =>
                          Alternative(p.model.model_artifacts, "xgboost").format = "xgboost"
                     /\ ClickHouse(p.output.datasource)
  <2>1. InferenceCode(p) =
          IF FirstFailure(checks) # "OK" THEN FirstFailure(checks)
          ELSE IF ReferenceCode(p.model) # "OK" THEN ReferenceCode(p.model)
          ELSE IF Usable(p.model.model_artifacts) = {} THEN "MODEL_FORMAT_UNSUPPORTED"
          ELSE IF last THEN "OK" ELSE "INVALID_PAYLOAD"
    BY DEF InferenceCode
  <2> HIDE DEF last, checks
  <2> QED
    BY <2>1
<1> QED
  BY <1>1, <1>2, <1>3 DEF Codes

\* The codes of stored files that are refused.
LEMMA VerifiedCodes ==
  ASSUME NEW stored, NEW model, NEW preferred,
         LET a == Alternative(model.model_artifacts, preferred)
         IN  Obj(a.files) /\ IsList(a.files)
  PROVE  VerifiedCode(stored, model, preferred) \in Codes
<1> DEFINE a     == Alternative(model.model_artifacts, preferred)
           root  == StorageRoot(model.storage)
           Checks(i) == FileChecks(stored, root, a.files, i)
           codes == [i \in DOMAIN a.files |-> FirstFailure(Checks(i))]
           bad   == {i \in DOMAIN codes : codes[i] # "OK"}
<1>1. FilesCode(stored, root, a.files) \in Codes
  <2>1. ASSUME NEW i \in DOMAIN a.files PROVE codes[i] \in Codes
    <3> DEFINE content == Read(stored, At(root, a.files[i].path))
               w == content # Missing
               x == content # Bad
               y == content = a.files[i].hash /\ Contents[content].size = a.files[i].size
               z == IsSidecar(a.files[i]) => \A j \in 1 .. i - 1 : ~IsSidecar(a.files[j])
               checks == << <<w, "MODEL_ARTIFACT_NOT_FOUND">>, <<x, "MODEL_LOAD_FAILED">>,
                            <<y, "MODEL_ARTIFACT_CORRUPTED">>, <<z, "MODEL_SCHEMA_MISMATCH">> >>
    <3>1. Checks(i) = checks
      BY DEF FileChecks
    <3> HIDE DEF w, x, y, z
    <3>2. DOMAIN checks \subseteq Nat /\ \A k \in DOMAIN checks : checks[k][2] \in Codes
      BY DEF Codes
    <3> HIDE DEF checks, Checks
    <3>3. FirstFailure(checks) \in Codes \cup {"OK"}
      BY <3>2, FailureCode
    <3> QED
      BY <2>1, <3>1, <3>3 DEF Codes
  <2>2. FilesCode(stored, root, a.files) = IF bad = {} THEN "OK" ELSE codes[Min(bad)]
    BY DEF FilesCode
  <2>3. CASE bad # {}
    <3>1. bad \in SUBSET Nat
      BY DEF IsList
    <3>2. Min(bad) \in bad
      <4> HIDE DEF bad
      <4> QED
        BY <3>1, <2>3, LeastNumber
    <3>3. Min(bad) \in DOMAIN a.files
      BY <3>2
    <3> HIDE DEF codes, bad
    <3> QED
      BY <2>1, <2>2, <2>3, <3>3
  <2> QED
    BY <2>2, <2>3 DEF Codes
<1>2. ASSUME NEW content, NEW alternative, NEW names
      PROVE  SchemaCode(content, alternative, names, model) \in Codes
  <2> DEFINE task == model.task_type
             classes == ClassesIn(content, task)
             onnx == alternative.format = "onnx"
             c1 == content.loads /\ ProtocolFormat[content.format] = alternative.format
             c2 == onnx => ~content.external
             c3 == onnx => content.tensors = DeclaredTensors(WeightFile(alternative), task)
             c4 == ~onnx => NativeObjective(content.objective, task)
             c5 == onnx /\ task # "REGRESSION" => classes # Missing
             c6 == onnx => content.shaped
             c7 == content.width \in {0, Len(names)}
             c8 == names # <<>> /\ Cardinality(ToSet(names)) = Len(names)
             c9 == classes # Missing =>
                     /\ task = "BINARY_CLASSIFICATION" => classes = 2
                     /\ Labels(model.label_mapping) # {} =>
                          Range(model.label_mapping) = 0 .. classes - 1
             checks == << <<c1, "MODEL_LOAD_FAILED">>, <<c2, "MODEL_FORMAT_UNSUPPORTED">>,
                          <<c3, "MODEL_SCHEMA_MISMATCH">>, <<c4, "MODEL_SCHEMA_MISMATCH">>,
                          <<c5, "MODEL_SCHEMA_MISMATCH">>, <<c6, "MODEL_SCHEMA_MISMATCH">>,
                          <<c7, "MODEL_SCHEMA_MISMATCH">>, <<c8, "MODEL_SCHEMA_MISMATCH">>,
                          <<c9, "MODEL_SCHEMA_MISMATCH">> >>
  <2>1. SchemaCode(content, alternative, names, model) = FirstFailure(checks)
    BY DEF SchemaCode
  <2> HIDE DEF c1, c2, c3, c4, c5, c6, c7, c8, c9
  <2>2. DOMAIN checks \subseteq Nat /\ \A k \in DOMAIN checks : checks[k][2] \in Codes
    BY DEF Codes
  <2> HIDE DEF checks
  <2>3. FirstFailure(checks) \in Codes \cup {"OK"}
    BY <2>2, FailureCode
  <2> QED
    BY <2>1, <2>3 DEF Codes
<1>3. VerifiedCode(stored, model, preferred) =
        LET weights == Read(stored, At(root, WeightFile(a).path)) IN
        IF FilesCode(stored, root, a.files) # "OK" THEN FilesCode(stored, root, a.files)
        ELSE SchemaCode(Contents[weights], a, NamesIn(stored, root, a), model)
  BY DEF VerifiedCode
<1> HIDE DEF a, root
<1> QED
  BY <1>1, <1>2, <1>3

\* The feature names of verified bytes are the declared ones, each once.
LEMMA VerifiedNames ==
  ASSUME NEW stored, NEW p, NEW preferred,
         LET a == Alternative(p.model.model_artifacts, preferred)
         IN  /\ Obj(a.files) /\ IsList(a.files)
             /\ \E i \in DOMAIN a.files : WeightFile(a) = a.files[i],
         VerifiedCode(stored, p.model, preferred) = "OK"
  PROVE  LET a     == Alternative(p.model.model_artifacts, preferred)
             names == ModelNames(stored, p, a)
         IN  /\ names = DeclaredNames(a)
             /\ names # <<>> /\ Cardinality(ToSet(names)) = Len(names)
<1> DEFINE a     == Alternative(p.model.model_artifacts, preferred)
           root  == StorageRoot(p.model.storage)
           names == NamesIn(stored, root, a)
           weights == Read(stored, At(root, WeightFile(a).path))
           content == Contents[weights]
           sidecars == {i \in DOMAIN a.files : IsSidecar(a.files[i])}
<1>1. ModelNames(stored, p, a) = names
  BY DEF ModelNames
<1>2. /\ FilesCode(stored, root, a.files) = "OK"
      /\ SchemaCode(content, a, names, p.model) = "OK"
  <2>1. VerifiedCode(stored, p.model, preferred) =
          IF FilesCode(stored, root, a.files) # "OK" THEN FilesCode(stored, root, a.files)
          ELSE SchemaCode(content, a, names, p.model)
    BY DEF VerifiedCode
  <2> HIDE DEF a, root, names, content
  <2> QED
    BY <2>1
<1>3. names # <<>> /\ Cardinality(ToSet(names)) = Len(names)
  <2> DEFINE task == p.model.task_type
             classes == ClassesIn(content, task)
             onnx == a.format = "onnx"
             c1 == content.loads /\ ProtocolFormat[content.format] = a.format
             c2 == onnx => ~content.external
             c3 == onnx => content.tensors = DeclaredTensors(WeightFile(a), task)
             c4 == ~onnx => NativeObjective(content.objective, task)
             c5 == onnx /\ task # "REGRESSION" => classes # Missing
             c6 == onnx => content.shaped
             c7 == content.width \in {0, Len(names)}
             c8 == names # <<>> /\ Cardinality(ToSet(names)) = Len(names)
             c9 == classes # Missing =>
                     /\ task = "BINARY_CLASSIFICATION" => classes = 2
                     /\ Labels(p.model.label_mapping) # {} =>
                          Range(p.model.label_mapping) = 0 .. classes - 1
             checks == << <<c1, "MODEL_LOAD_FAILED">>, <<c2, "MODEL_FORMAT_UNSUPPORTED">>,
                          <<c3, "MODEL_SCHEMA_MISMATCH">>, <<c4, "MODEL_SCHEMA_MISMATCH">>,
                          <<c5, "MODEL_SCHEMA_MISMATCH">>, <<c6, "MODEL_SCHEMA_MISMATCH">>,
                          <<c7, "MODEL_SCHEMA_MISMATCH">>, <<c8, "MODEL_SCHEMA_MISMATCH">>,
                          <<c9, "MODEL_SCHEMA_MISMATCH">> >>
  <2>1. SchemaCode(content, a, names, p.model) = FirstFailure(checks)
    BY DEF SchemaCode
  <2> HIDE DEF c1, c2, c3, c4, c5, c6, c7, c8, c9
  <2>2. /\ DOMAIN checks \subseteq Nat /\ 8 \in DOMAIN checks
        /\ \A k \in DOMAIN checks : checks[k][2] # "OK"
        /\ checks[8][1] = c8
    OBVIOUS
  <2> HIDE DEF checks
  <2>3. FirstFailure(checks) = "OK"
    BY <1>2, <2>1
  <2>4. \A k \in DOMAIN checks : checks[k][1]
    BY <2>2, <2>3, NoFailure
  <2>5. c8
    BY <2>2, <2>4
  <2> QED
    BY <2>5 DEF c8
<1>4. PICK w \in DOMAIN a.files : WeightFile(a) = a.files[w]
  OBVIOUS
<1>5. \A i \in DOMAIN a.files : Read(stored, At(root, a.files[i].path)) = a.files[i].hash
  <2>1. Obj(a.files) /\ IsList(a.files)
    OBVIOUS
  <2> HIDE DEF a, root
  <2> QED
    BY <2>1, <1>2, FilesAreDeclared
<1>6. weights = WeightFile(a).hash
  BY <1>4, <1>5
<1>7. sidecars # {} => Min(sidecars) \in sidecars
  <2>1. sidecars \in SUBSET Nat
    BY DEF IsList
  <2> HIDE DEF sidecars
  <2> QED
    BY <2>1, LeastNumber
<1>8. names = IF content.names = <<>> /\ a.format = "xgboost" /\ sidecars # {}
              THEN Contents[Read(stored, At(root, a.files[Min(sidecars)].path))].names
              ELSE content.names
  BY DEF NamesIn
<1>9. DeclaredNames(a) = IF content.names # <<>> THEN content.names
                         ELSE Contents[a.files[Min(sidecars)].hash].names
  BY <1>6 DEF DeclaredNames
<1>10. sidecars # {} => Read(stored, At(root, a.files[Min(sidecars)].path))
                          = a.files[Min(sidecars)].hash
  BY <1>5, <1>7
<1> HIDE DEF a, root, names, content, sidecars
<1>11. names = DeclaredNames(a)
  BY <1>3, <1>8, <1>9, <1>10
<1> QED
  BY <1>1, <1>3, <1>11 DEF a

-----------------------------------------------------------------------------
(* Documents *)

Kind == {"training", "inference"}

\* The sections of a document and of what becomes of it.
LEMMA PayloadSections ==
  ASSUME NEW kind \in Kind, NEW p, DOMAIN p = Sections[kind]
  PROVE  /\ DOMAIN Payload(p) = Sections[kind]
         /\ \A s \in Sections[kind] :
              Payload(p)[s] = IF p[s] = Null THEN Missing ELSE p[s]
BY DEF Payload

\* A document that is admitted lists its tables and its relations, and joins
\* them into a tree.
LEMMA TreeOfDocument ==
  ASSUME DocumentInv, op \in Kind, Valid(doc, op)
  PROVE  LET layout == IF op = "training" THEN Payload(doc) ELSE Payload(doc).input
         IN  /\ Topology(layout.tables, layout.relations)
             /\ Listed(layout.tables) /\ Listed(layout.relations)
<1> DEFINE p == Payload(doc)
<1>1. /\ DOMAIN doc = Sections[op]
      /\ \A s \in Sections[op] : p[s] = IF doc[s] = Null THEN Missing ELSE doc[s]
  BY PayloadSections DEF DocumentInv
<1>2. CASE op = "training"
  <2>1. {"tables", "relations"} \subseteq Sections[op] \ {"model"}
    BY <1>2 DEF Sections
  <2>2. Topology(doc.tables, doc.relations)
    BY <1>2 DEF Valid, ValidTraining
  <2>3. doc.tables # Null /\ doc.relations # Null
    <3>1. Obj(doc.tables) /\ Obj(Or(doc.relations, <<>>))
      BY <2>2 DEF Topology
    <3>2. doc.relations # Null
      <4> SUFFICES ASSUME doc.relations = Null PROVE FALSE
        OBVIOUS
      <4>1. Or(doc.relations, <<>>) = Null
        BY ValueAssumption DEF Or
      <4> QED
        BY <3>1, <4>1 DEF Obj
    <3> QED
      BY <3>1, <3>2 DEF Obj
  <2>4. p.tables = doc.tables /\ p.relations = doc.relations
    BY <1>1, <2>1, <2>3
  <2>5. Listed(doc.tables) /\ Listed(doc.relations)
    <3>1. /\ doc.tables \in May("training", "tables") \cup {Missing}
          /\ doc.relations \in May("training", "relations") \cup {Missing}
      BY <1>2, <2>1 DEF DocumentInv
    <3>2. Listed(Missing)
      BY DEF Listed, Obj
    <3> QED
      BY <3>1, <3>2, RequestAssumption
  <2> QED
    BY <1>2, <2>2, <2>4, <2>5
<1>3. CASE op = "inference"
  <2>1. "input" \in Sections[op] \ {"model"} /\ op # "training"
    BY <1>3 DEF Sections
  <2>2. Obj(doc.input) /\ Topology(doc.input.tables, doc.input.relations)
    BY <1>3 DEF Valid, ValidInference
  <2>3. p.input = doc.input
    BY <1>1, <2>1, <2>2 DEF Obj
  <2>4. doc.input \in May("inference", "input")
    BY <1>3, <2>1, <2>2 DEF DocumentInv, Obj
  <2>5. Listed(doc.input.tables) /\ Listed(doc.input.relations)
    BY <2>2, <2>4, RequestAssumption DEF ParsedLayout
  <2> QED
    BY <2>1, <2>2, <2>3, <2>5
<1> QED
  BY <1>2, <1>3 DEF Kind

\* The deadline of a document that is admitted is absent or positive.
LEMMA DeadlineOfDocument ==
  ASSUME DocumentInv, op \in Kind, Valid(doc, op)
  PROVE  Deadline(Payload(doc), op) # Bad
<1> DEFINE p == Payload(doc)  section == TimeoutSection(op)  key == TimeoutKey(op)
           value == IF Obj(p[section]) THEN p[section][key] ELSE Missing
<1>1. /\ DOMAIN doc = Sections[op]
      /\ \A s \in Sections[op] : p[s] = IF doc[s] = Null THEN Missing ELSE doc[s]
  BY PayloadSections DEF DocumentInv
<1>2. section \in Sections[op]
  BY DEF Kind, Sections, TimeoutSection
<1>3. Obj(p[section]) /\ Given(p[section][key]) => AtLeast(p[section][key], 1)
  <2> SUFFICES ASSUME Obj(p[section]), Given(p[section][key])
               PROVE  AtLeast(p[section][key], 1)
    OBVIOUS
  <2>1. p[section] = doc[section] /\ doc[section] # Missing
    BY <1>1, <1>2 DEF Obj
  <2>2. CASE op = "training"
    <3>1. Resources(doc.resource_limits) /\ section = "resource_limits"
          /\ key = "max_training_time_seconds"
      BY <2>2 DEF Valid, ValidTraining, TimeoutSection, TimeoutKey
    <3> QED
      BY <2>1, <3>1 DEF Resources, Limits
  <2>3. CASE op = "inference"
    <3>1. ValidInference(doc) /\ section = "execution"
          /\ key = "max_execution_time_seconds"
      BY <2>3 DEF Valid, TimeoutSection, TimeoutKey
    <3> QED
      BY <2>1, <3>1 DEF ValidInference, ExecutionLimits
  <2> QED
    BY <2>2, <2>3 DEF Kind
<1>4. Deadline(p, op) = IF ~Given(value) THEN Null
                        ELSE IF AtLeast(value, 1) THEN value ELSE Bad
  BY DEF Deadline
<1>5. CASE ~Given(value)
  BY <1>4, <1>5, ValueAssumption
<1>6. CASE Given(value)
  <2>1. AtLeast(value, 1)
    BY <1>3, <1>6 DEF Given
  <2>2. value # Bad
    BY <2>1, ValueAssumption DEF AtLeast
  <2> QED
    BY <1>4, <1>6, <2>1, <2>2
<1> QED
  BY <1>5, <1>6

\* What is known of the section of a request that is read.
LEMMA InputIsParsed ==
  ASSUME DocumentInv, op = "inference", InferenceCode(doc) = "OK"
  PROVE  /\ ParsedSelect(doc.input.query.sql)
         /\ Obj(doc.model) /\ Obj(doc.model.model_artifacts) /\ ParsedModel(doc.model)
         /\ ParsedLayout(doc.input) /\ Obj(doc.input)
<1>1. ValidInference(doc) /\ QueryOK(doc.input)
  BY InferenceAccepted
<1>2. /\ Obj(doc.input) /\ Query(doc.input.query)
      /\ Obj(doc.model) /\ Obj(doc.model.model_artifacts)
  BY <1>1 DEF ValidInference
<1>3. doc.input \in May("inference", "input")
  <2>1. "input" \in Sections[op] \ {"model"}
    BY DEF Sections
  <2> QED
    BY <1>2, <2>1 DEF DocumentInv, Obj
<1>4. ParsedLayout(doc.input) /\ ParsedQuery(doc.input.query)
  BY <1>2, <1>3, RequestAssumption
<1>5. doc.input.query.sql.kind = "select"
  BY <1>1 DEF QueryOK
<1> QED
  BY <1>2, <1>4, <1>5 DEF ParsedQuery, Query, Text, DocumentInv

\* What is known of the query of a training.
LEMMA QueryIsParsed ==
  ASSUME DocumentInv, op = "training", Plannable(doc)
  PROVE  /\ ~Balanced(doc) => ParsedSelect(doc.data_query.query.sql)
         /\ Balanced(doc) =>
              LET branches == doc.data_query.query.sql.branches
              IN  IsList(branches) /\ \A i \in DOMAIN branches : ParsedSelect(branches[i])
<1>1. /\ Obj(doc.data_query) /\ Query(doc.data_query.query)
  BY DEF Plannable, ValidTraining, DataQuery
<1>2. doc.data_query \in May("training", "data_query")
  <2>1. "data_query" \in Sections[op] \ {"model"}
    BY DEF Sections
  <2> QED
    BY <1>1, <2>1 DEF DocumentInv, Obj
<1>3. ParsedQuery(doc.data_query.query)
  BY <1>1, <1>2, RequestAssumption
<1>4. /\ ~Balanced(doc) => doc.data_query.query.sql.kind = "select"
      /\ Balanced(doc) => doc.data_query.query.sql.kind = "union"
  BY DEF Plannable, SelectPlannable, SamplerPlannable
<1> QED
  BY <1>1, <1>3, <1>4 DEF ParsedQuery, Query, Text

\* The chosen and the native alternative of an accepted request.
LEMMA AlternativesOf ==
  ASSUME DocumentInv, op = "inference", InferenceCode(doc) = "OK", NEW preferred
  PROVE  LET a == Alternative(doc.model.model_artifacts, preferred)
         IN  /\ Obj(a.files) /\ IsList(a.files)
             /\ a.format \in DOMAIN WeightName
             /\ WeightFiles(a) # {}
             /\ \E i \in DOMAIN a.files : WeightFile(a) = a.files[i]
<1>1. /\ Obj(doc.model) /\ Obj(doc.model.model_artifacts) /\ ParsedModel(doc.model)
  BY InputIsParsed
<1>2. ReferenceCode(doc.model) = "OK" /\ Usable(doc.model.model_artifacts) # {}
  BY InferenceAccepted
<1> QED
  BY <1>1, <1>2, AlternativeIs

-----------------------------------------------------------------------------
(* The request: the invariant holds at the start and until the admission *)

Others == <<op, doc, edits, table, plan, rows, published, run, results>>

\* An operation that stops keeps what it knew.
LEMMA StopKeeps ==
  ASSUME PathInv, pc \notin {"written", "ended"}, NEW c \in Codes \ {"OK"}, Stop(c),
         UNCHANGED Others,
         tampers' \in 0 .. MaxChanges, \A l \in DOMAIN store' : store'[l] \in Held
  PROVE  PathInv'
<1>1. pc' = "ended" /\ code' = c
  BY DEF Stop
<1>2. /\ op' = op /\ doc' = doc /\ edits' = edits /\ table' = table /\ plan' = plan
      /\ rows' = rows /\ published' = published /\ run' = run /\ results' = results
  BY DEF Others
<1>3. TypeOK'
  BY <1>1, <1>2 DEF PathInv, AdmittedIsSound, TypeOK, Stages, Held,
     TrainingPlanOK, InferencePlanOK
<1>4. JoinIsATree' /\ AdmittedHasDeadline'
  BY <1>1 DEF JoinIsATree, AdmittedHasDeadline
<1>5. RunsOnVerifiedBytes'
  BY <1>2 DEF PathInv, RunsOnVerifiedBytes
<1>6. DocumentInv'
  BY <1>1, <1>2 DEF PathInv, DocumentInv
<1>7. PlanInv'
  BY <1>1 DEF PlanInv, TrainingStages, InferenceStages
<1>8. RowsInv'
  BY <1>1 DEF RowsInv
<1>9. RunInv'
  BY <1>1, <1>2 DEF PathInv, RunInv
<1> QED
  BY <1>3, <1>4, <1>5, <1>6, <1>7, <1>8, <1>9 DEF PathInv, AdmittedIsSound

\* What the initial states satisfy.
LEMMA InitPathInv == Init => PathInv
<1> SUFFICES ASSUME Init PROVE PathInv
  OBVIOUS
<1>1. /\ op \in {"training", "inference"} /\ doc = Base[op] /\ edits = {}
      /\ pc = "compose" /\ code = "OK" /\ table \in DOMAIN Tables /\ plan = Null
      /\ rows = {} /\ published = Null /\ store = Stored /\ tampers = 0 /\ run = NoRun
  BY DEF Init
<1>2. TypeOK
  BY <1>1, StorageAssumption DEF TypeOK, Stages, Codes, NoRun, MaxRetries, Held
<1>3. JoinIsATree /\ AdmittedHasDeadline
  BY <1>1 DEF JoinIsATree, AdmittedHasDeadline
<1>4. RunsOnVerifiedBytes
  BY <1>1 DEF RunsOnVerifiedBytes, NoRun
<1>5. DocumentInv
  <2>1. DOMAIN doc = Sections[op]
    BY <1>1, RequestAssumption
  <2>2. \A s \in Sections[op] \ {"model"} : doc[s] \in May(op, s) \cup {Missing}
    BY <1>1 DEF May
  <2>3. IsFiniteSet(edits)
    BY <1>1, FS_EmptySet
  <2>4. op = "inference" => ParsedModel(doc.model)
    <3>1. Base["inference"].model \in May("inference", "model")
      BY DEF May
    <3> QED
      BY <1>1, <3>1, RequestAssumption
  <2> QED
    BY <1>1, <2>1, <2>2, <2>3, <2>4 DEF DocumentInv
<1>6. PlanInv
  BY <1>1 DEF PlanInv, TrainingStages, InferenceStages
<1>7. RowsInv
  BY <1>1 DEF RowsInv
<1>8. RunInv
  BY <1>1 DEF RunInv, NoRun
<1> QED
  BY <1>2, <1>3, <1>4, <1>5, <1>6, <1>7, <1>8 DEF PathInv, AdmittedIsSound

\* Stopping with a code of the code.
LEMMA StopAlone ==
  ASSUME PathInv, pc \notin {"written", "ended"}, NEW c \in Codes \ {"OK"}, Stop(c),
         UNCHANGED <<op, doc, edits, table, plan, rows, published, store, tampers, run, results>>
  PROVE  PathInv'
<1>1. UNCHANGED Others /\ store' = store /\ tampers' = tampers
  BY DEF Others
<1>2. tampers' \in 0 .. MaxChanges /\ \A l \in DOMAIN store' : store'[l] \in Held
  BY <1>1 DEF PathInv, AdmittedIsSound, TypeOK, Held
<1> QED
  BY <1>1, <1>2, StopKeeps

\* KnoVa changes a section of the request.
LEMMA EditKeeps ==
  ASSUME PathInv, NEW section \in DOMAIN Variants[op], NEW value \in Variants[op][section],
         Edit(section, value)
  PROVE  PathInv'
<1>1. /\ pc = "compose" /\ doc' = [doc EXCEPT ![section] = value]
      /\ edits' = edits \cup {<<op, section>>}
      /\ op' = op /\ pc' = pc /\ code' = code /\ table' = table /\ plan' = plan
      /\ rows' = rows /\ published' = published /\ store' = store /\ tampers' = tampers
      /\ run' = run /\ results' = results
  BY DEF Edit
<1>a. run.loaded = Missing /\ run.explaining = Missing /\ plan = Null /\ rows = {}
  BY <1>1 DEF PathInv, RunInv, PlanInv
<1>b. op \in Kind /\ section \in Sections[op]
  BY RequestAssumption DEF Kind, PathInv, AdmittedIsSound, TypeOK
<1>2. TypeOK'
  BY <1>1, <1>a DEF PathInv, AdmittedIsSound, TypeOK
<1>3. JoinIsATree' /\ AdmittedHasDeadline'
  BY <1>1 DEF JoinIsATree, AdmittedHasDeadline
<1>4. RunsOnVerifiedBytes'
  BY <1>1, <1>a DEF RunsOnVerifiedBytes
<1>5. DocumentInv'
  <2>1. DocumentInv
    BY DEF PathInv
  <2>2. value \in May(op, section)
    BY DEF May
  <2>3. /\ DOMAIN doc' = Sections[op'] /\ IsFiniteSet(edits')
    <3>1. IsFiniteSet(edits')
      BY <1>1, <2>1, FS_AddElement DEF DocumentInv
    <3> QED
      BY <1>1, <2>1, <3>1 DEF DocumentInv
  <2>4. \A s \in Sections[op'] \ {"model"} : doc'[s] \in May(op', s) \cup {Missing}
    BY <1>1, <2>1, <2>2 DEF DocumentInv
  <2>5. op' = "inference" => ParsedModel(doc'.model)
    <3> SUFFICES ASSUME op = "inference" PROVE ParsedModel(doc'.model)
      BY <1>1
    <3>1. CASE section = "model"
      <4>1. doc'.model = value
        BY <1>1, <1>b, <2>1, <3>1 DEF DocumentInv
      <4> QED
        BY <4>1, <2>2, <3>1, RequestAssumption
    <3>2. CASE section # "model"
      <4>1. doc'.model = doc.model
        BY <1>1, <3>2
      <4> QED
        BY <4>1, <2>1 DEF DocumentInv
    <3> QED
      BY <3>1, <3>2
  <2> QED
    BY <1>1, <2>3, <2>4, <2>5 DEF DocumentInv
<1>6. PlanInv'
  BY <1>1, <1>a DEF PlanInv, TrainingStages, InferenceStages
<1>7. RowsInv'
  BY <1>1 DEF RowsInv
<1>8. RunInv'
  BY <1>1, <1>a DEF RunInv, PathInv
<1> QED
  BY <1>2, <1>3, <1>4, <1>5, <1>6, <1>7, <1>8 DEF PathInv, AdmittedIsSound

\* The Consumer admits the request or refuses it.
LEMMA AdmitKeeps ==
  ASSUME PathInv, Admit
  PROVE  PathInv'
<1> DEFINE verdict == ParseRequest(doc, "op", op)
<1>1. /\ pc = "compose"
      /\ op' = op /\ edits' = edits /\ table' = table /\ plan' = plan /\ rows' = rows
      /\ published' = published /\ store' = store /\ tampers' = tampers /\ run' = run
      /\ results' = results
      /\ IF verdict = "ADMITTED" THEN pc' = "build" /\ code' = code /\ doc' = Payload(doc)
         ELSE Stop(verdict) /\ doc' = doc
  BY DEF Admit
<1>a. /\ verdict \in {"INVALID_PAYLOAD", "UNSUPPORTED_PROTOCOL_VERSION", "ADMITTED"}
      /\ verdict = "ADMITTED" => Valid(doc, op)
  BY DEF ParseRequest
<1> HIDE DEF verdict
<1>2. CASE verdict # "ADMITTED"
  <2>1. verdict \in Codes \ {"OK"} /\ Stop(verdict) /\ doc' = doc
    BY <1>1, <1>2, <1>a DEF Codes
  <2> QED
    BY <1>1, <2>1, StopAlone
<1>3. CASE verdict = "ADMITTED"
  <2>1. /\ pc' = "build" /\ code' = code /\ doc' = Payload(doc) /\ Valid(doc, op)
    BY <1>1, <1>a, <1>3
  <2>2. op \in Kind /\ DocumentInv
    BY DEF PathInv, AdmittedIsSound, TypeOK, Kind
  <2>3. run.loaded = Missing /\ run.explaining = Missing /\ plan = Null /\ rows = {}
        /\ code = "OK"
    BY <1>1 DEF PathInv, RunInv, PlanInv, AdmittedIsSound, TypeOK
  <2>4. TypeOK'
    BY <1>1, <2>1, <2>3 DEF PathInv, AdmittedIsSound, TypeOK, Stages
  <2>5. JoinIsATree'
    <3> DEFINE layout == IF op = "training" THEN Payload(doc) ELSE Payload(doc).input
    <3>1. /\ Topology(layout.tables, layout.relations)
          /\ Listed(layout.tables) /\ Listed(layout.relations)
      BY <2>1, <2>2, TreeOfDocument
    <3>2. Layout' = layout
      BY <1>1, <2>1 DEF Layout
    <3> HIDE DEF layout
    <3>3. /\ Topology(Layout'.tables, Layout'.relations)
          /\ Listed(Layout'.tables) /\ Listed(Layout'.relations)
      BY <3>1, <3>2
    <3> QED
      BY <3>3, TopologyIsATree DEF JoinIsATree, IsTree
  <2>6. AdmittedHasDeadline'
    BY <1>1, <2>1, <2>2, DeadlineOfDocument DEF AdmittedHasDeadline
  <2>7. RunsOnVerifiedBytes'
    BY <1>1, <2>3 DEF RunsOnVerifiedBytes
  <2>8. DocumentInv'
    <3>1. /\ DOMAIN doc' = Sections[op']
          /\ \A s \in Sections[op] : doc'[s] = IF doc[s] = Null THEN Missing ELSE doc[s]
      BY <1>1, <2>1, <2>2, PayloadSections DEF DocumentInv
    <3>2. \A s \in Sections[op'] \ {"model"} : doc'[s] \in May(op', s) \cup {Missing}
      BY <1>1, <2>2, <3>1 DEF DocumentInv
    <3>3. op' = "inference" => ParsedModel(doc'.model)
      <4> SUFFICES ASSUME op = "inference" PROVE ParsedModel(doc'.model)
        BY <1>1
      <4>1. "model" \in Sections[op]
        BY DEF Sections
      <4>2. doc'.model \in {doc.model, Missing}
        BY <3>1, <4>1
      <4>3. ParsedModel(Missing)
        BY DEF ParsedModel, Obj
      <4> QED
        BY <4>2, <4>3, <2>2 DEF DocumentInv
    <3> QED
      BY <1>1, <2>1, <2>2, <3>1, <3>2, <3>3 DEF DocumentInv
  <2>9. PlanInv'
    BY <1>1, <2>1, <2>3 DEF PlanInv, TrainingStages, InferenceStages
  <2>10. RowsInv'
    BY <2>1 DEF RowsInv
  <2>11. RunInv'
    BY <1>1, <2>1, <2>3 DEF RunInv, PathInv
  <2> QED
    BY <2>4, <2>5, <2>6, <2>7, <2>8, <2>9, <2>10, <2>11 DEF PathInv, AdmittedIsSound
<1> QED
  BY <1>2, <1>3

-----------------------------------------------------------------------------
(* Training: the invariant is kept *)

\* The driver plans the training or refuses it.
LEMMA BuildTrainingKeeps ==
  ASSUME PathInv, BuildTraining
  PROVE  PathInv'
<1>1. /\ pc = "build" /\ op = "training"
      /\ op' = op /\ doc' = doc /\ edits' = edits /\ table' = table /\ rows' = rows
      /\ published' = published /\ store' = store /\ tampers' = tampers /\ run' = run
      /\ results' = results
      /\ IF Plannable(doc) THEN plan' = TrainingPlan(doc) /\ pc' = "load" /\ code' = code
         ELSE Stop("INVALID_PAYLOAD") /\ plan' = plan
  BY DEF BuildTraining
<1>2. CASE ~Plannable(doc)
  <2>1. "INVALID_PAYLOAD" \in Codes \ {"OK"} /\ Stop("INVALID_PAYLOAD") /\ plan' = plan
    BY <1>1, <1>2 DEF Codes
  <2> QED
    BY <1>1, <2>1, StopAlone
<1>3. CASE Plannable(doc)
  <2>1. plan' = TrainingPlan(doc) /\ pc' = "load" /\ code' = code
    BY <1>1, <1>3
  <2>2. run.loaded = Missing /\ run.explaining = Missing /\ rows = {} /\ code = "OK"
    BY <1>1 DEF PathInv, RunInv, PlanInv, AdmittedIsSound, TypeOK
  <2>3. TrainingPlanOK'
    BY <1>3, <2>1, TrainingPlanSound DEF TrainingPlanOK
  <2>4. TypeOK'
    BY <1>1, <2>1, <2>2, <2>3 DEF PathInv, AdmittedIsSound, TypeOK, Stages
  <2>5. JoinIsATree' /\ AdmittedHasDeadline'
    BY <2>1 DEF JoinIsATree, AdmittedHasDeadline
  <2>6. RunsOnVerifiedBytes'
    BY <1>1, <2>2 DEF RunsOnVerifiedBytes
  <2>7. DocumentInv'
    BY <1>1, <2>1 DEF PathInv, DocumentInv
  <2>8. PlanInv'
    BY <1>1, <1>3, <2>1 DEF PlanInv, TrainingStages, InferenceStages
  <2>9. RowsInv'
    BY <2>1 DEF RowsInv
  <2>10. RunInv'
    BY <1>1, <2>1, <2>2 DEF RunInv, PathInv
  <2> QED
    BY <2>4, <2>5, <2>6, <2>7, <2>8, <2>9, <2>10 DEF PathInv, AdmittedIsSound
<1> QED
  BY <1>2, <1>3

\* What a planned training reads are rows of the table.
LEMMA TrainingReads ==
  ASSUME PathInv, pc \in TrainingStages,
         NEW read \in Reads(Tables[table], plan.columns, plan.steps)
  PROVE  RowsOf(read, Tables[table])
<1>1. op = "training" /\ Plannable(doc) /\ plan = TrainingPlan(doc) /\ DocumentInv
      /\ table \in DOMAIN Tables
  BY DEF PathInv, PlanInv, RunInv
<1>2. plan.steps = TrainingSteps(doc)
  BY <1>1 DEF TrainingPlan
<1>3. Balanced(doc) \/ ParsedSelect(doc.data_query.query.sql)
  BY <1>1, QueryIsParsed
<1>4. IsSteps(plan.steps)
  BY <1>2, <1>3, TrainingStepsType
<1> QED
  BY <1>1, <1>4, ReadRows

\* What an accepted inference reads are rows of the table.
LEMMA InferenceReads ==
  ASSUME PathInv, pc \in InferenceStages,
         NEW read \in Reads(Tables[table], plan.columns, plan.steps)
  PROVE  RowsOf(read, Tables[table])
<1>1. op = "inference" /\ InferenceCode(doc) = "OK" /\ plan.steps = InputSteps(doc.input)
      /\ DocumentInv /\ table \in DOMAIN Tables
  BY DEF PathInv, PlanInv, RunInv
<1>2. ParsedSelect(doc.input.query.sql)
  BY <1>1, InputIsParsed
<1>3. IsSteps(plan.steps)
  BY <1>1, <1>2, InputStepsType
<1> QED
  BY <1>1, <1>3, ReadRows

\* The identities of rows of a table are among the table's.
LEMMA RowIds ==
  ASSUME NEW read, NEW from, RowsOf(read, from)
  PROVE  {r.id : r \in read} \subseteq {r.id : r \in from}
BY DEF RowsOf

\* The datasource is read, or the reading fails.
LEMMA LoadKeeps ==
  ASSUME PathInv, Load
  PROVE  PathInv'
<1>1. /\ pc = "load"
      /\ op' = op /\ doc' = doc /\ edits' = edits /\ table' = table /\ plan' = plan
      /\ published' = published /\ store' = store /\ tampers' = tampers /\ run' = run
      /\ results' = results
  BY DEF Load
<1>2. CASE Stop("FAILED") /\ rows' = rows
  <2>1. "FAILED" \in Codes \ {"OK"}
    BY DEF Codes
  <2> QED
    BY <1>1, <1>2, <2>1, StopAlone
<1>3. CASE \E answer \in IF Readable THEN Reads(Tables[table], plan.columns, plan.steps)
                         ELSE {{}} :
             answer # {} /\ pc' = "prepare" /\ code' = code /\ rows' = answer
  <2>1. /\ pc' = "prepare" /\ code' = code
        /\ rows' \in Reads(Tables[table], plan.columns, plan.steps)
    BY <1>3
  <2>2. run.loaded = Missing /\ run.explaining = Missing /\ code = "OK"
        /\ pc \in TrainingStages
    BY <1>1 DEF PathInv, RunInv, PlanInv, AdmittedIsSound, TypeOK, TrainingStages
  <2>3. RowsOf(rows', Tables[table])
    BY <2>1, <2>2, TrainingReads
  <2>4. TypeOK'
    BY <1>1, <2>1, <2>2, <2>3, RowIds DEF PathInv, AdmittedIsSound, TypeOK, Stages,
       TrainingPlanOK, InferencePlanOK
  <2>5. JoinIsATree' /\ AdmittedHasDeadline'
    BY <2>1 DEF JoinIsATree, AdmittedHasDeadline
  <2>6. RunsOnVerifiedBytes'
    BY <1>1, <2>2 DEF RunsOnVerifiedBytes
  <2>7. DocumentInv'
    BY <1>1, <2>1 DEF PathInv, DocumentInv
  <2>8. PlanInv'
    BY <1>1, <2>1, <2>2 DEF PathInv, PlanInv, TrainingStages, InferenceStages
  <2>9. RowsInv'
    BY <1>1, <2>1 DEF RowsInv
  <2>10. RunInv'
    BY <1>1, <2>1, <2>2 DEF RunInv, PathInv
  <2> QED
    BY <2>4, <2>5, <2>6, <2>7, <2>8, <2>9, <2>10 DEF PathInv, AdmittedIsSound
<1> QED
  BY <1>2, <1>3 DEF Load

\* Whether a sample of the distinct rows, its classes encoded, is left.
Leaves(from, p, of, left) ==
  \E d \in OnePerEntity(from, p.data_query.entity_key) :
    \E s \in ClassSampled(d, p.target.result_column, of.quotas) :
      IF IsRegression(p) THEN left = s
      ELSE Encodable(s, p.target, of.classes) /\ left = Encoded(s, p.target)

\* A preparation leaves that, or fails.
LEMMA OutcomeIs ==
  ASSUME NEW from, NEW p, NEW of, NEW o \in Prepared(from, p, of), o # <<FALSE, {}>>
  PROVE  o = <<TRUE, o[2]>> /\ Leaves(from, p, of, o[2])
<1> DEFINE sampled == UNION {ClassSampled(d, p.target.result_column, of.quotas) :
                               d \in OnePerEntity(from, p.data_query.entity_key)}
           Outcome(s) == IF Encodable(s, p.target, of.classes)
                         THEN <<TRUE, Encoded(s, p.target)>> ELSE <<FALSE, {}>>
<1>1. Prepared(from, p, of) = IF IsRegression(p) THEN {<<TRUE, s>> : s \in sampled}
                              ELSE {Outcome(s) : s \in sampled}
  BY DEF Prepared
<1>2. \A s \in sampled :
        \E d \in OnePerEntity(from, p.data_query.entity_key) :
          s \in ClassSampled(d, p.target.result_column, of.quotas)
  OBVIOUS
<1> HIDE DEF sampled
<1>3. CASE IsRegression(p)
  <2>1. PICK s \in sampled : o = <<TRUE, s>>
    BY <1>1, <1>3
  <2> QED
    BY <1>2, <1>3, <2>1 DEF Leaves
<1>4. CASE ~IsRegression(p)
  <2>1. PICK s \in sampled : o = Outcome(s)
    BY <1>1, <1>4
  <2>2. Encodable(s, p.target, of.classes) /\ o = <<TRUE, Encoded(s, p.target)>>
    BY <2>1
  <2> QED
    BY <1>2, <1>4, <2>2 DEF Leaves
<1> QED
  BY <1>3, <1>4

\* Validation and transform, or the failure of an encoding.
LEMMA PrepareKeeps ==
  ASSUME PathInv, Prepare
  PROVE  PathInv'
<1>1. /\ pc = "prepare"
      /\ op' = op /\ doc' = doc /\ edits' = edits /\ table' = table /\ plan' = plan
      /\ rows' = rows /\ published' = published /\ store' = store /\ tampers' = tampers
      /\ run' = run /\ results' = results
      /\ Stop("FAILED") \/ (pc' = "fit" /\ code' = code)
  BY DEF Prepare
<1>2. CASE Stop("FAILED")
  <2>1. "FAILED" \in Codes \ {"OK"}
    BY DEF Codes
  <2> QED
    BY <1>1, <1>2, <2>1, StopAlone
<1>3. CASE pc' = "fit" /\ code' = code
  <2>1. pc' = "fit" /\ code' = code
    BY <1>3
  <2>2. run.loaded = Missing /\ run.explaining = Missing /\ code = "OK"
    BY <1>1 DEF PathInv, RunInv, PlanInv, AdmittedIsSound, TypeOK, TrainingStages
  <2>4. TypeOK'
    BY <1>1, <2>1, <2>2 DEF PathInv, AdmittedIsSound, TypeOK, Stages,
       TrainingPlanOK, InferencePlanOK
  <2>5. JoinIsATree' /\ AdmittedHasDeadline'
    BY <2>1 DEF JoinIsATree, AdmittedHasDeadline
  <2>6. RunsOnVerifiedBytes'
    BY <1>1, <2>2 DEF RunsOnVerifiedBytes
  <2>7. DocumentInv'
    BY <1>1, <2>1 DEF PathInv, DocumentInv
  <2>8. PlanInv'
    BY <1>1, <2>1, <2>2 DEF PathInv, PlanInv, TrainingStages, InferenceStages
  <2>9. RowsInv'
    <3>1. rows \in Reads(Tables[table], plan.columns, plan.steps)
      BY <1>1 DEF PathInv, RowsInv
    <3>2. /\ <<TRUE, prepared'>> \in Prepared(rows, doc, plan)
          /\ short' = ShortClasses(prepared', doc)
      <4>1. PICK outcome \in Prepared(rows, doc, plan) :
              outcome[1] /\ prepared' = outcome[2] /\ short' = ShortClasses(outcome[2], doc)
        BY <2>1 DEF Prepare, Stop
      <4>2. outcome # <<FALSE, {}>>
        <5> SUFFICES ASSUME outcome = <<FALSE, {}>> PROVE FALSE
          OBVIOUS
        <5>1. ~outcome[1]
          OBVIOUS
        <5> QED
          BY <4>1, <5>1
      <4>3. outcome = <<TRUE, outcome[2]>>
        BY <4>2, OutcomeIs
      <4> QED
        BY <4>1, <4>3
    <3> QED
      BY <1>1, <2>1, <3>1, <3>2 DEF RowsInv
  <2>10. RunInv'
    BY <1>1, <2>1, <2>2 DEF RunInv, PathInv
  <2> QED
    BY <2>4, <2>5, <2>6, <2>7, <2>8, <2>9, <2>10 DEF PathInv, AdmittedIsSound
<1> QED
  BY <1>1, <1>2, <1>3

\* The files of a Bundle are contents, wherever they are put.
LEMMA BundleIsHeld ==
  ASSUME NEW canonical, NEW bundle \in Bundles, NEW old,
         \A l \in DOMAIN old : old[l] \in Held
  PROVE  LET new == Over(BundleFiles(canonical, bundle), old)
         IN  \A l \in DOMAIN new : new[l] \in Held
<1> DEFINE files == UNION {{<<i, j>> : j \in DOMAIN bundle[i].files} : i \in DOMAIN bundle}
           Path(x) == At(canonical, <<"artifacts", bundle[x[1]].name>>
                                      \o bundle[x[1]].files[x[2]].path)
           put == BundleFiles(canonical, bundle)
           At1(l) == CHOOSE y \in files : Path(y) = l
           new == Over(put, old)
<1>1. put = [l \in {Path(x) : x \in files} |-> bundle[At1(l)[1]].files[At1(l)[2]].content]
  BY DEF BundleFiles
<1>2. \A l \in DOMAIN put : At1(l) \in files /\ put[l] = bundle[At1(l)[1]].files[At1(l)[2]].content
  <2> HIDE DEF Path, files
  <2> QED
    BY <1>1
<1>3. \A x \in files : bundle[x[1]].files[x[2]].content \in DOMAIN Contents
  BY StorageAssumption
<1> HIDE DEF At1, files, put
<1>4. \A l \in DOMAIN put : put[l] \in Held
  BY <1>2, <1>3 DEF Held
<1>5. /\ DOMAIN new = DOMAIN put \cup DOMAIN old
      /\ \A l \in DOMAIN new : new[l] = IF l \in DOMAIN put THEN put[l] ELSE old[l]
  BY DEF Over
<1>6. \A l \in DOMAIN new : new[l] \in Held
  <2> HIDE DEF new
  <2> QED
    BY <1>4, <1>5
<1> QED
  BY <1>6 DEF put

\* The manifest of a Bundle lists its models and their files.
LEMMA ManifestIsParsed ==
  ASSUME NEW p, NEW canonical, NEW bundle \in Bundles
  PROVE  ParsedArtifacts(Manifest(p, canonical, bundle).model_artifacts)
<1> DEFINE models == ModelArtifacts(bundle)
           File(i, j) == ManifestFile(models[i], models[i].files[j])
           Model(i) == [format |-> ProtocolFormat[models[i].format],
                        files  |-> [j \in DOMAIN models[i].files |-> File(i, j)]]
           alternatives == [i \in DOMAIN models |-> Model(i)]
           artifacts == Manifest(p, canonical, bundle).model_artifacts
           S == {bundle[i] : i \in DOMAIN bundle}
<1>1. artifacts = [part \in {"model_weights"} |->
                     [required_for_inference |-> TRUE, alternatives |-> alternatives]]
  BY DEF Manifest
<1>2. models \in Seq(S)
  <2>1. IsList(bundle)
    BY StorageAssumption
  <2>2. Len(bundle) \in Nat /\ DOMAIN bundle = 1 .. Len(bundle)
    BY <2>1 DEF IsList
  <2>3. \A positions : \A i \in (1 .. Len(bundle)) \cap positions : bundle[i] \in S
    BY <2>2
  <2> HIDE DEF S
  <2> QED
    BY <2>2, <2>3, SubsequenceType DEF ModelArtifacts
<1> HIDE DEF models
<1>3. \A x \in S : IsList(x.files)
  BY StorageAssumption
<1> HIDE DEF S
<1>4. /\ DOMAIN models = 1 .. Len(models) /\ Len(models) \in Nat
      /\ \A i \in DOMAIN models : IsList(models[i].files)
  BY <1>2, <1>3
<1> HIDE DEF File
<1>5. \A i \in DOMAIN models : IsList(Model(i).files)
  <2> TAKE i \in DOMAIN models
  <2>1. Len(models[i].files) \in Nat /\ DOMAIN models[i].files = 1 .. Len(models[i].files)
    BY <1>4 DEF IsList
  <2> DEFINE n == Len(models[i].files)
             files == [j \in 1 .. n |-> File(i, j)]
  <2>2. Model(i).files = files
    BY <2>1
  <2> HIDE DEF n
  <2>3. n \in Nat
    BY <2>1 DEF n
  <2>4. Len(files) = n /\ files = [j \in 1 .. n |-> files[j]]
    BY <2>3
  <2> HIDE DEF files
  <2>5. IsList(files)
    BY <2>3, <2>4 DEF IsList
  <2> QED
    BY <2>2, <2>5
<1>6. IsList(alternatives)
  <2> HIDE DEF Model
  <2> DEFINE n == Len(models)
             list == [i \in 1 .. n |-> Model(i)]
  <2>1. alternatives = list /\ n \in Nat
    BY <1>4
  <2> HIDE DEF n
  <2>2. Len(list) = n /\ list = [i \in 1 .. n |-> list[i]]
    BY <2>1
  <2> HIDE DEF list, alternatives
  <2>3. IsList(list)
    BY <2>1, <2>2 DEF IsList
  <2> QED
    BY <2>1, <2>3
<1>7. DOMAIN alternatives = DOMAIN models
      /\ \A i \in DOMAIN alternatives : alternatives[i] = Model(i)
  OBVIOUS
<1> HIDE DEF alternatives, Model
<1>8. \A i \in DOMAIN alternatives : Listed(alternatives[i].files)
  BY <1>5, <1>7 DEF Listed
<1>9. DOMAIN artifacts = {"model_weights"} /\ artifacts["model_weights"].alternatives = alternatives
  BY <1>1
<1> HIDE DEF artifacts
<1>10. ParsedArtifacts(artifacts)
  BY <1>6, <1>8, <1>9 DEF ParsedArtifacts
<1> QED
  BY <1>10 DEF artifacts

\* The model is published, or its export is refused.
LEMMA PublishKeeps ==
  ASSUME PathInv, Publish
  PROVE  PathInv'
<1>1. /\ pc = "fit"
      /\ op' = op /\ doc' = doc /\ edits' = edits /\ table' = table /\ plan' = plan
      /\ rows' = rows /\ tampers' = tampers /\ run' = run /\ results' = results
  BY DEF Publish
<1>2. PICK bundle \in Bundles :
        LET canonical == At(plan.bundle, <<"bundle-1">>) IN
        /\ store' = Over(BundleFiles(canonical, bundle), store)
        /\ \/ /\ published' = TrainedModel(Manifest(doc, canonical, bundle))
              /\ pc' = "published" /\ code' = code
           \/ Stop("MODEL_EXPORT_FAILED") /\ UNCHANGED published
  BY DEF Publish
<1> DEFINE canonical == At(plan.bundle, <<"bundle-1">>)
<1>3. \A l \in DOMAIN store' : store'[l] \in Held
  <2>1. \A l \in DOMAIN store : store[l] \in Held
    BY DEF PathInv, AdmittedIsSound, TypeOK, Held
  <2> QED
    BY <1>2, <2>1, BundleIsHeld
<1>4. CASE Stop("MODEL_EXPORT_FAILED") /\ UNCHANGED published
  <2>1. "MODEL_EXPORT_FAILED" \in Codes \ {"OK"}
    BY DEF Codes
  <2>2. tampers' \in 0 .. MaxChanges
    BY <1>1 DEF PathInv, AdmittedIsSound, TypeOK
  <2>3. UNCHANGED Others
    BY <1>1, <1>4 DEF Others
  <2> QED
    BY <1>1, <1>3, <1>4, <2>1, <2>2, <2>3, StopKeeps
<1>5. CASE /\ published' = TrainedModel(Manifest(doc, canonical, bundle))
           /\ pc' = "published" /\ code' = code
  <2>1. pc' = "published" /\ code' = code
    BY <1>5
  <2>2. run.loaded = Missing /\ run.explaining = Missing /\ code = "OK"
    BY <1>1 DEF PathInv, RunInv, PlanInv, AdmittedIsSound, TypeOK, TrainingStages
  <2>4. TypeOK'
    BY <1>1, <1>3, <2>1, <2>2 DEF PathInv, AdmittedIsSound, TypeOK, Stages, Held,
       TrainingPlanOK, InferencePlanOK
  <2>5. JoinIsATree' /\ AdmittedHasDeadline'
    BY <2>1 DEF JoinIsATree, AdmittedHasDeadline
  <2>6. RunsOnVerifiedBytes'
    BY <1>1, <2>2 DEF RunsOnVerifiedBytes
  <2>7. DocumentInv'
    <3>1. ParsedArtifacts(Manifest(doc, canonical, bundle).model_artifacts)
      <4> HIDE DEF canonical
      <4> QED
        BY ManifestIsParsed
    <3>2. /\ "model_artifacts" \in DOMAIN published'
          /\ published'.model_artifacts = Manifest(doc, canonical, bundle).model_artifacts
      BY <1>5 DEF TrainedModel
    <3> HIDE DEF canonical
    <3> QED
      BY <1>1, <3>1, <3>2 DEF PathInv, DocumentInv
  <2>8. PlanInv'
    BY <1>1, <2>1, <2>2 DEF PathInv, PlanInv, TrainingStages, InferenceStages
  <2>9. RowsInv'
    BY <1>1, <2>1 DEF PathInv, RowsInv
  <2>10. RunInv'
    BY <1>1, <2>1, <2>2 DEF RunInv, PathInv
  <2> QED
    BY <2>4, <2>5, <2>6, <2>7, <2>8, <2>9, <2>10 DEF PathInv, AdmittedIsSound
<1> QED
  BY <1>2, <1>4, <1>5

\* An inference with the published model.
LEMMA UseModelKeeps ==
  ASSUME PathInv, UseModel
  PROVE  PathInv'
<1>1. /\ pc = "published" /\ op' = "inference" /\ pc' = "compose"
      /\ doc' = [Base["inference"] EXCEPT !.model = Over(published, @)]
      /\ plan' = Null /\ rows' = {}
      /\ edits' = edits /\ code' = code /\ table' = table /\ published' = published
      /\ store' = store /\ tampers' = tampers /\ run' = run /\ results' = results
  BY DEF UseModel
<1>2. run.loaded = Missing /\ run.explaining = Missing /\ code = "OK"
  BY <1>1 DEF PathInv, RunInv, PlanInv, AdmittedIsSound, TypeOK, TrainingStages
<1>4. TypeOK'
  BY <1>1, <1>2 DEF PathInv, AdmittedIsSound, TypeOK, Stages
<1>5. JoinIsATree' /\ AdmittedHasDeadline'
  BY <1>1 DEF JoinIsATree, AdmittedHasDeadline
<1>6. RunsOnVerifiedBytes'
  BY <1>1, <1>2 DEF RunsOnVerifiedBytes
<1>7. DocumentInv'
  <2>1. DOMAIN Base["inference"] = Sections["inference"]
    BY RequestAssumption
  <2>2. "model" \in Sections["inference"]
    BY DEF Sections
  <2> DEFINE old == Base["inference"].model  new == Over(published, old)
  <2>3. DOMAIN doc' = Sections[op'] /\ doc'.model = new
    BY <1>1, <2>1, <2>2
  <2>4. \A s \in Sections[op'] \ {"model"} : doc'[s] \in May(op', s) \cup {Missing}
    <3>1. \A s \in Sections["inference"] \ {"model"} : doc'[s] = Base["inference"][s]
      BY <1>1, <2>1
    <3> QED
      BY <1>1, <3>1 DEF May
  <2>5. ParsedModel(new)
    <3>1. /\ "model_artifacts" \in DOMAIN published
          /\ ParsedArtifacts(published.model_artifacts)
      BY <1>1 DEF PathInv, DocumentInv
    <3>2. new.model_artifacts = published.model_artifacts
      BY <3>1 DEF Over
    <3> HIDE DEF new
    <3> QED
      BY <3>1, <3>2 DEF ParsedModel
  <2> HIDE DEF new
  <2> QED
    BY <1>1, <2>3, <2>4, <2>5 DEF PathInv, DocumentInv
<1>8. PlanInv'
  BY <1>1 DEF PlanInv, TrainingStages, InferenceStages
<1>9. RowsInv'
  BY <1>1 DEF RowsInv
<1>10. RunInv'
  BY <1>1, <1>2 DEF RunInv, PathInv
<1> QED
  BY <1>4, <1>5, <1>6, <1>7, <1>8, <1>9, <1>10 DEF PathInv, AdmittedIsSound

-----------------------------------------------------------------------------
(* Inference: the invariant is kept *)

\* The fields of an inference plan.
LEMMA InferencePlanFields ==
  ASSUME NEW p
  PROVE  /\ DOMAIN InferencePlan(p) = {"columns", "steps", "tensor", "names", "batches"}
         /\ InferencePlan(p).columns = InputColumns(p.input)
         /\ InferencePlan(p).steps = InputSteps(p.input)
         /\ InferencePlan(p).tensor = RequestedColumns(p.input)
         /\ InferencePlan(p).batches = Batches(p, Null, Null)
BY DEF InferencePlan

\* What holds of an inference between two stages that read no rows, when only
\* the stage changes.
LEMMA AdvanceKeeps ==
  ASSUME PathInv, pc \in {"explainer", "normalize"},
         pc' \in {"normalize", "measure"}, code' = code,
         UNCHANGED <<op, doc, edits, table, plan, rows, published, store, tampers, results>>,
         RunInv', RunsOnVerifiedBytes', run'.retries = run.retries
  PROVE  PathInv'
<1>1. /\ op' = op /\ doc' = doc /\ edits' = edits /\ table' = table /\ plan' = plan
      /\ rows' = rows /\ published' = published /\ store' = store /\ tampers' = tampers
      /\ results' = results
  OBVIOUS
<1>2. code = "OK"
  BY DEF PathInv, AdmittedIsSound, TypeOK
<1>3. TypeOK'
  BY <1>1, <1>2 DEF PathInv, AdmittedIsSound, TypeOK, Stages, TrainingPlanOK, InferencePlanOK
<1>4. JoinIsATree' /\ AdmittedHasDeadline'
  BY DEF JoinIsATree, AdmittedHasDeadline
<1>5. DocumentInv'
  BY <1>1 DEF PathInv, DocumentInv
<1>6. PlanInv'
  BY <1>1 DEF PathInv, PlanInv, TrainingStages, InferenceStages, InferencePlanOK
<1>7. RowsInv'
  BY <1>1 DEF RowsInv
<1> QED
  BY <1>3, <1>4, <1>5, <1>6, <1>7 DEF PathInv, AdmittedIsSound

\* The driver plans the inference or refuses it.
LEMMA BuildInferenceKeeps ==
  ASSUME PathInv, BuildInference
  PROVE  PathInv'
<1>1. /\ pc = "build" /\ op = "inference"
      /\ op' = op /\ doc' = doc /\ edits' = edits /\ table' = table /\ rows' = rows
      /\ published' = published /\ store' = store /\ tampers' = tampers /\ run' = run
      /\ results' = results
      /\ IF InferenceCode(doc) = "OK"
         THEN plan' = InferencePlan(doc) /\ pc' = "verify" /\ code' = code
         ELSE Stop(InferenceCode(doc)) /\ plan' = plan
  BY DEF BuildInference
<1>2. CASE InferenceCode(doc) # "OK"
  <2>1. InferenceCode(doc) \in Codes \ {"OK"} /\ Stop(InferenceCode(doc)) /\ plan' = plan
    BY <1>1, <1>2, InferenceCodes
  <2> QED
    BY <1>1, <2>1, StopAlone
<1>3. CASE InferenceCode(doc) = "OK"
  <2>1. plan' = InferencePlan(doc) /\ pc' = "verify" /\ code' = code
    BY <1>1, <1>3
  <2>2. run.loaded = Missing /\ run.explaining = Missing /\ rows = {} /\ code = "OK"
        /\ DocumentInv
    BY <1>1 DEF PathInv, RunInv, PlanInv, AdmittedIsSound, TypeOK
  <2>3. /\ DOMAIN plan'.batches = {"predictor", "sink"}
        /\ plan'.batches.predictor \in Nat \ {0} /\ plan'.batches.sink \in Nat \ {0}
    <3>1. ValidInference(doc)
      BY <1>3, InferenceAccepted
    <3> DEFINE b == Batches(doc, Null, Null)
    <3>2. /\ DOMAIN b = {"predictor", "sink"}
          /\ b.predictor \in Nat \ {0} /\ b.sink \in Nat \ {0}
      BY <3>1, BatchesType
    <3>3. plan'.batches = b
      BY <2>1, InferencePlanFields
    <3> HIDE DEF b
    <3> QED
      BY <3>2, <3>3
  <2>4. ToSet(plan'.tensor) \subseteq plan'.columns
    <3>1. plan'.tensor = RequestedColumns(doc.input) /\ plan'.columns = InputColumns(doc.input)
      BY <2>1, InferencePlanFields
    <3>2. ToSet(RequestedColumns(doc.input)) \subseteq InputColumns(doc.input)
      BY DEF ToSet, RequestedColumns, InputColumns
    <3> QED
      BY <3>1, <3>2
  <2>5. InferencePlanOK'
    BY <2>3, <2>4 DEF InferencePlanOK
  <2>6. TypeOK'
    BY <1>1, <2>1, <2>2, <2>5 DEF PathInv, AdmittedIsSound, TypeOK, Stages
  <2>7. JoinIsATree' /\ AdmittedHasDeadline'
    BY <2>1 DEF JoinIsATree, AdmittedHasDeadline
  <2>8. RunsOnVerifiedBytes'
    BY <1>1, <2>2 DEF RunsOnVerifiedBytes
  <2>9. DocumentInv'
    BY <1>1, <2>1 DEF PathInv, DocumentInv
  <2>10. PlanInv'
    BY <1>1, <1>3, <2>1, <2>3, <2>5, InferencePlanFields DEF PlanInv, TrainingStages, InferenceStages
  <2>11. RowsInv'
    BY <2>1 DEF RowsInv
  <2>12. RunInv'
    BY <1>1, <2>1, <2>2 DEF RunInv, PathInv
  <2> QED
    BY <2>6, <2>7, <2>8, <2>9, <2>10, <2>11, <2>12 DEF PathInv, AdmittedIsSound
<1> QED
  BY <1>2, <1>3

\* The columns in the order of the model are columns that are read.
LEMMA TensorIsRead ==
  ASSUME NEW input, NEW names, ToSet(names) = ResultColumns(input.features)
  PROVE  ToSet(ModelOrder(input, names)) \subseteq InputColumns(input)
<1> DEFINE At1(k) == CHOOSE i \in DOMAIN input.features :
                       input.features[i].result_column = names[k]
<1>1. \A k \in DOMAIN names : At1(k) \in DOMAIN input.features
  <2> TAKE k \in DOMAIN names
  <2>1. names[k] \in ResultColumns(input.features)
    BY DEF ToSet
  <2>2. \E i \in DOMAIN input.features : input.features[i].result_column = names[k]
    BY <2>1 DEF ResultColumns
  <2> QED
    BY <2>2
<1>2. ModelOrder(input, names) = [k \in DOMAIN names |-> input.features[At1(k)].column_name]
  BY DEF ModelOrder
<1> HIDE DEF At1
<1> QED
  BY <1>1, <1>2 DEF ToSet, InputColumns

\* The stored predictor is verified.
LEMMA VerifyKeeps ==
  ASSUME PathInv, Verify
  PROVE  PathInv'
<1> DEFINE verdict == PredictorCode(store, doc)
           chosen  == Chosen(doc)
           names   == ModelNames(store, doc, chosen)
           order   == ModelOrder(doc.input, names)
           inner   == VerifiedCode(store, doc.model, "onnx")
<1>1. /\ pc = "verify"
      /\ op' = op /\ doc' = doc /\ edits' = edits /\ table' = table /\ rows' = rows
      /\ published' = published /\ store' = store /\ tampers' = tampers
      /\ results' = results
      /\ IF verdict # "OK" THEN Stop(verdict) /\ UNCHANGED <<plan, run>>
         ELSE /\ plan' = [plan EXCEPT !.names = names, !.tensor = order]
              /\ run' = [run EXCEPT !.classes = ModelClasses(store, doc, chosen)]
              /\ pc' = "explainer" /\ code' = code
  BY DEF Verify
<1>2. /\ op = "inference" /\ InferenceCode(doc) = "OK" /\ DocumentInv
      /\ DOMAIN plan = {"columns", "steps", "tensor", "names", "batches"}
      /\ plan.columns = InputColumns(doc.input) /\ plan.steps = InputSteps(doc.input)
      /\ DOMAIN plan.batches = {"predictor", "sink"} /\ plan.batches.predictor \in Nat
  BY <1>1, InferencePlanFields DEF PathInv, PlanInv, InferenceStages
<1>3. chosen = Alternative(doc.model.model_artifacts, "onnx")
  BY DEF Chosen
<1>4. /\ Obj(chosen.files) /\ IsList(chosen.files)
      /\ \E i \in DOMAIN chosen.files : WeightFile(chosen) = chosen.files[i]
  BY <1>2, <1>3, AlternativesOf
<1>5. verdict = IF inner # "OK" THEN inner
                ELSE IF ToSet(names) = ResultColumns(doc.input.features) THEN "OK"
                ELSE "MODEL_SCHEMA_MISMATCH"
  BY DEF PredictorCode
<1>6. inner \in Codes
  BY <1>3, <1>4, VerifiedCodes
<1>7. inner = "OK" => names = DeclaredNames(chosen)
  BY <1>3, <1>4, VerifiedNames
<1> HIDE DEF verdict, inner, chosen, names, order
<1>8. CASE verdict # "OK"
  <2>1. verdict \in Codes \ {"OK"} /\ Stop(verdict) /\ plan' = plan /\ run' = run
    BY <1>1, <1>5, <1>6, <1>8 DEF Codes
  <2> QED
    BY <1>1, <2>1, StopAlone
<1>9. CASE verdict = "OK"
  <2>1. /\ plan' = [plan EXCEPT !.names = names, !.tensor = order]
        /\ run' = [run EXCEPT !.classes = ModelClasses(store, doc, chosen)]
        /\ pc' = "explainer" /\ code' = code
        /\ inner = "OK" /\ ToSet(names) = ResultColumns(doc.input.features)
    BY <1>1, <1>5, <1>9
  <2>2. /\ DOMAIN run' = DOMAIN run /\ run'.loaded = run.loaded
        /\ run'.explaining = run.explaining /\ run'.retries = run.retries
    BY <2>1
  <2>3. /\ plan'.names = names /\ plan'.tensor = order
        /\ plan'.columns = plan.columns /\ plan'.steps = plan.steps
        /\ plan'.batches = plan.batches /\ DOMAIN plan' = DOMAIN plan
    BY <1>2, <2>1
  <2>4. run.loaded = Missing /\ run.explaining = Missing /\ code = "OK"
    BY <1>1 DEF PathInv, RunInv, AdmittedIsSound, TypeOK
  <2>5. ToSet(order) \subseteq InputColumns(doc.input)
    BY <2>1, TensorIsRead DEF order
  <2>6. InferencePlanOK'
    <3>1. InferencePlanOK
      BY <1>1 DEF PathInv, PlanInv, InferenceStages
    <3> QED
      BY <1>2, <2>3, <2>5, <3>1 DEF InferencePlanOK
  <2>7. TypeOK'
    BY <1>1, <1>2, <2>1, <2>2, <2>4, <2>6 DEF PathInv, AdmittedIsSound, TypeOK, Stages
  <2>8. JoinIsATree' /\ AdmittedHasDeadline'
    BY <2>1 DEF JoinIsATree, AdmittedHasDeadline
  <2>9. RunsOnVerifiedBytes'
    BY <1>1, <2>2, <2>4 DEF RunsOnVerifiedBytes
  <2>10. DocumentInv'
    BY <1>1, <2>1 DEF PathInv, DocumentInv
  <2>11. PlanInv'
    BY <1>1, <1>2, <1>7, <2>1, <2>3, <2>6, InferencePlanFields
       DEF PlanInv, TrainingStages, InferenceStages, chosen, order
  <2>12. RowsInv'
    BY <2>1 DEF RowsInv
  <2>13. RunInv'
    BY <1>1, <2>1, <2>2, <2>4 DEF RunInv, PathInv
  <2> QED
    BY <2>7, <2>8, <2>9, <2>10, <2>11, <2>12, <2>13 DEF PathInv, AdmittedIsSound
<1> QED
  BY <1>8, <1>9

\* The stored explainer is verified, if there is one to verify.
LEMMA VerifyExplainerKeeps ==
  ASSUME PathInv, VerifyExplainer
  PROVE  PathInv'
<1> DEFINE inner == ExplainerCode(store, doc, plan.names, run.classes)
           verdict == IF Explained(doc) THEN inner ELSE "OK"
           verified == VerifiedCode(store, doc.model, "xgboost")
<1>1. /\ pc = "explainer"
      /\ op' = op /\ doc' = doc /\ edits' = edits /\ table' = table /\ rows' = rows
      /\ plan' = plan /\ run' = run
      /\ published' = published /\ store' = store /\ tampers' = tampers
      /\ results' = results
      /\ IF verdict # "OK" THEN Stop(verdict) ELSE pc' = "normalize" /\ code' = code
  BY DEF VerifyExplainer
<1>2. op = "inference" /\ InferenceCode(doc) = "OK" /\ DocumentInv
  BY <1>1 DEF PathInv, PlanInv, InferenceStages
<1>3. verified \in Codes
  <2>1. LET a == Alternative(doc.model.model_artifacts, "xgboost")
        IN  Obj(a.files) /\ IsList(a.files)
    BY <1>2, AlternativesOf
  <2> QED
    BY <2>1, VerifiedCodes
<1>4. inner \in Codes
  BY <1>3 DEF ExplainerCode, Codes
<1> HIDE DEF inner
<1>5. verdict \in Codes
  BY <1>4 DEF Codes
<1> HIDE DEF verdict
<1>6. CASE verdict # "OK"
  <2>1. verdict \in Codes \ {"OK"} /\ Stop(verdict)
    BY <1>1, <1>5, <1>6
  <2> QED
    BY <1>1, <2>1, StopAlone
<1>7. CASE verdict = "OK"
  <2>1. pc' = "normalize" /\ code' = code
    BY <1>1, <1>7
  <2>2. run.loaded = Missing /\ run.explaining = Missing
    BY <1>1 DEF PathInv, RunInv
  <2>3. RunInv' /\ RunsOnVerifiedBytes'
    BY <1>1, <2>2 DEF PathInv, RunInv, RunsOnVerifiedBytes
  <2> QED
    BY <1>1, <2>1, <2>3, AdvanceKeeps
<1> QED
  BY <1>6, <1>7

\* A native predictor is read again and copied.
LEMMA NormalizeKeeps ==
  ASSUME PathInv, Normalize
  PROVE  PathInv'
<1>1. /\ pc = "normalize"
      /\ op' = op /\ doc' = doc /\ edits' = edits /\ table' = table /\ rows' = rows
      /\ plan' = plan
      /\ published' = published /\ store' = store /\ tampers' = tampers
      /\ results' = results
  BY DEF Normalize
<1>2. run.loaded = Missing /\ run.explaining = Missing /\ RunInv
  BY <1>1 DEF PathInv, RunInv
<1>3. CASE \E c \in {"FAILED", "MODEL_ARTIFACT_CORRUPTED"} : Stop(c) /\ UNCHANGED run
  <2>1. \A c \in {"FAILED", "MODEL_ARTIFACT_CORRUPTED"} : c \in Codes \ {"OK"}
    BY DEF Codes
  <2> QED
    BY <1>1, <1>3, <2>1, StopAlone
<1>4. CASE pc' = "measure" /\ UNCHANGED <<code, run>>
  <2>1. RunInv' /\ RunsOnVerifiedBytes'
    BY <1>1, <1>2, <1>4 DEF RunInv, RunsOnVerifiedBytes
  <2> QED
    BY <1>1, <1>4, <2>1, AdvanceKeeps
<1>5. CASE /\ Unchanged(Chosen(doc))
           /\ run' = [run EXCEPT !.loaded = Weights(Chosen(doc))]
           /\ pc' = "measure" /\ code' = code
  <2>1. /\ DOMAIN run' = DOMAIN run /\ run'.explaining = run.explaining
        /\ run'.retries = run.retries
        /\ run'.loaded = Weights(Chosen(doc))
    BY <1>2, <1>5 DEF RunInv, NoRun
  <2>2. RunInv' /\ RunsOnVerifiedBytes'
    BY <1>1, <1>2, <1>5, <2>1 DEF RunInv, RunsOnVerifiedBytes, Unchanged
  <2> QED
    BY <1>1, <1>5, <2>1, <2>2, AdvanceKeeps
<1> QED
  BY <1>3, <1>4, <1>5 DEF Normalize

\* The input is counted.
LEMMA MeasureKeeps ==
  ASSUME PathInv, Measure
  PROVE  PathInv'
<1> DEFINE verdict == MeasureCode(plan, ColumnTypes)
           count   == Measured(Tables[table], plan)
           batches == Batches(doc, count, Null)
<1>1. /\ pc = "measure"
      /\ op' = op /\ doc' = doc /\ edits' = edits /\ table' = table /\ rows' = rows
      /\ published' = published /\ store' = store /\ tampers' = tampers
      /\ results' = results
      /\ IF verdict # "OK" THEN Stop(verdict) /\ UNCHANGED <<plan, run>>
         ELSE IF count = 0 THEN Stop("EMPTY_INPUT") /\ UNCHANGED <<plan, run>>
         ELSE /\ run' = [run EXCEPT !.count = count]
              /\ plan' = [plan EXCEPT !.batches = batches]
              /\ pc' = "predict" /\ code' = code
  BY DEF Measure
<1>2. verdict \in Codes
  BY DEF MeasureCode, Codes
<1>3. /\ op = "inference" /\ InferenceCode(doc) = "OK" /\ DocumentInv
      /\ DOMAIN plan = {"columns", "steps", "tensor", "names", "batches"}
      /\ plan.steps = InputSteps(doc.input) /\ table \in DOMAIN Tables
      /\ InferencePlanOK
  BY <1>1, InferencePlanFields DEF PathInv, PlanInv, RunInv, InferenceStages
<1>4. count \in Nat
  <2>1. ParsedSelect(doc.input.query.sql)
    BY <1>3, InputIsParsed
  <2>2. /\ IsSteps(plan.steps) /\ DOMAIN plan.steps = 1 .. Len(plan.steps)
        /\ \A i \in DOMAIN plan.steps :
             plan.steps[i].kind = "limit" => plan.steps[i].count \in Nat
    BY <1>3, <2>1, InputStepsType
  <2> QED
    BY <1>3, <2>2, MeasuredType
<1>5. /\ DOMAIN batches = {"predictor", "sink"}
      /\ batches.predictor \in Nat \ {0} /\ batches.sink \in Nat \ {0}
  <2>1. ValidInference(doc)
    BY <1>3, InferenceAccepted
  <2> HIDE DEF count
  <2> QED
    BY <1>4, <2>1, BatchesType
<1> HIDE DEF verdict, count, batches
<1>6. CASE verdict # "OK"
  <2>1. verdict \in Codes \ {"OK"} /\ Stop(verdict) /\ plan' = plan /\ run' = run
    BY <1>1, <1>2, <1>6
  <2> QED
    BY <1>1, <2>1, StopAlone
<1>7. CASE verdict = "OK" /\ count = 0
  <2>1. "EMPTY_INPUT" \in Codes \ {"OK"}
    BY DEF Codes
  <2> QED
    BY <1>1, <1>7, <2>1, StopAlone
<1>8. CASE verdict = "OK" /\ count # 0
  <2>1. /\ run' = [run EXCEPT !.count = count]
        /\ plan' = [plan EXCEPT !.batches = batches]
        /\ pc' = "predict" /\ code' = code
    BY <1>1, <1>8
  <2>2. /\ DOMAIN run' = DOMAIN run /\ run'.loaded = run.loaded
        /\ run'.explaining = run.explaining /\ run'.retries = run.retries
        /\ run'.count = count
    BY <2>1 DEF PathInv, RunInv, NoRun
  <2>3. /\ plan'.names = plan.names /\ plan'.tensor = plan.tensor
        /\ plan'.columns = plan.columns /\ plan'.steps = plan.steps
        /\ plan'.batches = batches /\ DOMAIN plan' = DOMAIN plan
    BY <1>3, <2>1
  <2>4. code = "OK"
    BY <1>1 DEF PathInv, AdmittedIsSound, TypeOK
  <2>5. InferencePlanOK'
    BY <1>3, <1>5, <2>3 DEF InferencePlanOK
  <2>6. TypeOK'
    BY <1>1, <1>3, <2>1, <2>2, <2>4, <2>5 DEF PathInv, AdmittedIsSound, TypeOK, Stages
  <2>7. JoinIsATree' /\ AdmittedHasDeadline'
    BY <2>1 DEF JoinIsATree, AdmittedHasDeadline
  <2>8. RunsOnVerifiedBytes'
    BY <1>1, <2>2 DEF PathInv, RunsOnVerifiedBytes
  <2>9. DocumentInv'
    BY <1>1, <2>1 DEF PathInv, DocumentInv
  <2>10. PlanInv'
    BY <1>1, <1>3, <1>5, <2>1, <2>3, <2>5, InferencePlanFields
       DEF PathInv, PlanInv, TrainingStages, InferenceStages
  <2>11. RowsInv'
    <3>1. Measured(Tables[table], plan') = count
      BY <2>3 DEF Measured, count
    <3> QED
      BY <1>1, <2>1, <2>2, <3>1 DEF RowsInv
  <2>12. RunInv'
    BY <1>1, <2>1, <2>2 DEF RunInv, PathInv
  <2> QED
    BY <2>6, <2>7, <2>8, <2>9, <2>10, <2>11, <2>12 DEF PathInv, AdmittedIsSound
<1> QED
  BY <1>6, <1>7, <1>8

\* The core reads and predicts, or refuses the bytes.
LEMMA PredictKeeps ==
  ASSUME PathInv, Predict
  PROVE  PathInv'
<1> DEFINE changed == Chosen(doc).format = "onnx" /\ ~Unchanged(Chosen(doc))
           loaded == IF Chosen(doc).format = "onnx" THEN Weights(Chosen(doc)) ELSE run.loaded
<1>1. /\ pc = "predict"
      /\ op' = op /\ doc' = doc /\ edits' = edits /\ table' = table /\ plan' = plan
      /\ published' = published /\ store' = store /\ tampers' = tampers
      /\ results' = results
      /\ IF changed THEN Stop("MODEL_LOAD_FAILED") /\ UNCHANGED <<rows, run>>
         ELSE /\ rows' \in Reads(Tables[table], plan.columns, plan.steps)
              /\ run' = [run EXCEPT !.loaded = loaded]
              /\ pc' = "explain" /\ code' = code
  BY DEF Predict
<1>2. CASE changed
  <2>1. "MODEL_LOAD_FAILED" \in Codes \ {"OK"}
    BY DEF Codes
  <2> QED
    BY <1>1, <1>2, <2>1, StopAlone
<1>3. CASE ~changed
  <2>1. /\ rows' \in Reads(Tables[table], plan.columns, plan.steps)
        /\ run' = [run EXCEPT !.loaded = loaded]
        /\ pc' = "explain" /\ code' = code
    BY <1>1, <1>3
  <2>2. loaded # Missing => loaded = WeightFile(Chosen(doc)).hash
    BY <1>3 DEF PathInv, RunsOnVerifiedBytes, Unchanged
  <2> HIDE DEF loaded, changed
  <2>3. /\ DOMAIN run' = DOMAIN run /\ run'.loaded = loaded
        /\ run'.explaining = run.explaining /\ run'.retries = run.retries
        /\ run'.count = run.count
    BY <2>1 DEF PathInv, RunInv, NoRun
  <2>4. code = "OK" /\ pc \in InferenceStages /\ run.explaining = Missing
    BY <1>1 DEF PathInv, AdmittedIsSound, TypeOK, InferenceStages, RunInv
  <2>5. RowsOf(rows', Tables[table])
    BY <2>1, <2>4, InferenceReads
  <2>6. TypeOK'
    BY <1>1, <2>1, <2>3, <2>4, <2>5, RowIds DEF PathInv, AdmittedIsSound, TypeOK, Stages,
       TrainingPlanOK, InferencePlanOK
  <2>7. JoinIsATree' /\ AdmittedHasDeadline'
    BY <2>1 DEF JoinIsATree, AdmittedHasDeadline
  <2>8. RunsOnVerifiedBytes'
    BY <1>1, <2>2, <2>3, <2>4 DEF RunsOnVerifiedBytes
  <2>9. DocumentInv'
    BY <1>1, <2>1 DEF PathInv, DocumentInv
  <2>10. PlanInv'
    BY <1>1, <2>1 DEF PathInv, PlanInv, TrainingStages, InferenceStages, InferencePlanOK
  <2>11. RowsInv'
    BY <1>1, <2>1, <2>3 DEF PathInv, RowsInv
  <2>12. RunInv'
    BY <1>1, <2>1, <2>3, <2>4 DEF RunInv, PathInv
  <2> QED
    BY <2>6, <2>7, <2>8, <2>9, <2>10, <2>11, <2>12 DEF PathInv, AdmittedIsSound
<1> QED
  BY <1>2, <1>3

\* The rows are explained and written, or the bytes that explain are refused.
LEMMA ExplainKeeps ==
  ASSUME PathInv, Explain
  PROVE  PathInv'
<1> DEFINE changed == Explained(doc) /\ ~Unchanged(Native(doc))
           bytes == IF Explained(doc) THEN Weights(Native(doc)) ELSE run.explaining
<1>1. /\ pc = "explain"
      /\ op' = op /\ doc' = doc /\ edits' = edits /\ table' = table /\ plan' = plan
      /\ rows' = rows /\ published' = published /\ store' = store /\ tampers' = tampers
      /\ IF changed THEN Stop("PREDICTION_FAILED") /\ UNCHANGED <<run, results>>
         ELSE /\ run' = [run EXCEPT !.explaining = bytes]
              /\ results' = Results(doc, rows, plan.names, plan.tensor)
              /\ pc' = "written" /\ code' = code
  BY DEF Explain
<1>2. CASE changed
  <2>1. "PREDICTION_FAILED" \in Codes \ {"OK"}
    BY DEF Codes
  <2> QED
    BY <1>1, <1>2, <2>1, StopAlone
<1>3. CASE ~changed
  <2>1. /\ run' = [run EXCEPT !.explaining = bytes]
        /\ results' = Results(doc, rows, plan.names, plan.tensor)
        /\ pc' = "written" /\ code' = code
    BY <1>1, <1>3
  <2>2. bytes # Missing => bytes = WeightFile(Native(doc)).hash
    BY <1>3 DEF PathInv, RunsOnVerifiedBytes, Unchanged
  <2> HIDE DEF bytes, changed
  <2>3. /\ DOMAIN run' = DOMAIN run /\ run'.loaded = run.loaded
        /\ run'.explaining = bytes /\ run'.retries = run.retries
        /\ run'.count = run.count
    BY <2>1 DEF PathInv, RunInv, NoRun
  <2>4. code = "OK"
    BY <1>1 DEF PathInv, AdmittedIsSound, TypeOK
  <2>5. TypeOK'
    BY <1>1, <2>1, <2>3, <2>4 DEF PathInv, AdmittedIsSound, TypeOK, Stages,
       TrainingPlanOK, InferencePlanOK
  <2>6. JoinIsATree' /\ AdmittedHasDeadline'
    BY <2>1 DEF JoinIsATree, AdmittedHasDeadline
  <2>7. RunsOnVerifiedBytes'
    BY <1>1, <2>2, <2>3 DEF PathInv, RunsOnVerifiedBytes
  <2>8. DocumentInv'
    BY <1>1, <2>1 DEF PathInv, DocumentInv
  <2>9. PlanInv'
    BY <1>1, <2>1 DEF PathInv, PlanInv, TrainingStages, InferenceStages, InferencePlanOK
  <2>10. RowsInv'
    BY <1>1, <2>1, <2>3 DEF PathInv, RowsInv
  <2>11. RunInv'
    BY <1>1, <2>1, <2>3 DEF RunInv, PathInv
  <2> QED
    BY <2>5, <2>6, <2>7, <2>8, <2>9, <2>10, <2>11 DEF PathInv, AdmittedIsSound
<1> QED
  BY <1>2, <1>3

\* The batch of a retry: the half of the one before.
LEMMA RetryPlan ==
  ASSUME PathInv, Retry
  PROVE  LET half == plan.batches.predictor \div 2 IN
         /\ half \in Nat \ {0} /\ half < plan.batches.predictor
         /\ plan'.batches = Batches(doc, run.count, half)
         /\ DOMAIN plan'.batches = {"predictor", "sink"}
         /\ plan'.batches.predictor = half /\ plan'.batches.sink \in Nat \ {0}
         /\ DOMAIN plan' = DOMAIN InferencePlan(doc)
         /\ plan'.columns = InputColumns(doc.input) /\ plan'.steps = InputSteps(doc.input)
         /\ plan'.names = plan.names /\ plan'.tensor = plan.tensor
<1> DEFINE before == plan.batches.predictor  half == before \div 2
           batches == Batches(doc, run.count, half)
<1>1. /\ pc \in {"predict", "explain"} /\ before > 1
      /\ plan' = [InferencePlan(doc) EXCEPT
                    !.names = plan.names, !.tensor = plan.tensor, !.batches = batches]
  BY DEF Retry
<1>2. before \in Nat /\ InferenceCode(doc) = "OK" /\ DocumentInv /\ op = "inference"
      /\ plan.steps = InputSteps(doc.input) /\ table \in DOMAIN Tables
      /\ run.count = Measured(Tables[table], plan)
  BY <1>1 DEF PathInv, PlanInv, InferenceStages, RowsInv, RunInv
<1> HIDE DEF before
<1>3. half \in Nat \ {0} /\ half < before
  BY <1>1, <1>2
<1>4. run.count \in Nat
  <2>1. ParsedSelect(doc.input.query.sql)
    BY <1>2, InputIsParsed
  <2>2. /\ IsSteps(plan.steps) /\ DOMAIN plan.steps = 1 .. Len(plan.steps)
        /\ \A i \in DOMAIN plan.steps :
             plan.steps[i].kind = "limit" => plan.steps[i].count \in Nat
    BY <1>2, <2>1, InputStepsType
  <2> QED
    BY <1>2, <2>2, MeasuredType
<1>5. half # Null
  BY <1>3, ValueAssumption
<1> HIDE DEF half
<1>6. /\ DOMAIN batches = {"predictor", "sink"}
      /\ batches.predictor = half /\ batches.sink \in Nat \ {0}
  <2>1. ValidInference(doc)
    BY <1>2, InferenceAccepted
  <2> QED
    BY <1>3, <1>4, <1>5, <2>1, BatchesType
<1> HIDE DEF batches
<1>7. /\ DOMAIN plan' = DOMAIN InferencePlan(doc)
      /\ plan'.columns = InferencePlan(doc).columns /\ plan'.steps = InferencePlan(doc).steps
      /\ plan'.names = plan.names /\ plan'.tensor = plan.tensor /\ plan'.batches = batches
  BY <1>1, InferencePlanFields
<1> QED
  BY <1>3, <1>6, <1>7, InferencePlanFields DEF batches, half, before

\* The attempt ran out of memory and is tried again.
LEMMA RetryKeeps ==
  ASSUME PathInv, Retry
  PROVE  PathInv'
<1>1. /\ pc \in {"predict", "explain"} /\ run.retries < MaxRetries
      /\ run' = [run EXCEPT !.retries = @ + 1]
      /\ pc' = "predict" /\ rows' = {}
      /\ op' = op /\ doc' = doc /\ edits' = edits /\ code' = code /\ table' = table
      /\ published' = published /\ store' = store /\ tampers' = tampers
      /\ results' = results
  BY DEF Retry
<1> DEFINE half == plan.batches.predictor \div 2
<1>2. /\ half \in Nat \ {0}
      /\ DOMAIN plan'.batches = {"predictor", "sink"}
      /\ plan'.batches.predictor = half /\ plan'.batches.sink \in Nat \ {0}
      /\ DOMAIN plan' = DOMAIN InferencePlan(doc)
      /\ plan'.columns = InputColumns(doc.input) /\ plan'.steps = InputSteps(doc.input)
      /\ plan'.names = plan.names /\ plan'.tensor = plan.tensor
  BY RetryPlan
<1> HIDE DEF half
<1>3. /\ op = "inference" /\ InferenceCode(doc) = "OK" /\ InferencePlanOK /\ pc # "verify"
      /\ plan.columns = InputColumns(doc.input) /\ plan.steps = InputSteps(doc.input)
      /\ plan.names = DeclaredNames(Chosen(doc))
      /\ ToSet(plan.names) = ResultColumns(doc.input.features)
      /\ plan.tensor = ModelOrder(doc.input, plan.names)
      /\ run.count = Measured(Tables[table], plan)
  BY <1>1 DEF PathInv, PlanInv, InferenceStages, RowsInv
<1>4. InferencePlanOK'
  BY <1>2, <1>3 DEF InferencePlanOK
<1>5. /\ DOMAIN run' = DOMAIN run /\ run'.loaded = run.loaded
      /\ run'.explaining = run.explaining /\ run'.retries = run.retries + 1
      /\ run'.count = run.count
  BY <1>1 DEF PathInv, RunInv, NoRun
<1>6. code = "OK" /\ run.retries \in 0 .. MaxRetries /\ run.explaining = Missing
  BY <1>1 DEF PathInv, AdmittedIsSound, TypeOK, RunInv
<1>7. TypeOK'
  <2>1. run'.retries \in 0 .. MaxRetries
    BY <1>1, <1>5, <1>6 DEF MaxRetries
  <2> QED
    BY <1>1, <1>3, <1>4, <1>6, <2>1 DEF PathInv, AdmittedIsSound, TypeOK, Stages
<1>8. JoinIsATree' /\ AdmittedHasDeadline'
  BY <1>1 DEF JoinIsATree, AdmittedHasDeadline
<1>9. RunsOnVerifiedBytes'
  BY <1>1, <1>5 DEF PathInv, RunsOnVerifiedBytes
<1>10. DocumentInv'
  BY <1>1 DEF PathInv, DocumentInv
<1>11. PlanInv'
  BY <1>1, <1>2, <1>3, <1>4 DEF PlanInv, TrainingStages, InferenceStages
<1>12. RowsInv'
  <2>1. Measured(Tables[table], plan') = Measured(Tables[table], plan)
    BY <1>2, <1>3 DEF Measured
  <2> QED
    BY <1>1, <1>3, <1>5, <2>1 DEF RowsInv
<1>13. RunInv'
  BY <1>1, <1>5, <1>6 DEF RunInv, PathInv
<1> QED
  BY <1>7, <1>8, <1>9, <1>10, <1>11, <1>12, <1>13 DEF PathInv, AdmittedIsSound

\* Memory ran out for good.
LEMMA GiveUpKeeps ==
  ASSUME PathInv, GiveUp
  PROVE  PathInv'
<1>1. /\ pc \in {"predict", "explain"} /\ Stop("PREDICTION_FAILED")
      /\ UNCHANGED <<op, doc, edits, table, plan, rows, published, store, tampers, run, results>>
  BY DEF GiveUp
<1>2. "PREDICTION_FAILED" \in Codes \ {"OK"}
  BY DEF Codes
<1> QED
  BY <1>1, <1>2, StopAlone

\* Somebody overwrites a stored file, or it is lost.
LEMMA TamperKeeps ==
  ASSUME PathInv, NEW location \in DOMAIN store, NEW content \in Replacements,
         Tamper(location, content)
  PROVE  PathInv'
<1>1. /\ store' = [store EXCEPT ![location] = content] /\ tampers' = tampers + 1
      /\ Budget
      /\ op' = op /\ doc' = doc /\ edits' = edits /\ pc' = pc /\ code' = code
      /\ table' = table /\ plan' = plan /\ rows' = rows /\ published' = published
      /\ prepared' = prepared /\ short' = short /\ run' = run /\ results' = results
  BY DEF Tamper
<1>2. tampers' \in 0 .. MaxChanges
  <2>1. Cardinality(edits) \in Nat
    BY FS_CardinalityType DEF PathInv, DocumentInv
  <2>2. tampers \in 0 .. MaxChanges /\ MaxChanges \in Nat
    BY StorageAssumption DEF PathInv, AdmittedIsSound, TypeOK
  <2>3. Cardinality(edits) + tampers < MaxChanges
    BY <1>1 DEF Budget
  <2> QED
    BY <1>1, <2>1, <2>2, <2>3
<1>3. \A l \in DOMAIN store' : store'[l] \in DOMAIN Contents \cup {Missing, Bad}
  <2>1. content \in Held
    BY StorageAssumption
  <2> QED
    BY <1>1, <2>1 DEF Held, PathInv, AdmittedIsSound, TypeOK
<1>4. TypeOK'
  <2>1. TrainingPlanOK' = TrainingPlanOK /\ InferencePlanOK' = InferencePlanOK
    BY <1>1 DEF TrainingPlanOK, InferencePlanOK
  <2>2. op' \in {"training", "inference"} /\ pc' \in Stages /\ code' \in Codes
        /\ (pc' = "ended" <=> code' # "OK")
    BY <1>1 DEF PathInv, AdmittedIsSound, TypeOK
  <2>3. /\ plan' # Null /\ op' = "training" => TrainingPlanOK'
        /\ plan' # Null /\ op' # "training" => InferencePlanOK'
    BY <1>1, <2>1 DEF PathInv, AdmittedIsSound, TypeOK
  <2>4. rows' # {} => {r.id : r \in rows'} \subseteq {r.id : r \in Tables[table']}
    BY <1>1 DEF PathInv, AdmittedIsSound, TypeOK
  <2>5. run'.retries \in 0 .. MaxRetries
    BY <1>1 DEF PathInv, AdmittedIsSound, TypeOK
  <2> QED
    BY <1>2, <1>3, <2>2, <2>3, <2>4, <2>5 DEF TypeOK
<1>5. JoinIsATree' /\ AdmittedHasDeadline'
  <2>1. Layout' = Layout
    BY <1>1 DEF Layout
  <2>2. JoinIsATree'
    BY <1>1, <2>1 DEF PathInv, AdmittedIsSound, JoinIsATree
  <2>3. AdmittedHasDeadline'
    BY <1>1 DEF PathInv, AdmittedIsSound, AdmittedHasDeadline
  <2> QED
    BY <2>2, <2>3
<1>6. RunsOnVerifiedBytes'
  BY <1>1 DEF PathInv, RunsOnVerifiedBytes
<1>7. DocumentInv'
  BY <1>1 DEF PathInv, DocumentInv
<1>8. PlanInv'
  BY <1>1 DEF PathInv, PlanInv, InferencePlanOK
<1>9. RowsInv'
  BY <1>1 DEF PathInv, RowsInv
<1>10. RunInv'
  BY <1>1 DEF PathInv, RunInv
<1> QED
  BY <1>4, <1>5, <1>6, <1>7, <1>8, <1>9, <1>10 DEF PathInv, AdmittedIsSound

\* A step that changes nothing.
LEMMA StutterKeeps ==
  ASSUME PathInv, UNCHANGED vars
  PROVE  PathInv'
<1>1. /\ op' = op /\ doc' = doc /\ edits' = edits /\ pc' = pc /\ code' = code
      /\ table' = table /\ plan' = plan /\ rows' = rows /\ published' = published
      /\ prepared' = prepared /\ short' = short /\ store' = store /\ tampers' = tampers
      /\ run' = run /\ results' = results
  BY DEF vars
<1>4. TypeOK'
  <2>1. TrainingPlanOK' = TrainingPlanOK /\ InferencePlanOK' = InferencePlanOK
    BY <1>1 DEF TrainingPlanOK, InferencePlanOK
  <2>2. op' \in {"training", "inference"} /\ pc' \in Stages /\ code' \in Codes
        /\ (pc' = "ended" <=> code' # "OK")
    BY <1>1 DEF PathInv, AdmittedIsSound, TypeOK
  <2>3. /\ plan' # Null /\ op' = "training" => TrainingPlanOK'
        /\ plan' # Null /\ op' # "training" => InferencePlanOK'
    BY <1>1, <2>1 DEF PathInv, AdmittedIsSound, TypeOK
  <2>4. rows' # {} => {r.id : r \in rows'} \subseteq {r.id : r \in Tables[table']}
    BY <1>1 DEF PathInv, AdmittedIsSound, TypeOK
  <2>5. run'.retries \in 0 .. MaxRetries
    BY <1>1 DEF PathInv, AdmittedIsSound, TypeOK
  <2>6. /\ tampers' \in 0 .. MaxChanges
        /\ \A l \in DOMAIN store' : store'[l] \in DOMAIN Contents \cup {Missing, Bad}
    BY <1>1 DEF PathInv, AdmittedIsSound, TypeOK
  <2> QED
    BY <2>1, <2>2, <2>3, <2>4, <2>5, <2>6 DEF TypeOK
<1>5. JoinIsATree' /\ AdmittedHasDeadline'
  <2>1. Layout' = Layout
    BY <1>1 DEF Layout
  <2>2. JoinIsATree'
    BY <1>1, <2>1 DEF PathInv, AdmittedIsSound, JoinIsATree
  <2>3. AdmittedHasDeadline'
    BY <1>1 DEF PathInv, AdmittedIsSound, AdmittedHasDeadline
  <2> QED
    BY <2>2, <2>3
<1>6. RunsOnVerifiedBytes'
  BY <1>1 DEF PathInv, RunsOnVerifiedBytes
<1>7. DocumentInv'
  BY <1>1 DEF PathInv, DocumentInv
<1>8. PlanInv'
  BY <1>1 DEF PathInv, PlanInv, InferencePlanOK
<1>9. RowsInv'
  BY <1>1 DEF PathInv, RowsInv
<1>10. RunInv'
  BY <1>1 DEF PathInv, RunInv
<1> QED
  BY <1>4, <1>5, <1>6, <1>7, <1>8, <1>9, <1>10 DEF PathInv, AdmittedIsSound

\* No step leaves the invariant.
LEMMA NextPathInv == PathInv /\ [Next]_vars => PathInv'
<1> SUFFICES ASSUME PathInv, [Next]_vars PROVE PathInv'
  OBVIOUS
<1>1. ASSUME NEW section \in DOMAIN Variants[op], NEW value \in Variants[op][section],
             Edit(section, value)
      PROVE  PathInv'
  BY <1>1, EditKeeps
<1>2. CASE Admit
  BY <1>2, AdmitKeeps
<1>3. CASE BuildTraining \/ Load \/ Prepare \/ Publish \/ UseModel
  BY <1>3, BuildTrainingKeeps, LoadKeeps, PrepareKeeps, PublishKeeps, UseModelKeeps
<1>4. CASE BuildInference \/ Verify \/ VerifyExplainer \/ Normalize
  BY <1>4, BuildInferenceKeeps, VerifyKeeps, VerifyExplainerKeeps, NormalizeKeeps
<1>5. CASE Measure \/ Predict \/ Explain \/ Retry \/ GiveUp
  BY <1>5, MeasureKeeps, PredictKeeps, ExplainKeeps, RetryKeeps, GiveUpKeeps
<1>6. ASSUME NEW location \in DOMAIN store, NEW content \in Replacements,
             Tamper(location, content)
      PROVE  PathInv'
  BY <1>6, TamperKeeps
<1>7. CASE UNCHANGED vars
  BY <1>7, StutterKeeps
<1> QED
  BY <1>1, <1>2, <1>3, <1>4, <1>5, <1>6, <1>7 DEF Next

\* The invariant of the request path.
THEOREM PathInvariant == Spec => []PathInv
BY InitPathInv, NextPathInv, PTL DEF Spec

\* An admitted request joins its tables into a tree, has a deadline the broker
\* accepts, and what is planned of it is what the runtimes accept.
THEOREM AdmittedIsSoundAlways == Spec => []AdmittedIsSound
<1>1. PathInv => AdmittedIsSound
  BY DEF PathInv
<1> QED
  BY <1>1, PathInvariant, PTL

\* The bytes that predict and explain are the declared ones.
THEOREM RunsOnVerifiedBytesAlways == Spec => []RunsOnVerifiedBytes
<1>1. PathInv => RunsOnVerifiedBytes
  BY DEF PathInv
<1> QED
  BY <1>1, PathInvariant, PTL

-----------------------------------------------------------------------------
(* An attempt after one that ran out of memory.                            *)

\* Only a retry counts as one, and the plan of a retry has the half of the
\* batch.
LEMMA NextShrinks ==
  ASSUME PathInv, [Next]_vars, run'.retries > run.retries
  PROVE  plan'.batches.predictor < plan.batches.predictor
<1>1. DOMAIN run = DOMAIN NoRun /\ run.retries \in 0 .. MaxRetries
  BY DEF PathInv, RunInv, AdmittedIsSound, TypeOK
<1>2. DOMAIN run = {"classes", "loaded", "explaining", "count", "retries"}
  BY <1>1 DEF NoRun
<1>3. ~(run'.retries = run.retries)
  BY <1>1 DEF MaxRetries
<1>4. ASSUME NEW section, NEW value, Edit(section, value) PROVE FALSE
  BY <1>3, <1>4 DEF Edit
<1>5. CASE Admit \/ BuildTraining \/ Load \/ Prepare \/ Publish \/ UseModel
  BY <1>3, <1>5 DEF Admit, BuildTraining, Load, Prepare, Publish, UseModel
<1>6. CASE BuildInference \/ VerifyExplainer \/ GiveUp
  BY <1>3, <1>6 DEF BuildInference, VerifyExplainer, GiveUp
<1>7. CASE Verify
  BY <1>2, <1>3, <1>7 DEF Verify
<1>8. CASE Normalize
  BY <1>2, <1>3, <1>8 DEF Normalize
<1>9. CASE Measure
  BY <1>2, <1>3, <1>9 DEF Measure
<1>10. CASE Predict
  BY <1>2, <1>3, <1>10 DEF Predict
<1>11. CASE Explain
  BY <1>2, <1>3, <1>11 DEF Explain
<1>12. CASE Retry
  BY <1>12, RetryPlan
<1>13. ASSUME NEW location, NEW content, Tamper(location, content) PROVE FALSE
  BY <1>3, <1>13 DEF Tamper
<1>14. CASE UNCHANGED vars
  BY <1>3, <1>14 DEF vars
<1> QED
  BY <1>4, <1>5, <1>6, <1>7, <1>8, <1>9, <1>10, <1>11, <1>12, <1>13, <1>14 DEF Next

\* An attempt after one that ran out of memory has a smaller batch.
THEOREM RetriesShrink == Spec => RetryShrinks
<1>1. PathInv /\ [Next]_vars =>
        (run'.retries > run.retries =>
           plan'.batches.predictor < plan.batches.predictor)
  BY NextShrinks
<1> QED
  BY <1>1, PathInvariant, PTL DEF Spec, RetryShrinks

-----------------------------------------------------------------------------
(* What a written row says.                                                *)

\* Features with as many result columns as there are features have each a
\* result column of its own.
LEMMA OneOfEach ==
  ASSUME NEW features, IsList(features),
         Cardinality(ResultColumns(features)) = Len(features)
  PROVE  \A i, j \in DOMAIN features :
           features[i].result_column = features[j].result_column => i = j
<1> DEFINE n == Len(features)
           f == [i \in 1 .. n |-> features[i].result_column]
<1>1. n \in Nat /\ DOMAIN features = 1 .. n
  BY DEF IsList
<1> HIDE DEF n
<1>2. f \in Surjection(1 .. n, ResultColumns(features))
  BY <1>1 DEF Surjection, ResultColumns
<1>3. IsFiniteSet(1 .. n) /\ Cardinality(1 .. n) = n
  BY <1>1, FS_Interval
<1>4. f \in Injection(1 .. n, ResultColumns(features))
  BY <1>2, <1>3, FS_Surjection DEF n
<1> QED
  BY <1>1, <1>4 DEF Injection, IsInjective

\* Code 0 and code 1 are the two classes of a binary model, and they are
\* written as two labels.
LEMMA TwoClasses ==
  ASSUME NEW model, PositiveIndex(model) # Bad
  PROVE  /\ PositiveIndex(model) \in {0, 1}
         /\ LabelText(model, 0) # LabelText(model, 1)
<1> DEFINE mapping == model.label_mapping
           positive == model.positive_label_value
<1>1. NumberOf("0") = 0 /\ NumberOf("1") = 1
  BY NumeralAssumption DEF NumberOf, SmallNumbers
<1>2. CASE Labels(mapping) = {}
  <2>1. LabelText(model, 0) = "0" /\ LabelText(model, 1) = "1"
    BY <1>2, NumeralAssumption DEF LabelText
  <2> QED
    BY <1>1, <1>2, <2>1 DEF PositiveIndex
<1>3. CASE Labels(mapping) # {}
  <2>1. Range(mapping) = {0, 1} /\ Labels(mapping) = DOMAIN mapping
    BY <1>3 DEF PositiveIndex, Labels
  <2>2. PositiveIndex(model) \in {0, 1}
    BY <1>3, <2>1 DEF PositiveIndex, Range
  <2>3. ASSUME NEW c \in {0, 1} PROVE mapping[LabelText(model, c)] = c
    <3>1. PICK l \in Labels(mapping) : mapping[l] = c
      BY <2>1 DEF Range
    <3> QED
      BY <3>1 DEF LabelText
  <2> QED
    BY <2>2, <2>3
<1> QED
  BY <1>2, <1>3

\* The results come from rows that were read.
LEMMA ResultsOfRows ==
  ASSUME PathInv, pc = "written", NEW r \in results
  PROVE  \E row \in rows : r = ResultRow(doc, row, plan.names, plan.tensor)
<1>1. results = Results(doc, rows, plan.names, plan.tensor)
  BY DEF PathInv, RowsInv
<1> QED
  BY <1>1 DEF Results, Kept

\* The scores of the rows that are read are percents.
LEMMA ScoresAreNumbers ==
  ASSUME PathInv, pc = "written", NEW row \in rows
  PROVE  Score[row.id] \in 0 .. 100
<1>1. {r.id : r \in rows} \subseteq {r.id : r \in Tables[table]} /\ table \in DOMAIN Tables
  BY DEF PathInv, AdmittedIsSound, TypeOK, RunInv
<1>2. PICK r \in Tables[table] : r.id = row.id
  BY <1>1
<1> QED
  BY <1>1, <1>2, TableAssumption

\* What the request of an inference in progress has been checked for.
LEMMA InferenceFacts ==
  ASSUME PathInv, pc \in InferenceStages
  PROVE  /\ op = "inference" /\ InferenceCode(doc) = "OK" /\ ValidInference(doc)
         /\ IsBinary(doc.model) => PositiveIndex(doc.model) # Bad
         /\ FilterOK(doc.model, doc.output.result_filter)
         /\ IsList(doc.input.features)
         /\ Cardinality(ResultColumns(doc.input.features)) = Len(doc.input.features)
<1>1. op = "inference" /\ InferenceCode(doc) = "OK" /\ DocumentInv
  BY DEF PathInv, PlanInv
<1>2. ParsedLayout(doc.input)
  BY <1>1, InputIsParsed
<1>3. ValidInference(doc)
  BY <1>1, InferenceAccepted
<1>4. Features(doc.input.features, Aliases(doc.input.tables))
  BY <1>3 DEF ValidInference
<1> QED
  BY <1>1, <1>2, <1>3, <1>4, InferenceAccepted DEF ParsedLayout, Listed, Features

\* The order of the features is the model's.
LEMMA FeatureOrderHolds ==
  ASSUME PathInv
  PROVE  FeatureOrderIsModels
<1> SUFFICES ASSUME pc = "written" PROVE FeatureOrderIsModels
  BY DEF FeatureOrderIsModels
<1> DEFINE names == plan.names  features == doc.input.features
           Declared(k) == {features[i].column_name :
                             i \in {j \in DOMAIN features : features[j].result_column = names[k]}}
<1>1. /\ names = DeclaredNames(Chosen(doc)) /\ ToSet(names) = ResultColumns(features)
      /\ plan.tensor = ModelOrder(doc.input, names)
  BY DEF PathInv, PlanInv, InferenceStages
<1>2. \A i, j \in DOMAIN features :
        features[i].result_column = features[j].result_column => i = j
  BY InferenceFacts, OneOfEach DEF InferenceStages
<1>3. DOMAIN plan.tensor = DOMAIN names
  BY <1>1 DEF ModelOrder
<1>4. ASSUME NEW k \in DOMAIN names PROVE {plan.tensor[k]} = Declared(k)
  <2>1. names[k] \in ResultColumns(features)
    BY <1>1 DEF ToSet
  <2>2. PICK i \in DOMAIN features : features[i].result_column = names[k]
    BY <2>1 DEF ResultColumns
  <2>3. (CHOOSE j \in DOMAIN features : features[j].result_column = names[k]) = i
    BY <1>2, <2>2
  <2>4. plan.tensor[k] = features[i].column_name
    BY <1>1, <2>3 DEF ModelOrder
  <2> QED
    BY <1>2, <2>2, <2>4
<1>5. ASSUME NEW r \in results, NEW k \in DOMAIN names
      PROVE  \E row \in rows : row.id = r.id /\ \E c \in Declared(k) :
               <<names[k], row.cells[c]>> \in r.features
  <2>1. PICK row \in rows : r = ResultRow(doc, row, plan.names, plan.tensor)
    BY ResultsOfRows
  <2>2. row.id = r.id /\ <<names[k], row.cells[plan.tensor[k]]>> \in r.features
    BY <2>1 DEF ResultRow, FeatureValues
  <2>3. plan.tensor[k] \in Declared(k)
    BY <1>4
  <2> QED
    BY <2>2, <2>3
<1> QED
  BY <1>1, <1>3, <1>4, <1>5 DEF FeatureOrderIsModels

\* The positive class is that of the training, in whichever of the two ways
\* the request names it.
LEMMA PositiveHolds ==
  ASSUME PathInv
  PROVE  PositiveIsTheSameClass
<1> SUFFICES ASSUME pc = "verify", IsBinary(doc.model)
             PROVE  PositiveIndex(doc.model) = PositiveCode(doc.model)
  BY DEF PositiveIsTheSameClass
<1>1. PositiveIndex(doc.model) # Bad
  BY InferenceFacts DEF InferenceStages
<1> QED
  BY <1>1 DEF PositiveIndex, PositiveCode, Labels

\* The threshold decides the label.
LEMMA ThresholdHolds ==
  ASSUME PathInv
  PROVE  ThresholdDecides
<1> SUFFICES ASSUME pc = "written", Threshold(doc) # Null, NEW r \in results
             PROVE  r.label = LabelText(doc.model, PositiveIndex(doc.model))
                      <=> r.probability >= Threshold(doc)
  BY DEF ThresholdDecides
<1> DEFINE positive == PositiveIndex(doc.model)
<1>1. IsBinary(doc.model) /\ IsClassification(doc.model) /\ Threshold(doc) \in 0 .. 100
  BY DEF Threshold, IsBinary, IsClassification
<1>2. positive \in {0, 1} /\ LabelText(doc.model, 0) # LabelText(doc.model, 1)
  BY <1>1, InferenceFacts, TwoClasses DEF InferenceStages
<1>3. PICK row \in rows : r = ResultRow(doc, row, plan.names, plan.tensor)
  BY ResultsOfRows
<1>4. /\ r.label = Label(doc, row.id)
      /\ r.probability = Probability(row.id, positive)
  BY <1>1, <1>3 DEF ResultRow
<1>5. Label(doc, row.id)
        = LabelText(doc.model, IF Probability(row.id, positive) >= Threshold(doc)
                               THEN positive ELSE 1 - positive)
  BY DEF Label
<1> HIDE DEF positive
<1>6. CASE r.probability >= Threshold(doc)
  BY <1>4, <1>5, <1>6 DEF positive
<1>7. CASE ~(r.probability >= Threshold(doc))
  <2>1. r.label = LabelText(doc.model, 1 - positive)
    BY <1>4, <1>5, <1>7
  <2>2. LabelText(doc.model, 1 - positive) # LabelText(doc.model, positive)
    <3>1. CASE positive = 0
      BY <1>2, <3>1
    <3>2. CASE positive = 1
      BY <1>2, <3>2
    <3> QED
      BY <1>2, <3>1, <3>2
  <2> QED
    BY <1>7, <2>1, <2>2 DEF positive
<1> QED
  BY <1>6, <1>7

\* The sign of an explanation and the probability speak of one class.
LEMMA SignHolds ==
  ASSUME PathInv
  PROVE  SignMatchesProbability
<1> SUFFICES ASSUME pc = "written", IsBinary(doc.model), Explained(doc), NEW r \in results
             PROVE  r.margin > 0 <=> r.probability > 50
  BY DEF SignMatchesProbability
<1>1. PICK row \in rows : r = ResultRow(doc, row, plan.names, plan.tensor)
  BY ResultsOfRows
<1>2. Score[row.id] \in 0 .. 100
  BY ScoresAreNumbers
<1>3. PositiveIndex(doc.model) \in {0, 1}
  BY InferenceFacts, TwoClasses DEF InferenceStages
<1>4. /\ r.margin = Sign(doc.model) * (Score[row.id] - 50)
      /\ r.probability = Probability(row.id, PositiveIndex(doc.model))
  BY <1>1 DEF ResultRow, Margin
<1>5. CASE PositiveIndex(doc.model) = 0
  <2>1. Sign(doc.model) = -1 /\ Probability(row.id, 0) = 100 - Score[row.id]
    BY <1>5 DEF Sign, Probability
  <2> QED
    BY <1>2, <1>4, <1>5, <2>1
<1>6. CASE PositiveIndex(doc.model) = 1
  <2>1. r.margin = 1 * (Score[row.id] - 50) /\ r.probability = Score[row.id]
    BY <1>4, <1>6 DEF Sign, Probability
  <2> QED
    BY <1>2, <2>1
<1> QED
  BY <1>3, <1>5, <1>6

\* The result filter keeps what it names, and all of it.
LEMMA FilterHolds ==
  ASSUME PathInv
  PROVE  FilterKeepsExactly
<1> SUFFICES ASSUME pc = "written", Given(doc.output.result_filter)
             PROVE  FilterKeepsExactly
  BY DEF FilterKeepsExactly
<1> DEFINE filter == doc.output.result_filter
           Row(row) == ResultRow(doc, row, plan.names, plan.tensor)
<1>1. IsClassification(doc.model)
  BY InferenceFacts DEF InferenceStages, FilterOK
<1>2. \A row \in rows : Row(row).label = Label(doc, row.id) /\ Row(row).id = row.id
  BY <1>1 DEF ResultRow
<1>3. results = {r \in {Row(row) : row \in rows} :
                   r.label \in filter.labels <=> filter.mode = "INCLUDE"}
  BY DEF PathInv, RowsInv, Results, Kept
<1> HIDE DEF filter
<1>4. \A r \in results : r.label \in filter.labels <=> filter.mode = "INCLUDE"
  BY <1>3
<1>5. ASSUME NEW row \in rows,
             Label(doc, row.id) \in filter.labels <=> filter.mode = "INCLUDE"
      PROVE  \E r \in results : r.id = row.id
  <2>1. Row(row) \in results
    BY <1>2, <1>3, <1>5
  <2> QED
    BY <1>2, <2>1
<1> QED
  BY <1>4, <1>5 DEF FilterKeepsExactly, filter

\* A row of the result table says what the model says of that row.
THEOREM ResultsMeanTheModelAlways == Spec => []ResultsMeanTheModel
<1>1. PathInv => ResultsMeanTheModel
  BY FeatureOrderHolds, PositiveHolds, ThresholdHolds, SignHolds, FilterHolds
     DEF ResultsMeanTheModel
<1> QED
  BY <1>1, PathInvariant, PTL

-----------------------------------------------------------------------------
(* What a read answers.                                                    *)

\* The rows that satisfy the first m steps of a read.
KeptBy(from, steps, m) ==
  {r \in from : \A i \in 1 .. m :
     Compare(steps[i].op, r.cells[steps[i].column], steps[i].value)}

Scans(answers, columns) == {Scan(read, columns) : read \in answers}

Limited(kept, limit) == IF limit = Missing THEN {kept} ELSE Picks(kept, limit)

\* A scan of some rows of a table has these rows, with some of their cells.
LEMMA ScanOf ==
  ASSUME NEW t \in DOMAIN Tables, NEW columns, NEW some \in SUBSET Tables[t]
  PROVE  Scan(some, columns)
           = {[id |-> r.id, cells |-> Restrict(r.cells, columns)] : r \in some}
<1>1. \A r \in some : [r EXCEPT !.cells = Restrict(r.cells, columns)]
                        = [id |-> r.id, cells |-> Restrict(r.cells, columns)]
  <2> TAKE r \in some
  <2>1. r = [id |-> r.id, cells |-> r.cells]
    BY TableAssumption
  <2> QED
    BY <2>1
<1> QED
  BY <1>1 DEF Scan

\* A limit of the images of rows keeps the images of a limit of the rows, as
\* long as no two rows have one image.
LEMMA PicksOfImage ==
  ASSUME NEW S, IsFiniteSet(S), NEW f, NEW n \in Nat,
         \A x, y \in S : f[x] = f[y] => x = y
  PROVE  Picks({f[x] : x \in S}, n) = {{f[x] : x \in p} : p \in Picks(S, n)}
<1> DEFINE Image(p) == {f[x] : x \in p}
<1>1. ASSUME NEW p \in SUBSET S
      PROVE  Cardinality(Image(p)) = Cardinality(p)
  <2> DEFINE g == [x \in p |-> f[x]]  made == Image(p)
  <2>1. g \in Bijection(p, made)
    BY DEF Bijection, Injection, Surjection, IsInjective
  <2>2. ExistsBijection(p, made)
    BY <2>1 DEF ExistsBijection
  <2>3. IsFiniteSet(p)
    BY FS_Subset
  <2> HIDE DEF made
  <2>4. Cardinality(made) = Cardinality(p)
    BY <2>2, <2>3, FS_Bijection, Zenon
  <2> QED
    BY <2>4 DEF made
<1>2. CASE Cardinality(S) <= n
  <2>1. Picks(S, n) = {S} /\ Picks(Image(S), n) = {Image(S)}
    BY <1>1, <1>2 DEF Picks
  <2> QED
    BY <2>1
<1>3. CASE ~(Cardinality(S) <= n)
  <2>1. Picks(S, n) = kSubset(n, S) /\ Picks(Image(S), n) = kSubset(n, Image(S))
    BY <1>1, <1>3 DEF Picks
  <2>2. ASSUME NEW p \in kSubset(n, S) PROVE Image(p) \in kSubset(n, Image(S))
    BY <1>1 DEF kSubset
  <2>3. ASSUME NEW made \in kSubset(n, Image(S))
        PROVE  \E p \in kSubset(n, S) : made = Image(p)
    <3> DEFINE p == {x \in S : f[x] \in made}
    <3>1. made \in SUBSET Image(S) /\ Cardinality(made) = n
      BY DEF kSubset
    <3>2. made = Image(p)
      BY <3>1
    <3>3. p \in SUBSET S
      OBVIOUS
    <3> HIDE DEF p, Image
    <3>4. p \in kSubset(n, S)
      BY <1>1, <3>1, <3>2, <3>3 DEF kSubset
    <3> QED
      BY <3>2, <3>4
  <2>4. kSubset(n, Image(S)) = {Image(p) : p \in kSubset(n, S)}
    BY <2>2, <2>3
  <2> QED
    BY <2>1, <2>4
<1> QED
  BY <1>2, <1>3

\* After some filters on columns that are read, the rows of the table that
\* satisfy them are left.
LEMMA FilteredScan ==
  ASSUME NEW t \in DOMAIN Tables, NEW columns, NEW steps, Len(steps) \in Nat,
         NEW n \in 0 .. Len(steps),
         \A i \in 1 .. n : steps[i].kind = "filter" /\ steps[i].column \in columns
  PROVE  After(Tables[t], columns, steps)[n]
           = {Scan(KeptBy(Tables[t], steps, n), columns)}
<1> DEFINE after == After(Tables[t], columns, steps)
           Row(r) == [id |-> r.id, cells |-> Restrict(r.cells, columns)]
           K(m)   == KeptBy(Tables[t], steps, m)
           Wrong  == {m \in 0 .. n : after[m] # {Scan(K(m), columns)}}
<1>1. /\ after[0] = {Scan(Tables[t], columns)}
      /\ \A m \in 1 .. Len(steps) :
           after[m] = UNION {Transform(read, steps[m]) : read \in after[m - 1]}
  BY AfterSteps
<1> HIDE DEF after
<1>2. after[0] = {Scan(K(0), columns)}
  <2>1. K(0) = Tables[t]
    BY DEF KeptBy
  <2> QED
    BY <1>1, <2>1
<1>3. ASSUME NEW m \in 1 .. n, after[m - 1] = {Scan(K(m - 1), columns)}
      PROVE  after[m] = {Scan(K(m), columns)}
  <2> DEFINE step == steps[m]
             Fits(r) == Compare(step.op, r.cells[step.column], step.value)
  <2>1. after[m] = Transform(Scan(K(m - 1), columns), step)
    <3> DEFINE before == Scan(K(m - 1), columns)
    <3> HIDE DEF before
    <3>1. m \in 1 .. Len(steps) /\ after[m - 1] = {before}
      BY <1>3 DEF before
    <3>2. after[m] = UNION {Transform(read, steps[m]) : read \in {before}}
      BY <1>1, <3>1
    <3> QED
      BY <3>2 DEF before
  <2>2. step.kind = "filter" /\ step.column \in columns
    OBVIOUS
  <2>3. after[m] = {{r \in Scan(K(m - 1), columns) : Fits(r)}}
    BY <2>1, <2>2 DEF Transform
  <2>4. /\ Scan(K(m - 1), columns) = {Row(r) : r \in K(m - 1)}
        /\ Scan(K(m), columns) = {Row(r) : r \in K(m)}
    BY ScanOf DEF KeptBy
  <2>5. \A r : Fits(Row(r)) <=> Fits(r)
    <3> TAKE r
    <3>1. Row(r).cells[step.column] = r.cells[step.column]
      BY <2>2 DEF Restrict
    <3> QED
      BY <3>1
  <2>6. K(m) = {r \in K(m - 1) : Fits(r)}
    <3>1. \A r \in Tables[t] : r \in K(m) <=> r \in K(m - 1) /\ Fits(r)
      <4> TAKE r \in Tables[t]
      <4> DEFINE Good(i) == Compare(steps[i].op, r.cells[steps[i].column], steps[i].value)
      <4>1. r \in K(m) <=> \A i \in 1 .. m : Good(i)
        BY DEF KeptBy
      <4>2. r \in K(m - 1) <=> \A i \in 1 .. m - 1 : Good(i)
        BY DEF KeptBy
      <4>3. Fits(r) <=> Good(m)
        OBVIOUS
      <4> HIDE DEF Good, Fits
      <4>4. 1 .. m = (1 .. m - 1) \cup {m}
        OBVIOUS
      <4> QED
        BY <4>1, <4>2, <4>3, <4>4
    <3> QED
      BY <3>1 DEF KeptBy
  <2> HIDE DEF Fits, K, Row
  <2>7. {r \in {Row(x) : x \in K(m - 1)} : Fits(r)} = {Row(x) : x \in {x \in K(m - 1) : Fits(x)}}
    BY <2>5
  <2> QED
    BY <2>3, <2>4, <2>6, <2>7
<1> HIDE DEF K
<1>4. Wrong = {}
  <2> SUFFICES ASSUME Wrong # {} PROVE FALSE
    OBVIOUS
  <2>1. Wrong \in SUBSET Nat
    OBVIOUS
  <2>2. PICK m \in Wrong : \A i \in Wrong : m <= i
    <3> HIDE DEF Wrong
    <3> QED
      BY <2>1, LeastNumber
  <2>3. m # 0
    BY <1>2, <2>2
  <2>4. m - 1 \in 0 .. n /\ m \in 1 .. n /\ m - 1 \notin Wrong
    BY <2>2, <2>3
  <2> QED
    BY <1>3, <2>2, <2>4
<1> QED
  BY <1>4 DEF K, after

\* After filters and a limit, any rows that satisfy the filters may be left,
\* as many as the limit says.
LEMMA ScannedReads ==
  ASSUME NEW t \in DOMAIN Tables, NEW columns, NEW steps, Len(steps) \in Nat,
         NEW n \in 0 .. Len(steps), NEW limit \in Nat \cup {Missing},
         \A i \in 1 .. n : steps[i].kind = "filter" /\ steps[i].column \in columns,
         limit # Missing => n + 1 <= Len(steps) /\ steps[n + 1] = LimitTo(limit)
  PROVE  After(Tables[t], columns, steps)[n + (IF limit = Missing THEN 0 ELSE 1)]
           = Scans(Limited(KeptBy(Tables[t], steps, n), limit), columns)
<1> DEFINE after == After(Tables[t], columns, steps)
           kept  == KeptBy(Tables[t], steps, n)
<1>1. after[n] = {Scan(kept, columns)}
  BY FilteredScan
<1>2. kept \in SUBSET Tables[t] /\ IsFiniteSet(kept)
  BY TableAssumption, FS_Subset DEF KeptBy
<1>3. \A m \in 1 .. Len(steps) :
        after[m] = UNION {Transform(read, steps[m]) : read \in after[m - 1]}
  BY AfterSteps
<1> HIDE DEF after, kept
<1>4. CASE limit = Missing
  <2>1. Limited(kept, limit) = {kept}
    BY <1>4 DEF Limited
  <2> QED
    BY <1>1, <1>4, <2>1 DEF after, kept, Scans
<1>5. CASE limit # Missing
  <2> DEFINE f == [r \in kept |-> [id |-> r.id, cells |-> Restrict(r.cells, columns)]]
  <2>1. limit \in Nat /\ n + 1 \in 1 .. Len(steps) /\ (n + 1) - 1 = n
    BY <1>5
  <2>2. after[n + 1] = Transform(Scan(kept, columns), LimitTo(limit))
    <3> DEFINE before == Scan(kept, columns)
    <3> HIDE DEF before
    <3>1. after[n] = {before} /\ steps[n + 1] = LimitTo(limit)
      BY <1>1, <1>5 DEF before
    <3>2. after[n + 1] = UNION {Transform(read, steps[n + 1]) : read \in {before}}
      BY <1>3, <2>1, <3>1
    <3> QED
      BY <3>1, <3>2 DEF before
  <2>3. after[n + 1] = Picks(Scan(kept, columns), limit)
    BY <2>2 DEF Transform, LimitTo
  <2>4. \A p \in SUBSET kept : Scan(p, columns) = {f[r] : r \in p}
    <3> TAKE p \in SUBSET kept
    <3>1. Scan(p, columns) = {[id |-> r.id, cells |-> Restrict(r.cells, columns)] : r \in p}
      BY <1>2, ScanOf
    <3> QED
      BY <3>1
  <2>5. \A x, y \in kept : f[x] = f[y] => x = y
    <3> TAKE x \in kept, y \in kept
    <3>1. f[x].id = x.id /\ f[y].id = y.id
      OBVIOUS
    <3> QED
      BY <1>2, <3>1, TableAssumption
  <2> HIDE DEF f
  <2>6. Picks({f[r] : r \in kept}, limit) = {{f[r] : r \in p} : p \in Picks(kept, limit)}
    BY <1>2, <2>1, <2>5, PicksOfImage
  <2>7. Picks(kept, limit) \subseteq SUBSET kept
    BY DEF Picks, kSubset
  <2>8. after[n + 1] = {Scan(p, columns) : p \in Picks(kept, limit)}
    BY <2>3, <2>4, <2>6, <2>7
  <2> QED
    BY <1>5, <2>8 DEF Limited, after, kept, Scans
<1> QED
  BY <1>4, <1>5

\* The rows of the table that satisfy a query.
Asked(query, from) ==
  LET q      == query.sql
      params == Params(query)
  IN  {r \in from : \A i \in DOMAIN q.where :
         Compare(q.where[i].op, r.cells[q.where[i].column],
                 QueryScalar(params[q.where[i].param], q.where[i].type))}

\* The rows that satisfy the filters of a read are those that satisfy the
\* WHERE clause they were made from.
LEMMA KeptAsAsked ==
  ASSUME NEW from, NEW query, NEW steps, NEW n \in Nat, DOMAIN query.sql.where = 1 .. n,
         \A i \in 1 .. n :
           LET w == query.sql.where[i]
           IN  steps[i] = Filter(w.column, w.op, QueryScalar(Params(query)[w.param], w.type))
  PROVE  KeptBy(from, steps, n) = Asked(query, from)
<1> DEFINE q == query.sql
           Value(i) == QueryScalar(Params(query)[q.where[i].param], q.where[i].type)
           Fits(i, r) == Compare(q.where[i].op, r.cells[q.where[i].column], Value(i))
<1> HIDE DEF Value
<1>1. \A i \in 1 .. n : /\ steps[i].op = q.where[i].op
                        /\ steps[i].column = q.where[i].column
                        /\ steps[i].value = Value(i)
  <2> TAKE i \in 1 .. n
  <2>1. steps[i] = Filter(q.where[i].column, q.where[i].op, Value(i))
    BY DEF Value
  <2> QED
    BY <2>1 DEF Filter
<1>2. \A r \in from : \A i \in 1 .. n :
        Compare(steps[i].op, r.cells[steps[i].column], steps[i].value) <=> Fits(i, r)
  BY <1>1
<1>3. KeptBy(from, steps, n) = {r \in from : \A i \in 1 .. n : Fits(i, r)}
  <2> HIDE DEF Fits
  <2> QED
    BY <1>2 DEF KeptBy
<1> QED
  BY <1>3 DEF Value, Asked

\* A parameter an inference accepts is the scalar a training makes of it.
LEMMA OneScalar ==
  ASSUME NEW text, NEW type, TypedParameter(text, type) # Bad
  PROVE  TypedParameter(text, type) = QueryScalar(text, type)
<1>1. CASE type = <<"String">>
  <2>1. Unwrapped(type) = "String"
    BY <1>1 DEF Unwrapped, Last
  <2> QED
    BY <1>1, <2>1 DEF TypedParameter, QueryScalar, Width
<1>2. CASE type # <<"String">>
  <2>1. TypedParameter(text, type) = <<"num", NumberOf(text)>> /\ Numeral(text)
        /\ ((Len(type) = 1 /\ type[1] \in DOMAIN Width) \/ type = <<"Float64">>)
    BY <1>2 DEF TypedParameter
  <2>2. Unwrapped(type) \in DOMAIN Width \cup {"Float64"}
    BY <2>1 DEF Unwrapped, Last
  <2>3. QueryScalar(text, type) = <<"num", NumberOf(text)>>
    <3> DEFINE name == Unwrapped(type)
    <3>1. name # "Bool" /\ name \notin {"String", "FixedString"}
      BY <2>2 DEF Width
    <3> HIDE DEF name
    <3> QED
      BY <2>1, <2>2, <3>1 DEF QueryScalar, name
  <2> QED
    BY <2>1, <2>3
<1> QED
  BY <1>1, <1>2

\* Cells under the second names of some pairs, and rows with such cells.
Under(cells, pairs) ==
  [n \in {p[2] : p \in pairs} |-> cells[(CHOOSE p \in pairs : p[2] = n)[1]]]

Answer(some, pairs) == {[id |-> r.id, cells |-> Under(r.cells, pairs)] : r \in some}

\* The answers of a SELECT are its LIMIT of the rows that satisfy it, under
\* the names of its projection.
LEMMA AnswersAre ==
  ASSUME NEW query, NEW from, query.sql.kind = "select"
  PROVE  Answers(query.sql, Params(query), from)
           = {Answer(p, Pairs(query.sql.projection)) :
                p \in Limited(Asked(query, from), query.sql.limit)}
<1> DEFINE q == query.sql
           kept == Asked(query, from)
<1>1. Answers(q, Params(query), from)
        = {Answer(p, Pairs(q.projection)) :
             p \in IF q.limit = Missing THEN {kept} ELSE Picks(kept, q.limit)}
  BY DEF Answers, SelectAnswers, Asked, Answer, Under
<1> HIDE DEF kept
<1> QED
  BY <1>1 DEF Limited, kept

\* An inference reads any rows that satisfy its query, as many as the LIMIT
\* says, from the columns it needs.
LEMMA InputReads ==
  ASSUME NEW t \in DOMAIN Tables, NEW p, ParsedSelect(p.input.query.sql), QueryOK(p.input)
  PROVE  LET columns == InputColumns(p.input)
             steps   == InputSteps(p.input)
             n       == Len(p.input.query.sql.where)
         IN  /\ Reads(Tables[t], columns, steps)
                  = Scans(Limited(Asked(p.input.query, Tables[t]), p.input.query.sql.limit),
                          columns)
             /\ KeptBy(Tables[t], steps, n) = Asked(p.input.query, Tables[t])
<1> DEFINE input   == p.input
           q       == input.query.sql
           params  == Params(input.query)
           columns == InputColumns(input)
           steps   == InputSteps(input)
           n       == Len(q.where)
           Typed(i) == TypedParameter(params[q.where[i].param], q.where[i].type)
           Value(i) == QueryScalar(params[q.where[i].param], q.where[i].type)
<1>1. /\ n \in Nat /\ DOMAIN q.where = 1 .. n
      /\ Len(steps) = n + (IF q.limit = Missing THEN 0 ELSE 1)
      /\ \A i \in 1 .. n : steps[i] = Filter(q.where[i].column, q.where[i].op, Typed(i))
      /\ q.limit # Missing => steps[n + 1] = LimitTo(q.limit)
  BY InputStepsAre
<1>2. \A i \in 1 .. n : Typed(i) # Bad
  BY <1>1 DEF QueryOK
<1>3. \A i \in 1 .. n : Typed(i) = Value(i)
  BY <1>2, OneScalar
<1>4. q.limit \in Nat \cup {Missing}
  BY DEF ParsedSelect
<1>5. \A i \in 1 .. n : q.where[i].column \in columns
  BY <1>1 DEF InputColumns
<1> HIDE DEF steps, Typed, Value, columns, n
<1>6. ASSUME NEW i \in 1 .. n
      PROVE  steps[i].kind = "filter" /\ steps[i].column \in columns
  <2>1. steps[i] = Filter(q.where[i].column, q.where[i].op, Typed(i))
    BY <1>1
  <2> QED
    BY <1>5, <2>1 DEF Filter
<1>7. ASSUME NEW i \in 1 .. n
      PROVE  steps[i] = Filter(q.where[i].column, q.where[i].op, Value(i))
  <2>1. steps[i] = Filter(q.where[i].column, q.where[i].op, Typed(i)) /\ Typed(i) = Value(i)
    BY <1>1, <1>3
  <2> QED
    BY <2>1
<1>8. KeptBy(Tables[t], steps, n) = Asked(input.query, Tables[t])
  <2>1. \A i \in 1 .. n : steps[i] = Filter(q.where[i].column, q.where[i].op, Value(i))
    BY <1>7
  <2> QED
    BY <1>1, <2>1, KeptAsAsked DEF Value
<1>9. /\ Len(steps) \in Nat /\ n \in 0 .. Len(steps)
      /\ q.limit # Missing => n + 1 <= Len(steps) /\ steps[n + 1] = LimitTo(q.limit)
  BY <1>1
<1>10. After(Tables[t], columns, steps)[n + (IF q.limit = Missing THEN 0 ELSE 1)]
         = Scans(Limited(KeptBy(Tables[t], steps, n), q.limit), columns)
  <2> DEFINE limit == q.limit
  <2>1. /\ limit \in Nat \cup {Missing}
        /\ limit # Missing => n + 1 <= Len(steps) /\ steps[n + 1] = LimitTo(limit)
    BY <1>4, <1>9
  <2> HIDE DEF limit
  <2>2. After(Tables[t], columns, steps)[n + (IF limit = Missing THEN 0 ELSE 1)]
          = Scans(Limited(KeptBy(Tables[t], steps, n), limit), columns)
    <3>1. \A i \in 1 .. n : steps[i].kind = "filter" /\ steps[i].column \in columns
      BY <1>6
    <3> QED
      BY <1>9, <2>1, <3>1, ScannedReads
  <2> QED
    BY <2>2 DEF limit
<1>11. Reads(Tables[t], columns, steps)
         = Scans(Limited(Asked(input.query, Tables[t]), q.limit), columns)
  BY <1>1, <1>8, <1>10 DEF Reads
<1> QED
  BY <1>8, <1>11 DEF steps, columns, n

\* A limit of some rows keeps some of them.
LEMMA LimitedRows ==
  ASSUME NEW kept, NEW limit
  PROVE  Limited(kept, limit) \subseteq SUBSET kept
BY DEF Limited, Picks, kSubset

\* What is made of rows with their identities has their identities.
LEMMA SameIds ==
  ASSUME NEW some, NEW f, \A r \in some : f[r].id = r.id
  PROVE  {x.id : x \in {f[r] : r \in some}} = {r.id : r \in some}
OBVIOUS

\* The rows an inference reads are those its query asks for.
LEMMA InferenceReadsTheQuery ==
  ASSUME PathInv, pc = "predict"
  PROVE  Ids(Reads(Tables[table], plan.columns, plan.steps))
           = Ids(Answers(doc.input.query.sql, Params(doc.input.query), Tables[table]))
<1> DEFINE q        == doc.input.query.sql
           some     == Limited(Asked(doc.input.query, Tables[table]), q.limit)
           pairs    == Pairs(q.projection)
           IdsOf(p) == {r.id : r \in p}
<1>1. /\ table \in DOMAIN Tables /\ DocumentInv /\ op = "inference" /\ InferenceCode(doc) = "OK"
      /\ plan.columns = InputColumns(doc.input) /\ plan.steps = InputSteps(doc.input)
  BY DEF PathInv, RunInv, PlanInv, InferenceStages
<1>2. ParsedSelect(q) /\ QueryOK(doc.input)
  BY <1>1, InputIsParsed, InferenceAccepted
<1>3. q.kind = "select"
  BY <1>2 DEF QueryOK
<1>4. some \subseteq SUBSET Tables[table]
  BY LimitedRows DEF Asked
<1>5. Reads(Tables[table], plan.columns, plan.steps) = {Scan(p, plan.columns) : p \in some}
  <2>1. Reads(Tables[table], InputColumns(doc.input), InputSteps(doc.input))
          = Scans(some, InputColumns(doc.input))
    BY <1>1, <1>2, InputReads
  <2> HIDE DEF some
  <2> QED
    BY <1>1, <2>1 DEF Scans
<1>6. Answers(q, Params(doc.input.query), Tables[table])
        = {Answer(p, pairs) : p \in some}
  BY <1>3, AnswersAre
<1> HIDE DEF some, pairs
<1>7. ASSUME NEW p \in some
      PROVE  /\ IdsOf(Scan(p, plan.columns)) = IdsOf(p)
             /\ IdsOf(Answer(p, pairs)) = IdsOf(p)
  <2>1. Scan(p, plan.columns)
          = {[id |-> r.id, cells |-> Restrict(r.cells, plan.columns)] : r \in p}
    BY <1>1, <1>4, ScanOf
  <2> DEFINE f == [r \in p |-> [id |-> r.id, cells |-> Restrict(r.cells, plan.columns)]]
             g == [r \in p |-> [id |-> r.id, cells |-> Under(r.cells, pairs)]]
  <2>2. /\ Scan(p, plan.columns) = {f[r] : r \in p} /\ \A r \in p : f[r].id = r.id
        /\ Answer(p, pairs) = {g[r] : r \in p} /\ \A r \in p : g[r].id = r.id
    BY <2>1 DEF Answer
  <2> HIDE DEF f, g
  <2>3. IdsOf({f[r] : r \in p}) = IdsOf(p) /\ IdsOf({g[r] : r \in p}) = IdsOf(p)
    BY <2>2, SameIds
  <2> QED
    BY <2>2, <2>3
<1> HIDE DEF IdsOf
<1>8. /\ {IdsOf(a) : a \in Reads(Tables[table], plan.columns, plan.steps)}
           = {IdsOf(p) : p \in some}
      /\ {IdsOf(a) : a \in Answers(q, Params(doc.input.query), Tables[table])}
           = {IdsOf(p) : p \in some}
  <2> DEFINE Scanned(p) == Scan(p, plan.columns)
             Told(p) == Answer(p, pairs)
  <2>1. \A p \in some : IdsOf(Scanned(p)) = IdsOf(p) /\ IdsOf(Told(p)) = IdsOf(p)
    BY <1>7
  <2>2. /\ Reads(Tables[table], plan.columns, plan.steps) = {Scanned(p) : p \in some}
        /\ Answers(q, Params(doc.input.query), Tables[table]) = {Told(p) : p \in some}
    BY <1>5, <1>6
  <2> HIDE DEF Read, Told, q
  <2>3. /\ {IdsOf(a) : a \in {Scanned(p) : p \in some}} = {IdsOf(p) : p \in some}
        /\ {IdsOf(a) : a \in {Told(p) : p \in some}} = {IdsOf(p) : p \in some}
    BY <2>1
  <2> QED
    BY <2>2, <2>3 DEF q
<1> QED
  BY <1>8 DEF Ids, IdsOf

\* As many rows are read as were announced.
LEMMA MeasuredHolds ==
  ASSUME PathInv
  PROVE  MeasuredIsRead
<1> SUFFICES ASSUME pc \in {"explain", "written"} PROVE Cardinality(rows) = run.count
  BY DEF MeasuredIsRead
<1> DEFINE q       == doc.input.query.sql
           kept    == Asked(doc.input.query, Tables[table])
           steps   == InputSteps(doc.input)
           columns == InputColumns(doc.input)
           n       == Len(q.where)
<1>1. /\ table \in DOMAIN Tables /\ DocumentInv /\ op = "inference" /\ InferenceCode(doc) = "OK"
      /\ plan.columns = columns /\ plan.steps = steps
      /\ rows \in Reads(Tables[table], plan.columns, plan.steps)
      /\ run.count = Measured(Tables[table], plan)
  BY DEF PathInv, RunInv, PlanInv, InferenceStages, RowsInv
<1>2. ParsedSelect(q) /\ QueryOK(doc.input)
  BY <1>1, InputIsParsed, InferenceAccepted
<1>3. /\ n \in Nat
      /\ Len(steps) = n + (IF q.limit = Missing THEN 0 ELSE 1)
      /\ DOMAIN steps = 1 .. Len(steps)
      /\ \A i \in 1 .. n : steps[i].kind = "filter"
      /\ q.limit # Missing => steps[n + 1] = LimitTo(q.limit)
  <2> DEFINE Value(i) == TypedParameter(Params(doc.input.query)[q.where[i].param],
                                        q.where[i].type)
  <2>1. /\ n \in Nat
        /\ Len(steps) = n + (IF q.limit = Missing THEN 0 ELSE 1)
        /\ DOMAIN steps = 1 .. Len(steps)
        /\ \A i \in 1 .. n : steps[i] = Filter(q.where[i].column, q.where[i].op, Value(i))
        /\ q.limit # Missing => steps[n + 1] = LimitTo(q.limit)
    BY <1>2, InputStepsAre
  <2> HIDE DEF steps, n, Value
  <2>2. ASSUME NEW i \in 1 .. n PROVE steps[i].kind = "filter"
    <3>1. steps[i] = Filter(q.where[i].column, q.where[i].op, Value(i))
      BY <2>1
    <3> QED
      BY <3>1 DEF Filter
  <2> QED
    BY <2>1, <2>2
<1>4. /\ Reads(Tables[table], columns, steps) = Scans(Limited(kept, q.limit), columns)
      /\ KeptBy(Tables[table], steps, n) = kept
  BY <1>1, <1>2, InputReads
<1>5. q.limit \in Nat \cup {Missing}
  BY <1>2 DEF ParsedSelect
<1>6. kept \in SUBSET Tables[table] /\ IsFiniteSet(kept) /\ Cardinality(kept) \in Nat
  BY <1>1, TableAssumption, FS_Subset, FS_CardinalityType DEF Asked
<1>7. ASSUME NEW p \in SUBSET Tables[table]
      PROVE  Cardinality(Scan(p, columns)) = Cardinality(p)
  <2> DEFINE f == [r \in p |-> [id |-> r.id, cells |-> Restrict(r.cells, columns)]]
  <2>1. Scan(p, columns) = {f[r] : r \in p}
    <3>1. Scan(p, columns) = {[id |-> r.id, cells |-> Restrict(r.cells, columns)] : r \in p}
      BY <1>1, ScanOf
    <3> QED
      BY <3>1
  <2>2. RowsOf(p, Tables[table])
    BY <1>1, TableAssumption, FS_Subset DEF RowsOf
  <2>3. \A r \in p : f[r] = [id |-> r.id, cells |-> f[r].cells]
    OBVIOUS
  <2> HIDE DEF f
  <2> QED
    BY <2>1, <2>2, <2>3, CellsOnly
<1>8. PICK p \in Limited(kept, q.limit) : rows = Scan(p, columns)
  BY <1>1, <1>4 DEF Scans
<1>9. p \in SUBSET Tables[table] /\ Cardinality(rows) = Cardinality(p)
  BY <1>6, <1>7, <1>8, LimitedRows
<1>10. {r \in Tables[table] : \A i \in DOMAIN steps : steps[i].kind = "filter" =>
          Compare(steps[i].op, r.cells[steps[i].column], steps[i].value)} = kept
  <2> HIDE DEF steps, kept, n
  <2>1. LimitTo(q.limit).kind # "filter"
    BY DEF LimitTo
  <2>2. \A i \in DOMAIN steps : i \in 1 .. n <=> steps[i].kind = "filter"
    BY <1>3, <2>1
  <2>3. 1 .. n \subseteq DOMAIN steps
    BY <1>3
  <2> QED
    BY <1>4, <2>2, <2>3 DEF KeptBy
<1>11. {steps[i].count : i \in {j \in DOMAIN steps : steps[j].kind = "limit"}}
         = IF q.limit = Missing THEN {} ELSE {q.limit}
  <2> HIDE DEF steps, n
  <2>1. LimitTo(q.limit).kind = "limit" /\ LimitTo(q.limit).count = q.limit
    BY DEF LimitTo
  <2>2. CASE q.limit = Missing
    BY <1>3, <2>2
  <2>3. CASE q.limit # Missing
    <3>1. {j \in DOMAIN steps : steps[j].kind = "limit"} = {n + 1}
      BY <1>3, <2>1, <2>3
    <3> QED
      BY <1>3, <2>1, <2>3, <3>1
  <2> QED
    BY <2>2, <2>3
<1>12. run.count = Min((IF q.limit = Missing THEN {} ELSE {q.limit}) \cup {Cardinality(kept)})
  BY <1>1, <1>10, <1>11 DEF Measured
<1> HIDE DEF kept, steps, columns, n
<1>13. CASE q.limit = Missing
  <2>1. p = kept
    BY <1>8, <1>13 DEF Limited
  <2>2. run.count = Min({Cardinality(kept), Cardinality(kept)})
    BY <1>12, <1>13
  <2> QED
    BY <1>6, <1>9, <2>1, <2>2, TwoNumbers
<1>14. CASE q.limit # Missing
  <2>1. run.count = Min({q.limit, Cardinality(kept)}) /\ q.limit \in Nat
    BY <1>5, <1>12, <1>14
  <2>2. p \in Picks(kept, q.limit)
    BY <1>8, <1>14 DEF Limited
  <2>3. Cardinality(p) = IF Cardinality(kept) <= q.limit THEN Cardinality(kept) ELSE q.limit
    BY <2>2 DEF Picks, kSubset
  <2> QED
    BY <1>6, <1>9, <2>1, <2>3, TwoNumbers
<1> QED
  BY <1>13, <1>14

\* A select of columns that were read leaves a scan of these alone.
LEMMA SelectOfScan ==
  ASSUME NEW t \in DOMAIN Tables, NEW some \in SUBSET Tables[t], NEW columns,
         NEW fewer \in SUBSET columns
  PROVE  Transform(Scan(some, columns), SelectOnly(fewer)) = {Scan(some, fewer)}
<1> DEFINE Row(r, names) == [id |-> r.id, cells |-> Restrict(r.cells, names)]
<1>1. /\ Scan(some, columns) = {Row(r, columns) : r \in some}
      /\ Scan(some, fewer) = {Row(r, fewer) : r \in some}
  BY ScanOf
<1>2. Transform(Scan(some, columns), SelectOnly(fewer))
        = {{[r EXCEPT !.cells = Restrict(@, fewer)] : r \in Scan(some, columns)}}
  BY DEF Transform, SelectOnly
<1>3. ASSUME NEW r \in some
      PROVE  [Row(r, columns) EXCEPT !.cells = Restrict(@, fewer)] = Row(r, fewer)
  <2>1. Restrict(Restrict(r.cells, columns), fewer) = Restrict(r.cells, fewer)
    BY DEF Restrict
  <2> QED
    BY <2>1
<1> HIDE DEF Row
<1>4. {[r EXCEPT !.cells = Restrict(@, fewer)] : r \in {Row(r, columns) : r \in some}}
        = {Row(r, fewer) : r \in some}
  BY <1>3
<1> QED
  BY <1>1, <1>2, <1>4

\* With pairs that are one to one, renaming the first names of cells is
\* looking up each second name's.
LEMMA RenamedCells ==
  ASSUME NEW cells, NEW pairs, OneToOne(pairs)
  PROVE  Renamed(Restrict(cells, Sources(pairs)), pairs) = Under(cells, pairs)
<1> DEFINE sources == Sources(pairs)
           old     == Restrict(cells, sources)
           New(c)  == IF \E p \in pairs : p[1] = c
                      THEN (CHOOSE p \in pairs : p[1] = c)[2] ELSE c
<1>1. DOMAIN old = sources /\ \A c \in sources : old[c] = cells[c]
  BY DEF Restrict
<1>2. Renamed(old, pairs) = [n \in {New(c) : c \in sources} |->
                               old[CHOOSE c \in sources : New(c) = n]]
  BY <1>1 DEF Renamed
<1>3. \A p \in pairs : p[1] \in sources /\ New(p[1]) = p[2]
  <2> TAKE p \in pairs
  <2>1. (CHOOSE o \in pairs : o[1] = p[1])[2] = p[2]
    BY DEF OneToOne
  <2> QED
    BY <2>1 DEF Sources
<1>4. \A c \in sources : \E p \in pairs : p[1] = c
  BY DEF Sources
<1> HIDE DEF New, sources, old
<1>5. {New(c) : c \in sources} = {p[2] : p \in pairs}
  BY <1>3, <1>4
<1>6. ASSUME NEW n \in {p[2] : p \in pairs}
      PROVE  old[CHOOSE c \in sources : New(c) = n]
               = cells[(CHOOSE p \in pairs : p[2] = n)[1]]
  <2> DEFINE c == CHOOSE c \in sources : New(c) = n
             p == CHOOSE p \in pairs : p[2] = n
  <2>1. p \in pairs /\ p[2] = n
    OBVIOUS
  <2>2. c \in sources /\ New(c) = n
    <3>1. \E x \in sources : New(x) = n
      BY <1>3, <2>1
    <3> QED
      BY <3>1
  <2>3. PICK o \in pairs : o[1] = c
    BY <1>4, <2>2
  <2>4. o[2] = n
    BY <1>3, <2>2, <2>3
  <2>5. p[1] = c
    BY <2>1, <2>3, <2>4 DEF OneToOne
  <2> QED
    BY <1>1, <2>2, <2>5
<1> QED
  BY <1>2, <1>5, <1>6 DEF Under, old, sources

\* A rename of scanned rows is an answer under the new names.
LEMMA RenameOfScan ==
  ASSUME NEW t \in DOMAIN Tables, NEW some \in SUBSET Tables[t], NEW pairs, OneToOne(pairs)
  PROVE  Transform(Scan(some, Sources(pairs)), RenameTo(pairs)) = {Answer(some, pairs)}
<1> DEFINE Row(r)  == [id |-> r.id, cells |-> Restrict(r.cells, Sources(pairs))]
           Made(r) == [id |-> r.id, cells |-> Under(r.cells, pairs)]
<1>1. Scan(some, Sources(pairs)) = {Row(r) : r \in some}
  BY ScanOf
<1>2. Transform(Scan(some, Sources(pairs)), RenameTo(pairs))
        = {{[r EXCEPT !.cells = Renamed(@, pairs)] : r \in Scan(some, Sources(pairs))}}
  BY DEF Transform, RenameTo
<1>3. ASSUME NEW r \in some
      PROVE  [Row(r) EXCEPT !.cells = Renamed(@, pairs)] = Made(r)
  <2>1. Renamed(Restrict(r.cells, Sources(pairs)), pairs) = Under(r.cells, pairs)
    BY RenamedCells
  <2> QED
    BY <2>1
<1>4. Answer(some, pairs) = {Made(r) : r \in some}
  BY DEF Answer
<1> HIDE DEF Row, Made
<1>5. {[r EXCEPT !.cells = Renamed(@, pairs)] : r \in {Row(r) : r \in some}}
        = {Made(r) : r \in some}
  BY <1>3
<1> QED
  BY <1>1, <1>2, <1>4, <1>5

\* What a training without class quotas reads is what its query asks for.
LEMMA SelectReads ==
  ASSUME NEW t \in DOMAIN Tables, NEW p, ~Balanced(p), SelectPlannable(p),
         OneToOne(ColumnMapping(p)), ParsedSelect(p.data_query.query.sql)
  PROVE  Reads(Tables[t], ScannedColumns(p), TrainingSteps(p))
           = Answers(p.data_query.query.sql, Params(p.data_query.query), Tables[t])
<1> DEFINE query   == p.data_query.query
           q       == query.sql
           pairs   == ColumnMapping(p)
           columns == ScannedColumns(p)
           steps   == TrainingSteps(p)
           n       == Len(q.where)
           m       == n + (IF q.limit = Missing THEN 0 ELSE 1)
           some    == Limited(Asked(query, Tables[t]), q.limit)
           after   == After(Tables[t], columns, steps)
           Value(i) == QueryScalar(Params(query)[q.where[i].param], q.where[i].type)
<1>1. /\ n \in Nat /\ DOMAIN q.where = 1 .. n
      /\ Len(steps) = IF m = 0 THEN 1 ELSE m + 2
      /\ DOMAIN steps = 1 .. Len(steps)
      /\ \A i \in 1 .. n : steps[i] = Filter(q.where[i].column, q.where[i].op, Value(i))
      /\ q.limit # Missing => steps[n + 1] = LimitTo(q.limit)
      /\ m # 0 => steps[m + 1] = SelectOnly(Sources(pairs))
      /\ steps[Len(steps)] = RenameTo(pairs)
  BY TrainingStepsAre
<1>2. q.kind = "select" /\ Pairs(q.projection) = pairs
  BY DEF SelectPlannable, Projection
<1>3. q.limit \in Nat \cup {Missing}
  BY DEF ParsedSelect
<1>4. columns = Sources(pairs)
                  \cup {steps[i].column : i \in {j \in DOMAIN steps : steps[j].kind = "filter"}}
  BY DEF ScannedColumns
<1> HIDE DEF steps, Value, columns, pairs, q, query, n
<1>5. \A i \in 1 .. n : steps[i].kind = "filter" /\ steps[i].column \in columns
  <2> TAKE i \in 1 .. n
  <2>1. steps[i].kind = "filter"
    <3>1. steps[i] = Filter(q.where[i].column, q.where[i].op, Value(i))
      BY <1>1
    <3> QED
      BY <3>1 DEF Filter
  <2>2. i \in DOMAIN steps
    BY <1>1
  <2> QED
    BY <1>4, <2>1, <2>2
<1>6. KeptBy(Tables[t], steps, n) = Asked(query, Tables[t])
  BY <1>1, KeptAsAsked DEF Value, q
<1>7. /\ Len(steps) \in Nat /\ n \in 0 .. Len(steps) /\ m \in 0 .. Len(steps) - 1
      /\ q.limit # Missing => n + 1 <= Len(steps)
  BY <1>1
<1>8. after[m] = Scans(some, columns)
  <2> DEFINE limit == q.limit
  <2>1. /\ limit \in Nat \cup {Missing}
        /\ limit # Missing => n + 1 <= Len(steps) /\ steps[n + 1] = LimitTo(limit)
    BY <1>1, <1>3, <1>7
  <2> HIDE DEF limit
  <2>2. After(Tables[t], columns, steps)[n + (IF limit = Missing THEN 0 ELSE 1)]
          = Scans(Limited(KeptBy(Tables[t], steps, n), limit), columns)
    BY <1>5, <1>7, <2>1, ScannedReads
  <2> QED
    BY <1>6, <2>2 DEF limit
<1>9. \A k \in 1 .. Len(steps) :
        after[k] = UNION {Transform(read, steps[k]) : read \in after[k - 1]}
  BY <1>7, AfterSteps
<1>10. some \subseteq SUBSET Tables[t]
  BY LimitedRows DEF Asked
<1> HIDE DEF after, some, m
<1>11. after[Len(steps) - 1] = Scans(some, Sources(pairs))
  <2>1. CASE m = 0
    <3>1. columns = Sources(pairs)
      <4>1. Len(steps) = 1 /\ steps[1].kind = "rename"
        BY <1>1, <2>1 DEF RenameTo
      <4>2. {j \in DOMAIN steps : steps[j].kind = "filter"} = {}
        <5>1. DOMAIN steps = 1 .. 1 /\ "rename" # "filter"
          BY <1>1, <4>1
        <5> QED
          BY <4>1, <5>1
      <4> QED
        BY <1>4, <4>2
    <3> QED
      BY <1>1, <1>8, <2>1, <3>1
  <2>2. CASE m # 0
    <3>1. Len(steps) - 1 = m + 1 /\ m + 1 \in 1 .. Len(steps) /\ (m + 1) - 1 = m
          /\ steps[m + 1] = SelectOnly(Sources(pairs))
      BY <1>1, <1>7, <2>2
    <3>2. after[m + 1] = UNION {Transform(read, SelectOnly(Sources(pairs))) :
                                  read \in Scans(some, columns)}
      BY <1>8, <1>9, <3>1
    <3>3. \A x \in some : Transform(Scan(x, columns), SelectOnly(Sources(pairs)))
                            = {Scan(x, Sources(pairs))}
      BY <1>4, <1>10, SelectOfScan
    <3>4. UNION {Transform(read, SelectOnly(Sources(pairs))) : read \in Scans(some, columns)}
            = Scans(some, Sources(pairs))
      BY <3>3 DEF Scans
    <3> QED
      BY <3>1, <3>2, <3>4
  <2> QED
    BY <2>1, <2>2
<1>12. after[Len(steps)] = {Answer(x, pairs) : x \in some}
  <2>1. Len(steps) \in 1 .. Len(steps)
    BY <1>7
  <2>2. after[Len(steps)] = UNION {Transform(read, RenameTo(pairs)) :
                                     read \in Scans(some, Sources(pairs))}
    BY <1>1, <1>9, <1>11, <2>1
  <2>3. \A x \in some : Transform(Scan(x, Sources(pairs)), RenameTo(pairs))
                          = {Answer(x, pairs)}
    BY <1>10, RenameOfScan DEF pairs
  <2>4. UNION {Transform(read, RenameTo(pairs)) : read \in Scans(some, Sources(pairs))}
          = {Answer(x, pairs) : x \in some}
    BY <2>3 DEF Scans
  <2> QED
    BY <2>2, <2>4
<1>13. Answers(q, Params(query), Tables[t]) = {Answer(x, pairs) : x \in some}
  <2>1. Answers(query.sql, Params(query), Tables[t])
          = {Answer(x, Pairs(query.sql.projection)) :
               x \in Limited(Asked(query, Tables[t]), query.sql.limit)}
    BY <1>2, AnswersAre DEF q
  <2> QED
    BY <1>2, <2>1 DEF some, q
<1> QED
  BY <1>12, <1>13 DEF Reads, after, columns, steps, query, q

\* The rows a training or an inference reads are those its query asks for.
LEMMA ReadHolds ==
  ASSUME PathInv
  PROVE  ReadIsTheQuery
<1>1. ASSUME pc = "load", ~Balanced(doc)
      PROVE  Reads(Tables[table], plan.columns, plan.steps)
               = Answers(doc.data_query.query.sql, Params(doc.data_query.query), Tables[table])
  <2>1. /\ op = "training" /\ Plannable(doc) /\ plan = TrainingPlan(doc) /\ DocumentInv
        /\ table \in DOMAIN Tables
    BY <1>1 DEF PathInv, PlanInv, RunInv, TrainingStages
  <2>2. SelectPlannable(doc) /\ OneToOne(ColumnMapping(doc))
    BY <1>1, <2>1 DEF Plannable
  <2>3. ParsedSelect(doc.data_query.query.sql)
    BY <1>1, <2>1, QueryIsParsed
  <2>4. plan.columns = ScannedColumns(doc) /\ plan.steps = TrainingSteps(doc)
    BY <2>1 DEF TrainingPlan
  <2> QED
    BY <1>1, <2>1, <2>2, <2>3, <2>4, SelectReads
<1> QED
  BY <1>1, InferenceReadsTheQuery DEF ReadIsTheQuery

\* A typed scalar is none of the values that stand for the absence of one.
LEMMA ScalarIsGiven ==
  ASSUME NEW text \in STRING, NEW type, QueryScalar(text, type) # Bad
  PROVE  QueryScalar(text, type) # Null
<1> DEFINE name == Unwrapped(type)
           scalars == {"num", "str"} \X (Int \cup STRING)
<1>1. CASE name \in DOMAIN Width \cup {"Float64"} /\ Numeral(text)
  <2>1. NumberOf(text) \in Int
    BY <1>1 DEF NumberOf, Numeral, SmallNumbers
  <2>2. QueryScalar(text, type) = <<"num", NumberOf(text)>>
    <3>1. name # "Bool" /\ name \notin {"String", "FixedString"}
      BY <1>1 DEF Width
    <3> HIDE DEF name
    <3> QED
      BY <1>1, <3>1 DEF QueryScalar, name
  <2>3. <<"num", NumberOf(text)>> \in scalars
    BY <2>1
  <2> QED
    BY <2>2, <2>3, ValueAssumption
<1>2. CASE name = "Bool"
  <2>1. name \notin DOMAIN Width \cup {"Float64"} /\ name \notin {"String", "FixedString"}
    BY <1>2 DEF Width
  <2>2. QueryScalar(text, type) \in {<<"num", 0>>, <<"num", 1>>, Bad}
    <3> HIDE DEF name
    <3> QED
      BY <1>2, <2>1 DEF QueryScalar, name
  <2>3. {<<"num", 0>>, <<"num", 1>>} \subseteq scalars
    OBVIOUS
  <2> QED
    BY <2>2, <2>3, ValueAssumption
<1>3. CASE name \in {"String", "FixedString"}
  <2>1. name \notin DOMAIN Width \cup {"Float64"} /\ name # "Bool"
    BY <1>3 DEF Width
  <2>2. QueryScalar(text, type) = <<"str", text>>
    <3> HIDE DEF name
    <3> QED
      BY <1>3, <2>1 DEF QueryScalar, name
  <2>3. <<"str", text>> \in scalars
    OBVIOUS
  <2> QED
    BY <2>2, <2>3, ValueAssumption
<1>4. CASE /\ ~(name \in DOMAIN Width \cup {"Float64"} /\ Numeral(text))
           /\ name # "Bool" /\ name \notin {"String", "FixedString"}
  <2>1. QueryScalar(text, type) = Bad
    <3> HIDE DEF name
    <3> QED
      BY <1>4 DEF QueryScalar, name
  <2> QED
    BY <2>1
<1> QED
  BY <1>1, <1>2, <1>3, <1>4

\* A training with class quotas reads the whole table under its names.
LEMMA BalancedReads ==
  ASSUME NEW t \in DOMAIN Tables, NEW p, Balanced(p), OneToOne(ColumnMapping(p))
  PROVE  Reads(Tables[t], ScannedColumns(p), TrainingSteps(p))
           = {Answer(Tables[t], ColumnMapping(p))}
<1> DEFINE pairs   == ColumnMapping(p)
           columns == ScannedColumns(p)
           steps   == TrainingSteps(p)
           after   == After(Tables[t], columns, steps)
<1>1. steps = <<RenameTo(pairs)>>
  BY DEF TrainingSteps
<1>2. Len(steps) = 1 /\ DOMAIN steps = 1 .. 1 /\ steps[1] = RenameTo(pairs)
  BY <1>1
<1>3. columns = Sources(pairs)
  <2>1. steps[1].kind # "filter"
    BY <1>2 DEF RenameTo
  <2>2. columns = Sources(pairs)
                    \cup {steps[i].column : i \in {j \in DOMAIN steps : steps[j].kind = "filter"}}
    BY DEF ScannedColumns
  <2> HIDE DEF steps, columns, pairs
  <2>3. {j \in DOMAIN steps : steps[j].kind = "filter"} = {}
    BY <1>2, <2>1
  <2> QED
    BY <2>2, <2>3
<1> HIDE DEF steps, columns
<1>4. /\ after[0] = {Scan(Tables[t], columns)}
      /\ after[1] = UNION {Transform(read, steps[1]) : read \in after[1 - 1]}
  BY <1>2, AfterSteps
<1> HIDE DEF after
<1>5. after[1] = UNION {Transform(read, RenameTo(pairs)) : read \in {Scan(Tables[t], columns)}}
  BY <1>2, <1>4
<1>6. Transform(Scan(Tables[t], columns), RenameTo(pairs)) = {Answer(Tables[t], pairs)}
  <2> HIDE DEF pairs
  <2>1. OneToOne(pairs)
    BY DEF pairs
  <2> QED
    BY <1>3, <2>1, RenameOfScan
<1>7. after[1] = {Answer(Tables[t], pairs)}
  BY <1>5, <1>6
<1> QED
  BY <1>2, <1>7 DEF Reads, after, steps, columns

\* The rows of an answer that have a class are the answer of those that had it
\* before they were renamed.
LEMMA ClassOfAnswer ==
  ASSUME NEW from, NEW pairs, OneToOne(pairs), NEW pair \in pairs, NEW class
  PROVE  OfClass(Answer(from, pairs), pair[2], class)
           = Answer(OfClass(from, pair[1], class), pairs)
<1> DEFINE Made(r) == [id |-> r.id, cells |-> Under(r.cells, pairs)]
<1>1. \A r : Made(r).cells[pair[2]] = r.cells[pair[1]]
  <2> TAKE r
  <2>1. (CHOOSE p \in pairs : p[2] = pair[2])[1] = pair[1]
    BY DEF OneToOne
  <2>2. Under(r.cells, pairs)[pair[2]] = r.cells[pair[1]]
    BY <2>1 DEF Under
  <2> QED
    BY <2>2
<1>2. \A some : Answer(some, pairs) = {Made(r) : r \in some}
  BY DEF Answer
<1> HIDE DEF Made
<1>3. {x \in {Made(r) : r \in from} : x.cells[pair[2]] = class}
        = {Made(r) : r \in {r \in from : r.cells[pair[1]] = class}}
  BY <1>1
<1> QED
  BY <1>2, <1>3 DEF OfClass

\* Any so many rows of an answer are the answer of any so many rows.
LEMMA PicksOfAnswer ==
  ASSUME NEW t \in DOMAIN Tables, NEW kept \in SUBSET Tables[t], NEW pairs, NEW n \in Nat
  PROVE  Picks(Answer(kept, pairs), n) = {Answer(p, pairs) : p \in Picks(kept, n)}
<1> DEFINE f == [r \in kept |-> [id |-> r.id, cells |-> Under(r.cells, pairs)]]
<1>1. IsFiniteSet(kept)
  BY TableAssumption, FS_Subset
<1>2. \A p \in SUBSET kept : Answer(p, pairs) = {f[r] : r \in p}
  BY DEF Answer
<1>3. \A x, y \in kept : f[x] = f[y] => x = y
  <2> TAKE x \in kept, y \in kept
  <2>1. f[x].id = x.id /\ f[y].id = y.id
    OBVIOUS
  <2> QED
    BY <2>1, TableAssumption
<1>4. Picks(kept, n) \subseteq SUBSET kept
  BY DEF Picks, kSubset
<1> HIDE DEF f
<1>5. Picks({f[r] : r \in kept}, n) = {{f[r] : r \in p} : p \in Picks(kept, n)}
  BY <1>1, <1>3, PicksOfImage
<1> QED
  BY <1>2, <1>4, <1>5

\* Sets with one more choice put to each.
With(sets, more) == {s \cup m : s \in sets, m \in more}

\* How choices are put together: those made so far, and one more.
LEMMA CombinedSteps ==
  ASSUME NEW choices, Len(choices) \in Nat
  PROVE  \E upTo : /\ upTo[0] = {{}}
                   /\ \A n \in 1 .. Len(choices) :
                        upTo[n] = With(upTo[n - 1], choices[n])
                   /\ Combined(choices) = upTo[Len(choices)]
<1> DEFINE k == Len(choices)
           first == {{}}
           More(sets, n) == With(sets, choices[n])
           Is(f, m) == f = [n \in 0 .. m |-> IF n = 0 THEN first ELSE More(f[n - 1], n)]
           Without == {m \in 0 .. k : ~ \E f : Is(f, m)}
           made == CHOOSE f : Is(f, k)
<1>1. Combined(choices) = made[k]
  BY DEF Combined, With
<1>2. (\A sets, n : More(sets, n) = With(sets, choices[n])) /\ first = {{}}
  OBVIOUS
<1> HIDE DEF More, first, made
<1>3. Without = {}
  <2> SUFFICES ASSUME Without # {} PROVE FALSE
    OBVIOUS
  <2>1. Without \in SUBSET Nat
    OBVIOUS
  <2>2. PICK m \in Without : \A n \in Without : m <= n
    <3> HIDE DEF Without
    <3> QED
      BY <2>1, LeastNumber
  <2>3. CASE m = 0
    <3> DEFINE f == [n \in 0 .. 0 |-> first]
    <3>1. Is(f, 0)
      OBVIOUS
    <3> QED
      BY <2>3, <3>1
  <2>4. CASE m # 0
    <3>1. m - 1 \in 0 .. k /\ m \in 1 .. k /\ m - 1 \notin Without
      BY <2>2, <2>4
    <3>2. PICK f : Is(f, m - 1)
      BY <3>1
    <3> DEFINE g == [n \in 0 .. m |-> IF n = m THEN More(f[m - 1], m) ELSE f[n]]
    <3>3. \A n \in 0 .. m : g[n] = IF n = 0 THEN first ELSE More(g[n - 1], n)
      <4> TAKE n \in 0 .. m
      <4>1. \A i \in 0 .. m - 1 : f[i] = IF i = 0 THEN first ELSE More(f[i - 1], i)
        BY <3>2
      <4>2. CASE n = m
        BY <4>2, <3>1, <2>4
      <4>3. CASE n # m
        BY <4>3, <4>1, <3>1
      <4> QED
        BY <4>2, <4>3
    <3>4. Is(g, m)
      BY <3>3
    <3> QED
      BY <3>4
  <2> QED
    BY <2>3, <2>4
<1>4. PICK f : Is(f, k)
  BY <1>3
<1>5. Is(made, k)
  BY <1>4 DEF made
<1>6. made[0] = first /\ \A n \in 1 .. k : made[n] = More(made[n - 1], n)
  BY <1>5
<1> QED
  BY <1>1, <1>2, <1>6

\* Choices put together are subsets of what was chosen from.
LEMMA CombinedWithin ==
  ASSUME NEW choices, Len(choices) \in Nat, NEW from,
         \A i \in 1 .. Len(choices) : choices[i] \subseteq SUBSET from
  PROVE  Combined(choices) \subseteq SUBSET from
<1>1. PICK upTo : /\ upTo[0] = {{}}
                  /\ \A n \in 1 .. Len(choices) :
                       upTo[n] = With(upTo[n - 1], choices[n])
                  /\ Combined(choices) = upTo[Len(choices)]
  BY CombinedSteps
<1> DEFINE Wrong == {n \in 0 .. Len(choices) : ~(upTo[n] \subseteq SUBSET from)}
<1>2. Wrong = {}
  <2> SUFFICES ASSUME Wrong # {} PROVE FALSE
    OBVIOUS
  <2>1. Wrong \in SUBSET Nat
    OBVIOUS
  <2>2. PICK m \in Wrong : \A i \in Wrong : m <= i
    <3> HIDE DEF Wrong
    <3> QED
      BY <2>1, LeastNumber
  <2>3. m # 0
    BY <1>1, <2>2
  <2>4. m - 1 \in 0 .. Len(choices) /\ m \in 1 .. Len(choices) /\ m - 1 \notin Wrong
    BY <2>2, <2>3
  <2>5. upTo[m - 1] \subseteq SUBSET from /\ choices[m] \subseteq SUBSET from
    BY <2>4
  <2>6. upTo[m] = With(upTo[m - 1], choices[m])
    BY <1>1, <2>4
  <2>7. upTo[m] \subseteq SUBSET from
    BY <2>5, <2>6 DEF With
  <2> QED
    BY <2>2, <2>7
<1> QED
  BY <1>1, <1>2

\* The parameters of an accepted training query are strings.
LEMMA ParametersAreStrings ==
  ASSUME DocumentInv, op = "training", Plannable(doc),
         NEW n \in DOMAIN Params(doc.data_query.query)
  PROVE  Params(doc.data_query.query)[n] \in STRING
<1> DEFINE query == doc.data_query.query
<1>1. Obj(doc.data_query) /\ Query(query)
  BY DEF Plannable, ValidTraining, DataQuery
<1>2. doc.data_query \in May("training", "data_query")
  <2>1. "data_query" \in Sections[op] \ {"model"}
    BY DEF Sections
  <2> QED
    BY <1>1, <2>1 DEF DocumentInv, Obj
<1>3. ParsedQuery(query)
  BY <1>1, <1>2, RequestAssumption
<1>4. query.params # Missing
  BY DEF Params, Or
<1>5. Params(query) = query.params
  BY <1>4 DEF Params, Or
<1>6. Obj(query) /\ Obj(query.sql) /\ Obj(query.params) /\ Text(query.params[n])
  BY <1>1, <1>4, <1>5 DEF Query, Or, Params, Text
<1> QED
  BY <1>3, <1>5, <1>6 DEF ParsedQuery

\* Where no entity appears twice, every row is kept.
LEMMA AllDistinct ==
  ASSUME NEW some, IsFiniteSet(some), NEW entity, ~HasDuplicates(some, entity)
  PROVE  OnePerEntity(some, entity) = {some}
<1>1. CASE ~Given(entity)
  BY <1>1 DEF OnePerEntity
<1>2. CASE Given(entity)
  <2> DEFINE column == entity.result_column
             values == Values(some, column)
             f == [r \in some |-> r.cells[column]]
  <2>1. f \in Surjection(some, values)
    BY DEF Surjection, Values
  <2>2. IsFiniteSet(values) /\ Cardinality(values) <= Cardinality(some)
    BY <2>1, FS_Surjection
  <2>3. Cardinality(values) \in Nat /\ Cardinality(some) \in Nat
    BY <2>2, FS_CardinalityType
  <2>4. Cardinality(values) = Cardinality(some)
    <3>1. ~(Cardinality(values) < Cardinality(some))
      BY <1>2 DEF HasDuplicates
    <3> HIDE DEF values
    <3> QED
      BY <2>2, <2>3, <3>1
  <2>5. \A kept \in SUBSET some : Cardinality(kept) = Cardinality(some) => kept = some
    <3> TAKE kept \in SUBSET some
    <3>1. /\ kept # some => Cardinality(kept) < Cardinality(some)
          /\ Cardinality(kept) \in Nat
      BY FS_Subset, FS_CardinalityType
    <3> QED
      BY <2>3, <3>1
  <2>6. OnePerEntity(some, entity)
          = {kept \in SUBSET some : /\ Values(kept, column) = values
                                    /\ Cardinality(kept) = Cardinality(values)}
    BY <1>2 DEF OnePerEntity
  <2> QED
    BY <2>4, <2>5, <2>6
<1> QED
  BY <1>1, <1>2

\* A branch of the UNION ALL is the quota of its class, from all the rows.
LEMMA BranchIsItsQuota ==
  ASSUME NEW t \in DOMAIN Tables, NEW p, NEW b, NEW params,
         Branch(b, p, params), ParsedSelect(b), OneToOne(ColumnMapping(p)),
         params[b.where[1].param] \in STRING
  PROVE  LET class == QueryScalar(params[b.where[1].param], b.where[1].type)
         IN  SelectAnswers(b, params, Tables[t])
               = Picks(OfClass(Answer(Tables[t], ColumnMapping(p)),
                               p.target.result_column, class), b.limit)
<1> DEFINE w == b.where[1]
           class == QueryScalar(params[w.param], w.type)
           pairs == ColumnMapping(p)
           pair  == <<p.target.column_name, p.target.result_column>>
           kept  == OfClass(Tables[t], pair[1], class)
<1>1. /\ Len(b.where) = 1 /\ b.limit # Missing /\ w.op = "="
      /\ w.column = p.target.column_name /\ Pairs(b.projection) = pairs
      /\ class # Bad
  BY DEF Branch, Projection
<1>2. b.limit \in Nat /\ DOMAIN b.where = {1}
  <2>1. DOMAIN b.where = 1 .. Len(b.where)
    BY DEF ParsedSelect, IsList
  <2> QED
    BY <1>1, <2>1 DEF ParsedSelect
<1>3. class # Null
  BY <1>1, ScalarIsGiven
<1>4. pair \in pairs
  BY DEF ColumnMapping, Columns
<1> HIDE DEF class, pairs
<1> DEFINE asked ==
             {r \in Tables[t] : \A i \in DOMAIN b.where :
                LET v == QueryScalar(params[b.where[i].param], b.where[i].type)
                IN  Compare(b.where[i].op, r.cells[b.where[i].column], v)}
<1>5. asked = kept
  <2>1. \A r : Compare("=", r.cells[pair[1]], class) <=> r.cells[pair[1]] = class
    BY <1>3 DEF Compare
  <2>2. \A r : (\A i \in DOMAIN b.where :
                  LET v == QueryScalar(params[b.where[i].param], b.where[i].type)
                  IN  Compare(b.where[i].op, r.cells[b.where[i].column], v))
               <=> Compare("=", r.cells[pair[1]], class)
    BY <1>1, <1>2 DEF class
  <2> QED
    BY <2>1, <2>2 DEF OfClass
<1>6. SelectAnswers(b, params, Tables[t]) = {Answer(x, pairs) : x \in Picks(kept, b.limit)}
  <2>1. SelectAnswers(b, params, Tables[t])
          = {Answer(x, Pairs(b.projection)) :
               x \in IF b.limit = Missing THEN {asked} ELSE Picks(asked, b.limit)}
    BY DEF SelectAnswers, Answer, Under
  <2> HIDE DEF asked, kept
  <2> QED
    BY <1>1, <1>5, <2>1
<1> HIDE DEF asked, kept
<1>7. OfClass(Answer(Tables[t], pairs), pair[2], class) = Answer(kept, pairs)
  BY <1>4, ClassOfAnswer DEF pairs, kept
<1>8. Picks(Answer(kept, pairs), b.limit) = {Answer(x, pairs) : x \in Picks(kept, b.limit)}
  <2>1. kept \in SUBSET Tables[t]
    BY DEF kept, OfClass
  <2> QED
    BY <1>2, <2>1, PicksOfAnswer
<1> QED
  BY <1>6, <1>7, <1>8 DEF class, pairs

\* The quotas of a training, taken from all the rows it reads, are the UNION
\* ALL of its query; what they take are rows of that read.
LEMMA QuotasAreTheUnion ==
  ASSUME NEW t \in DOMAIN Tables, DocumentInv, op = "training", Plannable(doc), Balanced(doc)
  PROVE  LET query == doc.data_query.query
             taken == ClassSampled(Answer(Tables[t], ColumnMapping(doc)),
                                   doc.target.result_column, Quotas(doc))
         IN  /\ taken = Answers(query.sql, Params(query), Tables[t])
             /\ taken \subseteq SUBSET Answer(Tables[t], ColumnMapping(doc))
<1> DEFINE query    == doc.data_query.query
           params   == Params(query)
           branches == query.sql.branches
           quotas   == Quotas(doc)
           from     == Answer(Tables[t], ColumnMapping(doc))
           label    == doc.target.result_column
           Taken(i) == Picks(OfClass(from, label, quotas[i][1]), quotas[i][2])
<1>1. /\ SamplerPlannable(doc) /\ OneToOne(ColumnMapping(doc))
      /\ Sampling(doc.data_sampling, doc.algorithm.category)
  BY DEF Plannable, ValidTraining
<1>2. /\ query.sql.kind = "union" /\ Given(Amounts(doc))
      /\ \A i \in DOMAIN branches : Branch(branches[i], doc, params)
      /\ {params[n] : n \in {branches[i].where[1].param : i \in DOMAIN branches}}
           = DOMAIN Amounts(doc)
  BY <1>1 DEF SamplerPlannable
<1>3. IsList(branches) /\ \A i \in DOMAIN branches : ParsedSelect(branches[i])
  BY QueryIsParsed
<1>4. DOMAIN Amounts(doc) # {}
  <2>1. ClassBalance(doc.data_sampling.class_balance, doc.algorithm.category)
    BY <1>1 DEF Sampling, Balanced
  <2> QED
    BY <1>2, <2>1 DEF ClassBalance, Balanced, Amounts
<1>5. /\ DOMAIN quotas = DOMAIN branches
      /\ \A i \in DOMAIN branches :
           quotas[i] = <<QueryScalar(params[branches[i].where[1].param],
                                     branches[i].where[1].type),
                         branches[i].limit>>
  BY DEF Quotas
<1> HIDE DEF quotas, from, branches, params
<1>6. quotas # <<>>
  <2>1. PICK i \in DOMAIN branches : TRUE
    BY <1>2, <1>4
  <2> QED
    BY <1>5, <2>1
<1>7. \A i \in DOMAIN branches : SelectAnswers(branches[i], params, Tables[t]) = Taken(i)
  <2> TAKE i \in DOMAIN branches
  <2>1. Branch(branches[i], doc, params) /\ ParsedSelect(branches[i])
    BY <1>2, <1>3
  <2>2. params[branches[i].where[1].param] \in STRING
    BY <2>1, ParametersAreStrings DEF Branch, params
  <2>3. SelectAnswers(branches[i], params, Tables[t])
          = Picks(OfClass(from, label, QueryScalar(params[branches[i].where[1].param],
                                                   branches[i].where[1].type)),
                  branches[i].limit)
    BY <1>1, <2>1, <2>2, BranchIsItsQuota DEF from
  <2> QED
    BY <1>5, <2>3
<1> DEFINE choices == [i \in DOMAIN quotas |-> Taken(i)]
<1>8. ClassSampled(from, label, quotas) = Combined(choices)
  BY <1>6 DEF ClassSampled
<1>9. Answers(query.sql, params, Tables[t]) = Combined(choices)
  <2>1. [i \in DOMAIN branches |-> SelectAnswers(branches[i], params, Tables[t])] = choices
    BY <1>5, <1>7
  <2>2. Answers(query.sql, params, Tables[t])
          = Combined([i \in DOMAIN branches |-> SelectAnswers(branches[i], params, Tables[t])])
    BY <1>2 DEF Answers, branches
  <2> QED
    BY <2>1, <2>2
<1>10. Len(choices) \in Nat /\ \A i \in 1 .. Len(choices) : choices[i] \subseteq SUBSET from
  <2>1. DOMAIN choices = 1 .. Len(branches) /\ Len(branches) \in Nat
    <3>1. DOMAIN branches = 1 .. Len(branches) /\ Len(branches) \in Nat
      BY <1>3 DEF IsList
    <3> QED
      BY <1>5, <3>1
  <2>2. Len(choices) = Len(branches)
    BY <2>1
  <2>3. \A i \in 1 .. Len(choices) : choices[i] = Taken(i)
    BY <2>1, <2>2
  <2>4. \A i : Taken(i) \subseteq SUBSET from
    BY DEF Picks, OfClass, kSubset
  <2> QED
    BY <2>1, <2>2, <2>3, <2>4
<1>11. Combined(choices) \subseteq SUBSET from
  <2> HIDE DEF choices
  <2> QED
    BY <1>10, CombinedWithin
<1> QED
  BY <1>8, <1>9, <1>11 DEF params, from, quotas

\* The class quotas are the UNION ALL of the query, where no entity is twice.
LEMMA SamplesHold ==
  ASSUME PathInv
  PROVE  SamplesAreTheQuery
<1> DEFINE query    == doc.data_query.query
           entity   == doc.data_query.entity_key
           outcomes == Prepared(rows, doc, plan)
           answers  == Answers(query.sql, Params(query), Tables[table])
           from     == Answer(Tables[table], ColumnMapping(doc))
           taken    == ClassSampled(rows, doc.target.result_column, plan.quotas)
<1> SUFFICES ASSUME pc = "prepare", Balanced(doc), ~HasDuplicates(rows, entity),
                    \A o \in outcomes : o[1]
             PROVE  Ids({o[2] : o \in outcomes}) = Ids(answers)
  BY DEF SamplesAreTheQuery
<1>1. /\ op = "training" /\ Plannable(doc) /\ plan = TrainingPlan(doc) /\ DocumentInv
      /\ table \in DOMAIN Tables /\ rows \in Reads(Tables[table], plan.columns, plan.steps)
  BY DEF PathInv, PlanInv, RunInv, RowsInv, TrainingStages
<1>2. OneToOne(ColumnMapping(doc))
  BY <1>1 DEF Plannable
<1>3. rows = from
  <2>1. plan.columns = ScannedColumns(doc) /\ plan.steps = TrainingSteps(doc)
    BY <1>1 DEF TrainingPlan
  <2> QED
    BY <1>1, <1>2, <2>1, BalancedReads
<1>4. plan.quotas = Quotas(doc)
  BY <1>1 DEF TrainingPlan
<1>5. taken = answers /\ taken \subseteq SUBSET from
  BY <1>1, <1>3, <1>4, QuotasAreTheUnion
<1>6. OnePerEntity(rows, entity) = {rows}
  <2>1. IsFiniteSet(rows)
    <3> DEFINE f == [r \in Tables[table] |->
                       [id |-> r.id, cells |-> Under(r.cells, ColumnMapping(doc))]]
    <3>1. f \in Surjection(Tables[table], from)
      BY DEF Answer, Surjection
    <3>2. IsFiniteSet(Tables[table])
      BY <1>1, TableAssumption
    <3> QED
      BY <1>3, <3>1, <3>2, FS_Surjection
  <2> QED
    BY <2>1, AllDistinct
<1>7. UNION {ClassSampled(d, doc.target.result_column, plan.quotas) :
               d \in OnePerEntity(rows, entity)} = taken
  BY <1>6
<1> HIDE DEF taken, answers, from
<1>8. outcomes = IF IsRegression(doc) THEN {<<TRUE, s>> : s \in taken}
                 ELSE {IF Encodable(s, doc.target, plan.classes)
                       THEN <<TRUE, Encoded(s, doc.target)>> ELSE <<FALSE, {}>> : s \in taken}
  BY <1>7 DEF Prepared
<1>9. \A s \in taken : {r.id : r \in Encoded(s, doc.target)} = {r.id : r \in s}
  <2> TAKE s \in taken
  <2> DEFINE Code(r) == [r EXCEPT !.cells[doc.target.result_column] =
                           <<"num", LabelCode(@, doc.target.label_mapping)>>]
  <2>1. \A r \in s : Code(r).id = r.id
    <3> TAKE r \in s
    <3>1. r \in from
      BY <1>5
    <3>2. "id" \in DOMAIN r
      BY <3>1 DEF from, Answer
    <3> QED
      BY <3>2
  <2>2. Encoded(s, doc.target) = {Code(r) : r \in s}
    BY DEF Encoded
  <2> HIDE DEF Code
  <2> QED
    BY <2>1, <2>2
<1> DEFINE left == {o[2] : o \in outcomes}
<1>10. Ids(answers) = {{r.id : r \in s} : s \in taken}
  BY <1>5 DEF Ids
<1>11. CASE IsRegression(doc)
  <2>1. left = taken
    <3> DEFINE Outcome(s) == <<TRUE, s>>
    <3>1. outcomes = {Outcome(s) : s \in taken}
      BY <1>8, <1>11
    <3>2. \A s \in taken : Outcome(s)[2] = s
      OBVIOUS
    <3> HIDE DEF Outcome, outcomes
    <3> QED
      BY <3>1, <3>2
  <2> HIDE DEF left
  <2>2. Ids(left) = {{r.id : r \in s} : s \in taken}
    BY <2>1 DEF Ids
  <2> QED
    BY <1>10, <2>2 DEF left
<1>12. CASE ~IsRegression(doc)
  <2> DEFINE Outcome(s) == IF Encodable(s, doc.target, plan.classes)
                           THEN <<TRUE, Encoded(s, doc.target)>> ELSE <<FALSE, {}>>
  <2>1. outcomes = {Outcome(s) : s \in taken}
    BY <1>8, <1>12
  <2>2. \A s \in taken : Outcome(s)[2] = Encoded(s, doc.target)
    <3> TAKE s \in taken
    <3>1. Outcome(s)[1]
      BY <2>1
    <3> QED
      BY <3>1
  <2> HIDE DEF Outcome, outcomes
  <2>3. left = {Encoded(s, doc.target) : s \in taken}
    BY <2>1, <2>2
  <2> HIDE DEF left
  <2>4. Ids(left) = {{r.id : r \in Encoded(s, doc.target)} : s \in taken}
    BY <2>3 DEF Ids
  <2>5. {{r.id : r \in Encoded(s, doc.target)} : s \in taken} = {{r.id : r \in s} : s \in taken}
    BY <1>9
  <2> QED
    BY <1>10, <2>4, <2>5 DEF left, outcomes
<1> QED
  BY <1>11, <1>12

\* In every reachable state the rows that are read are those the query of the
\* request asks for, and as many as were announced: Ray's filters before its
\* limit, its class quotas for the UNION ALL, its count for total_rows.
THEOREM ReadsAreTheQueryAlways == Spec => []ReadsAreTheQuery
<1>1. PathInv => ReadsAreTheQuery
  BY ReadHolds, SamplesHold, MeasuredHolds DEF ReadsAreTheQuery
<1> QED
  BY <1>1, PathInvariant, PTL

-----------------------------------------------------------------------------
(* The rows that are fitted.                                               *)

\* A row of the read as it reaches the fit.
FittedAs(x) ==
  IF IsRegression(doc) THEN x
  ELSE [x EXCEPT !.cells[doc.target.result_column] =
          <<"num", LabelCode(@, doc.target.label_mapping)>>]

\* What a training has read are rows of its table under the names of the
\* request: finitely many, each with an identity and a label.
LEMMA TrainingRead ==
  ASSUME PathInv, pc \in {"prepare", "fit"}
  PROVE  /\ op = "training" /\ Plannable(doc) /\ plan = TrainingPlan(doc) /\ DocumentInv
         /\ IsFiniteSet(rows)
         /\ \A r, s \in rows : r.id = s.id => r = s
         /\ \A r \in rows : /\ r = [id |-> r.id, cells |-> r.cells]
                            /\ doc.target.result_column \in DOMAIN r.cells
                            /\ r.cells = [c \in DOMAIN r.cells |-> r.cells[c]]
<1> DEFINE pairs == ColumnMapping(doc)
           query == doc.data_query.query
<1>1. /\ op = "training" /\ Plannable(doc) /\ plan = TrainingPlan(doc) /\ DocumentInv
      /\ table \in DOMAIN Tables /\ rows \in Reads(Tables[table], plan.columns, plan.steps)
  BY DEF PathInv, PlanInv, RunInv, RowsInv, TrainingStages
<1>2. OneToOne(pairs) /\ plan.columns = ScannedColumns(doc) /\ plan.steps = TrainingSteps(doc)
  BY <1>1 DEF Plannable, TrainingPlan
<1>3. PICK some \in SUBSET Tables[table] : rows = Answer(some, pairs)
  <2>1. CASE Balanced(doc)
    <3>1. rows = Answer(Tables[table], pairs)
      BY <1>1, <1>2, <2>1, BalancedReads
    <3> QED
      BY <3>1
  <2>2. CASE ~Balanced(doc)
    <3>1. SelectPlannable(doc) /\ ParsedSelect(query.sql)
      BY <1>1, <2>2, QueryIsParsed DEF Plannable
    <3>2. query.sql.kind = "select" /\ Pairs(query.sql.projection) = pairs
      BY <3>1 DEF SelectPlannable, Projection
    <3> DEFINE kept == Limited(Asked(query, Tables[table]), query.sql.limit)
    <3>3. Reads(Tables[table], plan.columns, plan.steps)
            = Answers(query.sql, Params(query), Tables[table])
      BY <1>1, <1>2, <2>2, <3>1, SelectReads
    <3>4. Answers(query.sql, Params(query), Tables[table])
            = {Answer(p, Pairs(query.sql.projection)) : p \in kept}
      BY <3>2, AnswersAre
    <3>5. kept \subseteq SUBSET Tables[table]
      BY LimitedRows DEF Asked
    <3> HIDE DEF kept, pairs
    <3> QED
      BY <1>1, <3>2, <3>3, <3>4, <3>5
  <2> QED
    BY <2>1, <2>2
<1> DEFINE Made(r) == [id |-> r.id, cells |-> Under(r.cells, pairs)]
           f == [r \in some |-> Made(r)]
<1>4. rows = {Made(r) : r \in some}
  BY <1>3 DEF Answer
<1>5. IsFiniteSet(some) /\ \A r, s \in some : r.id = s.id => r = s
  BY <1>1, TableAssumption, FS_Subset
<1>6. IsFiniteSet(rows)
  <2>1. f \in Surjection(some, rows)
    BY <1>4 DEF Surjection
  <2> QED
    BY <1>5, <2>1, FS_Surjection
<1>7. \A r, s \in rows : r.id = s.id => r = s
  <2>1. \A r : Made(r).id = r.id
    OBVIOUS
  <2> HIDE DEF Made
  <2> QED
    BY <1>4, <1>5, <2>1
<1>8. ASSUME NEW r \in rows
      PROVE  /\ r = [id |-> r.id, cells |-> r.cells]
             /\ doc.target.result_column \in DOMAIN r.cells
             /\ r.cells = [c \in DOMAIN r.cells |-> r.cells[c]]
  <2>1. PICK raw \in some : r = Made(raw)
    BY <1>4
  <2>2. <<doc.target.column_name, doc.target.result_column>> \in pairs
    BY DEF ColumnMapping, Columns
  <2>3. r.cells = Under(raw.cells, pairs)
    BY <2>1
  <2> HIDE DEF pairs
  <2>4. /\ DOMAIN r.cells = {p[2] : p \in pairs}
        /\ r.cells = [c \in DOMAIN r.cells |-> r.cells[c]]
    BY <2>3 DEF Under
  <2>5. <<doc.target.column_name, doc.target.result_column>>[2] \in {p[2] : p \in pairs}
    BY <2>2
  <2> QED
    BY <2>1, <2>4, <2>5
<1> QED
  BY <1>1, <1>6, <1>7, <1>8

\* A fitted row has the identity of the row it was read as, and its label's code.
LEMMA FittedIs ==
  ASSUME PathInv, pc = "fit", NEW x \in rows
  PROVE  LET label == doc.target.result_column
         IN  /\ Raw(FittedAs(x)) = x /\ RawLabel(FittedAs(x)) = x.cells[label]
             /\ ~IsRegression(doc) =>
                  FittedAs(x).cells[label]
                    = <<"num", LabelCode(x.cells[label], doc.target.label_mapping)>>
<1> DEFINE label == doc.target.result_column
<1>1. /\ \A r, s \in rows : r.id = s.id => r = s
      /\ x = [id |-> x.id, cells |-> x.cells] /\ label \in DOMAIN x.cells
      /\ x.cells = [c \in DOMAIN x.cells |-> x.cells[c]]
  BY TrainingRead
<1>2. FittedAs(x).id = x.id
  BY <1>1 DEF FittedAs
<1>3. Raw(FittedAs(x)) = x
  BY <1>1, <1>2 DEF Raw
<1>4. ASSUME ~IsRegression(doc)
      PROVE  FittedAs(x).cells[label]
               = <<"num", LabelCode(x.cells[label], doc.target.label_mapping)>>
  BY <1>1, <1>4 DEF FittedAs
<1> QED
  BY <1>3, <1>4 DEF RawLabel

\* The quotas of a plan: a list of classes with their numbers.
LEMMA QuotasAre ==
  ASSUME PathInv, pc \in {"prepare", "fit"}
  PROVE  /\ Len(plan.quotas) \in Nat /\ DOMAIN plan.quotas = 1 .. Len(plan.quotas)
         /\ \A i \in DOMAIN plan.quotas : plan.quotas[i][2] \in Nat
<1>1. op = "training" /\ Plannable(doc) /\ plan = TrainingPlan(doc) /\ DocumentInv
  BY TrainingRead
<1>2. CASE ~Balanced(doc)
  <2>1. plan.quotas = <<>>
    BY <1>1, <1>2 DEF TrainingPlan
  <2> QED
    BY <2>1
<1>3. CASE Balanced(doc)
  <2> DEFINE branches == doc.data_query.query.sql.branches
  <2>1. plan.quotas = Quotas(doc)
    BY <1>1, <1>3 DEF TrainingPlan
  <2>2. /\ DOMAIN plan.quotas = DOMAIN branches
        /\ \A i \in DOMAIN branches : plan.quotas[i][2] = branches[i].limit
    <3> DEFINE Class(b) == LET params == Params(doc.data_query.query)
                           IN  QueryScalar(params[b.where[1].param], b.where[1].type)
    <3>1. plan.quotas = [i \in DOMAIN branches |-> <<Class(branches[i]), branches[i].limit>>]
      BY <2>1 DEF Quotas
    <3> HIDE DEF Class, branches
    <3> QED
      BY <3>1
  <2>3. IsList(branches) /\ \A i \in DOMAIN branches : ParsedSelect(branches[i])
    BY <1>1, <1>3, QueryIsParsed
  <2>4. \A i \in DOMAIN branches : branches[i].limit # Missing
    BY <1>1, <1>3 DEF Plannable, SamplerPlannable, Branch
  <2>5. DOMAIN branches = 1 .. Len(branches) /\ Len(branches) \in Nat
    BY <2>3 DEF IsList
  <2>6. Len(plan.quotas) = Len(branches)
    <3>1. DOMAIN plan.quotas = 1 .. Len(branches)
      BY <2>2, <2>5
    <3>2. plan.quotas = [i \in DOMAIN plan.quotas |-> plan.quotas[i]]
      BY <2>1 DEF Quotas
    <3> QED
      BY <2>5, <3>1, <3>2
  <2> QED
    BY <2>2, <2>3, <2>4, <2>5, <2>6 DEF ParsedSelect
<1> QED
  BY <1>2, <1>3

\* A combination holds one of the sets of each choice, and nothing else.
LEMMA CombinedHas ==
  ASSUME NEW choices, Len(choices) \in Nat, NEW c \in Combined(choices)
  PROVE  \E pick : /\ \A i \in 1 .. Len(choices) : pick[i] \in choices[i]
                   /\ \A x : x \in c <=> \E i \in 1 .. Len(choices) : x \in pick[i]
<1>1. PICK upTo : /\ upTo[0] = {{}}
                  /\ \A n \in 1 .. Len(choices) :
                       upTo[n] = With(upTo[n - 1], choices[n])
                  /\ Combined(choices) = upTo[Len(choices)]
  BY CombinedSteps
<1> DEFINE Holds(pick, s, n) ==
             /\ \A i \in 1 .. n : pick[i] \in choices[i]
             /\ \A x : x \in s <=> \E i \in 1 .. n : x \in pick[i]
           Wrong == {n \in 0 .. Len(choices) : \E s \in upTo[n] : \A pick : ~Holds(pick, s, n)}
<1>2. 0 \notin Wrong
  <2>1. \A pick : Holds(pick, {}, 0)
    OBVIOUS
  <2> QED
    BY <1>1, <2>1
<1>3. ASSUME NEW n \in 1 .. Len(choices), n - 1 \notin Wrong
      PROVE  n \notin Wrong
  <2> SUFFICES ASSUME NEW s \in upTo[n] PROVE \E pick : Holds(pick, s, n)
    OBVIOUS
  <2>1. s \in With(upTo[n - 1], choices[n])
    BY <1>1
  <2>2. PICK before \in upTo[n - 1], more \in choices[n] : s = before \cup more
    BY <2>1 DEF With
  <2>3. PICK old : Holds(old, before, n - 1)
    BY <1>3
  <2> DEFINE pick == [i \in 1 .. n |-> IF i = n THEN more ELSE old[i]]
  <2>4. pick[n] = more /\ \A i \in 1 .. n - 1 : i \in 1 .. n /\ i # n /\ pick[i] = old[i]
    OBVIOUS
  <2>5. \A i \in 1 .. n : i = n \/ i \in 1 .. n - 1
    OBVIOUS
  <2> HIDE DEF pick
  <2>6. \A i \in 1 .. n : pick[i] \in choices[i]
    BY <2>3, <2>4, <2>5
  <2>7. \A x : x \in s <=> \E i \in 1 .. n : x \in pick[i]
    <3> TAKE x
    <3>1. x \in before <=> \E i \in 1 .. n - 1 : x \in old[i]
      BY <2>3
    <3>2. x \in s <=> x \in before \/ x \in more
      BY <2>2
    <3>3. n \in 1 .. n
      OBVIOUS
    <3> QED
      BY <2>4, <2>5, <3>1, <3>2, <3>3
  <2> QED
    BY <2>6, <2>7
<1> HIDE DEF Holds
<1>4. Wrong = {}
  <2> SUFFICES ASSUME Wrong # {} PROVE FALSE
    OBVIOUS
  <2>1. Wrong \in SUBSET Nat
    OBVIOUS
  <2>2. PICK m \in Wrong : \A i \in Wrong : m <= i
    <3> HIDE DEF Wrong
    <3> QED
      BY <2>1, LeastNumber
  <2>3. m # 0
    BY <1>2, <2>2
  <2>4. m \in 0 .. Len(choices)
    BY <2>2
  <2>5. m - 1 \in 0 .. Len(choices) /\ m \in 1 .. Len(choices) /\ ~(m <= m - 1)
    BY <2>3, <2>4
  <2> HIDE DEF Wrong
  <2> QED
    BY <1>3, <2>2, <2>5
<1>5. Len(choices) \notin Wrong
  BY <1>4
<1>6. \E pick : Holds(pick, c, Len(choices))
  BY <1>1, <1>5
<1> QED
  BY <1>6 DEF Holds

\* Of the distinct rows a sample takes from each class any so many, and no
\* others; without quotas it takes every row.
LEMMA SampleTakes ==
  ASSUME PathInv, pc \in {"prepare", "fit"}, NEW d, NEW s,
         s \in ClassSampled(d, doc.target.result_column, plan.quotas)
  PROVE  LET quotas == plan.quotas
             label  == doc.target.result_column
         IN  /\ s \subseteq d
             /\ quotas = <<>> => s = d
             /\ \E pick :
                  /\ \A i \in DOMAIN quotas :
                       pick[i] \in Picks(OfClass(d, label, quotas[i][1]), quotas[i][2])
                  /\ quotas # <<>> => \A x : x \in s <=> \E i \in DOMAIN quotas : x \in pick[i]
<1> DEFINE quotas == plan.quotas
           label  == doc.target.result_column
           Taken(i) == Picks(OfClass(d, label, quotas[i][1]), quotas[i][2])
           choices == [i \in DOMAIN quotas |-> Taken(i)]
<1>1. Len(quotas) \in Nat /\ DOMAIN quotas = 1 .. Len(quotas)
  BY QuotasAre
<1>2. CASE quotas = <<>>
  <2>1. s = d
    BY <1>2 DEF ClassSampled
  <2>2. DOMAIN quotas = {}
    BY <1>2
  <2>3. \A pick : \A i \in DOMAIN quotas :
          pick[i] \in Picks(OfClass(d, label, quotas[i][1]), quotas[i][2])
    BY <2>2
  <2> QED
    BY <1>2, <2>1, <2>3
<1>3. CASE quotas # <<>>
  <2>1. s \in Combined(choices)
    BY <1>3 DEF ClassSampled
  <2>2. Len(choices) = Len(quotas) /\ \A i \in DOMAIN quotas : choices[i] = Taken(i)
    BY <1>1
  <2>3. \A i : Taken(i) \subseteq SUBSET d
    BY DEF Picks, OfClass, kSubset
  <2> HIDE DEF choices, Taken, quotas
  <2>4. PICK pick : /\ \A i \in 1 .. Len(choices) : pick[i] \in choices[i]
                    /\ \A x : x \in s <=> \E i \in 1 .. Len(choices) : x \in pick[i]
    BY <1>1, <2>1, <2>2, CombinedHas
  <2>5. \A i \in DOMAIN quotas : pick[i] \in Taken(i)
    BY <1>1, <2>2, <2>4
  <2>6. \A x : x \in s <=> \E i \in DOMAIN quotas : x \in pick[i]
    BY <1>1, <2>2, <2>4
  <2>7. s \subseteq d
    BY <2>3, <2>5, <2>6
  <2> QED
    BY <1>3, <2>5, <2>6, <2>7 DEF Taken, quotas
<1> QED
  BY <1>2, <1>3

\* What reaches the fit is a sample of the distinct rows, with encoded labels.
LEMMA FitIs ==
  ASSUME PathInv, pc = "fit"
  PROVE  \E d \in OnePerEntity(rows, doc.data_query.entity_key) :
           \E s \in ClassSampled(d, doc.target.result_column, plan.quotas) :
             /\ s \subseteq d /\ d \subseteq rows
             /\ prepared = {FittedAs(x) : x \in s}
             /\ ~IsRegression(doc) => Encodable(s, doc.target, plan.classes)
<1> DEFINE o == <<TRUE, prepared>>
<1>1. o \in Prepared(rows, doc, plan)
  BY DEF PathInv, RowsInv
<1>2. o # <<FALSE, {}>> /\ o[2] = prepared
  <2> SUFFICES ASSUME o = <<FALSE, {}>> PROVE FALSE
    OBVIOUS
  <2>1. ~o[1]
    OBVIOUS
  <2> QED
    BY <2>1
<1> HIDE DEF o
<1>3. Leaves(rows, doc, plan, prepared)
  BY <1>1, <1>2, OutcomeIs
<1>4. PICK d \in OnePerEntity(rows, doc.data_query.entity_key) :
        \E s \in ClassSampled(d, doc.target.result_column, plan.quotas) :
          IF IsRegression(doc) THEN prepared = s
          ELSE Encodable(s, doc.target, plan.classes) /\ prepared = Encoded(s, doc.target)
  BY <1>3 DEF Leaves
<1>5. PICK s \in ClassSampled(d, doc.target.result_column, plan.quotas) :
        IF IsRegression(doc) THEN prepared = s
        ELSE Encodable(s, doc.target, plan.classes) /\ prepared = Encoded(s, doc.target)
  BY <1>4
<1>6. s \subseteq d /\ d \subseteq rows
  BY SampleTakes DEF OnePerEntity
<1>7. prepared = {FittedAs(x) : x \in s}
  BY <1>5 DEF FittedAs, Encoded
<1> QED
  BY <1>5, <1>6, <1>7

\* A label reaches the fit as its code, or not at all.
LEMMA LabelsHold ==
  ASSUME PathInv
  PROVE  LabelsKeepMeaning
<1> DEFINE label   == doc.target.result_column
           mapping == doc.target.label_mapping
<1> SUFFICES ASSUME pc = "fit", ~IsRegression(doc), NEW r \in prepared, RawLabel(r)[1] = "str"
             PROVE  /\ RawLabel(r)[2] \in Labels(mapping)
                    /\ r.cells[label] = <<"num", mapping[RawLabel(r)[2]]>>
  BY DEF LabelsKeepMeaning
<1>1. PICK d \in OnePerEntity(rows, doc.data_query.entity_key) :
        \E s \in ClassSampled(d, label, plan.quotas) :
          /\ s \subseteq d /\ d \subseteq rows /\ prepared = {FittedAs(x) : x \in s}
          /\ Encodable(s, doc.target, plan.classes)
  BY FitIs
<1>2. PICK s \in ClassSampled(d, label, plan.quotas) :
        /\ s \subseteq rows /\ prepared = {FittedAs(x) : x \in s}
        /\ Encodable(s, doc.target, plan.classes)
  BY <1>1
<1>3. PICK x \in s : r = FittedAs(x)
  BY <1>2
<1>4. /\ RawLabel(r) = x.cells[label]
      /\ r.cells[label] = <<"num", LabelCode(x.cells[label], mapping)>>
  BY <1>2, <1>3, FittedIs
<1>5. LabelCode(x.cells[label], mapping) \in 0 .. plan.classes - 1
  BY <1>2, <1>3 DEF Encodable
<1>6. LabelCode(x.cells[label], mapping) # Bad
  BY <1>5, ValueAssumption
<1>7. x.cells[label][1] = "str" /\ "str" # "num"
  BY <1>4
<1> QED
  BY <1>4, <1>6, <1>7 DEF LabelCode

\* Of the distinct rows, no two are of one entity and none is left out.
LEMMA OneOfEachEntity ==
  ASSUME NEW from, IsFiniteSet(from), NEW entity, Given(entity),
         NEW d \in OnePerEntity(from, entity)
  PROVE  /\ \A x, y \in d :
              x.cells[entity.result_column] = y.cells[entity.result_column] => x = y
         /\ \A e \in Values(from, entity.result_column) :
              \E x \in d : x.cells[entity.result_column] = e
<1> DEFINE column == entity.result_column
           values == Values(from, column)
           f == [x \in d |-> x.cells[column]]
<1>1. d \in SUBSET from /\ Values(d, column) = values /\ Cardinality(d) = Cardinality(values)
  BY DEF OnePerEntity
<1>2. f \in Surjection(d, values)
  BY <1>1 DEF Surjection, Values
<1>3. IsFiniteSet(d)
  BY <1>1, FS_Subset
<1>4. f \in Injection(d, values)
  <2> HIDE DEF f, values
  <2> QED
    BY <1>1, <1>2, <1>3, FS_SurjSameCardinalityImpliesInj
<1>5. \A x, y \in d : x.cells[column] = y.cells[column] => x = y
  BY <1>4 DEF Injection, IsInjective
<1>6. \A e \in values : \E x \in d : x.cells[column] = e
  BY <1>1 DEF Values
<1> QED
  BY <1>5, <1>6

\* So many of some rows are that many, or all of them.
LEMMA HowManyPicked ==
  ASSUME NEW K, IsFiniteSet(K), NEW n \in Nat, NEW p \in Picks(K, n)
  PROVE  /\ p \in SUBSET K /\ IsFiniteSet(p)
         /\ Cardinality(p) \in Nat /\ Cardinality(K) \in Nat
         /\ Cardinality(p) <= n
         /\ Cardinality(p) = n \/ Cardinality(p) = Cardinality(K)
<1>1. Cardinality(K) \in Nat
  BY FS_CardinalityType
<1>2. CASE Cardinality(K) <= n
  BY <1>1, <1>2 DEF Picks
<1>3. CASE ~(Cardinality(K) <= n)
  <2>1. p \in SUBSET K /\ Cardinality(p) = n
    BY <1>3 DEF Picks, kSubset
  <2> QED
    BY <1>1, <2>1, FS_Subset
<1> QED
  BY <1>2, <1>3

\* As many fitted rows as rows of the sample have a class.
LEMMA CountOfClass ==
  ASSUME PathInv, pc = "fit", NEW s \in SUBSET rows, prepared = {FittedAs(x) : x \in s},
         NEW class
  PROVE  Cardinality({r \in prepared : RawLabel(r) = class})
           = Cardinality(OfClass(s, doc.target.result_column, class))
<1> DEFINE label == doc.target.result_column
           some  == OfClass(s, label, class)
           with  == {r \in prepared : RawLabel(r) = class}
           f == [x \in some |-> FittedAs(x)]
<1>1. \A x \in rows : Raw(FittedAs(x)) = x /\ RawLabel(FittedAs(x)) = x.cells[label]
  BY FittedIs
<1>2. IsFiniteSet(rows)
  BY TrainingRead
<1>3. some \in SUBSET rows /\ IsFiniteSet(some)
  <2>1. some \in SUBSET rows
    BY DEF OfClass
  <2> QED
    BY <1>2, <2>1, FS_Subset
<1>4. with = {FittedAs(x) : x \in some}
  BY <1>1 DEF OfClass
<1>5. f \in Bijection(some, with)
  <2>1. \A x, y \in some : f[x] = f[y] => x = y
    <3> TAKE x \in some, y \in some
    <3>1. Raw(FittedAs(x)) = x /\ Raw(FittedAs(y)) = y
      BY <1>1, <1>3
    <3> QED
      BY <3>1
  <2> HIDE DEF some, with
  <2> QED
    BY <1>4, <2>1 DEF Bijection, Injection, Surjection, IsInjective
<1>6. ExistsBijection(some, with)
  BY <1>5 DEF ExistsBijection
<1> HIDE DEF with, some
<1>7. Cardinality(with) = Cardinality(some)
  BY <1>3, <1>6, FS_Bijection
<1> QED
  BY <1>7 DEF with, some

\* The entities all of whose rows are of a class.
SureOf(entity, label, class) ==
  IF ~Given(entity) THEN {r.id : r \in {x \in rows : x.cells[label] = class}}
  ELSE {e \in Values(rows, entity.result_column) :
          \A r \in rows : r.cells[entity.result_column] = e => r.cells[label] = class}

\* Each of them has a distinct row of the class.
LEMMA SureAreThere ==
  ASSUME IsFiniteSet(rows), NEW entity, NEW d \in OnePerEntity(rows, entity),
         NEW label, NEW class
  PROVE  /\ Cardinality(SureOf(entity, label, class)) \in Nat
         /\ Cardinality(SureOf(entity, label, class))
              <= Cardinality(OfClass(d, label, class))
<1> DEFINE K    == OfClass(d, label, class)
           sure == SureOf(entity, label, class)
           Key(x) == IF Given(entity) THEN x.cells[entity.result_column] ELSE x.id
           keys == {Key(x) : x \in K}
           f == [x \in K |-> Key(x)]
<1>1. d \in SUBSET rows
  BY DEF OnePerEntity
<1>2. IsFiniteSet(K)
  <2>1. K \in SUBSET rows
    BY <1>1 DEF OfClass
  <2> QED
    BY <2>1, FS_Subset
<1>3. f \in Surjection(K, keys)
  <2> HIDE DEF Key
  <2> QED
    BY DEF Surjection
<1>4. IsFiniteSet(keys) /\ Cardinality(keys) <= Cardinality(K)
  <2> HIDE DEF f, keys, K
  <2> QED
    BY <1>2, <1>3, FS_Surjection
<1>5. sure \subseteq keys
  <2>1. CASE ~Given(entity)
    <3>1. d = rows
      BY <2>1 DEF OnePerEntity
    <3> QED
      BY <2>1, <3>1 DEF SureOf, OfClass
  <2>2. CASE Given(entity)
    <3> SUFFICES ASSUME NEW e \in sure PROVE e \in keys
      OBVIOUS
    <3>1. /\ e \in Values(rows, entity.result_column)
          /\ \A r \in rows : r.cells[entity.result_column] = e => r.cells[label] = class
      BY <2>2 DEF SureOf
    <3>2. PICK x \in d : x.cells[entity.result_column] = e
      BY <2>2, <3>1, OneOfEachEntity
    <3>3. x \in K
      BY <1>1, <3>1, <3>2 DEF OfClass
    <3> QED
      BY <2>2, <3>2, <3>3
  <2> QED
    BY <2>1, <2>2
<1>6. /\ IsFiniteSet(sure) /\ Cardinality(sure) <= Cardinality(keys)
  <2> HIDE DEF sure, keys
  <2> QED
    BY <1>4, <1>5, FS_Subset
<1>7. Cardinality(sure) \in Nat /\ Cardinality(keys) \in Nat /\ Cardinality(K) \in Nat
  BY <1>2, <1>4, <1>6, FS_CardinalityType
<1> HIDE DEF sure, keys, K
<1>8. Cardinality(sure) <= Cardinality(K)
  BY <1>4, <1>6, <1>7
<1> QED
  BY <1>7, <1>8 DEF sure, K

\* A row of the read is what it was read as.
LEMMA RowsAreRaw ==
  ASSUME PathInv, pc = "fit", NEW r \in rows
  PROVE  Raw(r) = r /\ RawLabel(r) = r.cells[doc.target.result_column]
<1>1. \A s, t \in rows : s.id = t.id => s = t
  BY TrainingRead
<1>2. Raw(r) = r
  BY <1>1 DEF Raw
<1> QED
  BY <1>2 DEF RawLabel

\* As many rows of a class are fitted as there are in the sample.
LEMMA QuotaHolds ==
  ASSUME PathInv
  PROVE  QuotaFilled
<1> DEFINE entity == doc.data_query.entity_key
           label  == doc.target.result_column
           quotas == plan.quotas
           taken(class) == Cardinality({r \in prepared : RawLabel(r) = class})
           Sure(class) ==
             IF ~Given(entity) THEN {r.id : r \in {s \in rows : RawLabel(s) = class}}
             ELSE {e \in Values(rows, entity.result_column) :
                     \A r \in rows : r.cells[entity.result_column] = e => RawLabel(r) = class}
<1> SUFFICES ASSUME pc = "fit"
             PROVE  /\ \A r, s \in prepared :
                         Given(entity) /\ Raw(r).cells[entity.result_column]
                                            = Raw(s).cells[entity.result_column] => r = s
                    /\ \A i \in DOMAIN quotas :
                         /\ (\A j \in DOMAIN quotas : quotas[j][1] = quotas[i][1] => j = i)
                              => taken(quotas[i][1]) <= quotas[i][2]
                         /\ taken(quotas[i][1])
                              >= Min({quotas[i][2], Cardinality(Sure(quotas[i][1]))})
  BY DEF QuotaFilled
<1>1. PICK d \in OnePerEntity(rows, entity) :
        \E s \in ClassSampled(d, label, quotas) :
          s \subseteq d /\ d \subseteq rows /\ prepared = {FittedAs(x) : x \in s}
  BY FitIs
<1>2. PICK s \in ClassSampled(d, label, quotas) :
        s \subseteq d /\ d \subseteq rows /\ prepared = {FittedAs(x) : x \in s}
  BY <1>1
<1>3. IsFiniteSet(rows)
  BY TrainingRead
<1>4. \A x \in s : x \in rows /\ Raw(FittedAs(x)) = x
  BY <1>2, FittedIs
<1>5. ASSUME NEW r \in prepared, NEW t \in prepared, Given(entity),
             Raw(r).cells[entity.result_column] = Raw(t).cells[entity.result_column]
      PROVE  r = t
  <2>1. PICK x \in s : r = FittedAs(x)
    BY <1>2
  <2>2. PICK y \in s : t = FittedAs(y)
    BY <1>2
  <2>3. x.cells[entity.result_column] = y.cells[entity.result_column]
    BY <1>4, <1>5, <2>1, <2>2
  <2>4. x = y
    BY <1>2, <1>3, <1>5, <2>3, OneOfEachEntity
  <2> QED
    BY <2>1, <2>2, <2>4
<1>6. PICK pick :
        /\ \A i \in DOMAIN quotas :
             pick[i] \in Picks(OfClass(d, label, quotas[i][1]), quotas[i][2])
        /\ quotas # <<>> => \A x : x \in s <=> \E i \in DOMAIN quotas : x \in pick[i]
  BY SampleTakes
<1>7. ASSUME NEW i \in DOMAIN quotas
      PROVE  /\ (\A j \in DOMAIN quotas : quotas[j][1] = quotas[i][1] => j = i)
                  => taken(quotas[i][1]) <= quotas[i][2]
             /\ taken(quotas[i][1]) >= Min({quotas[i][2], Cardinality(Sure(quotas[i][1]))})
  <2> DEFINE class == quotas[i][1]
             quota == quotas[i][2]
             K     == OfClass(d, label, class)
             some  == OfClass(s, label, class)
             sure  == Cardinality(SureOf(entity, label, class))
  <2>1. quota \in Nat /\ quotas # <<>>
    BY QuotasAre
  <2>2. IsFiniteSet(K) /\ some \subseteq K
    <3>1. K \in SUBSET rows /\ some \subseteq K
      BY <1>2 DEF OfClass
    <3> QED
      BY <1>3, <3>1, FS_Subset
  <2>3. pick[i] \in Picks(K, quota)
    BY <1>6
  <2>4. pick[i] \subseteq some
    <3>1. pick[i] \subseteq K
      BY <2>1, <2>2, <2>3, HowManyPicked
    <3>2. pick[i] \subseteq s
      BY <1>6, <2>1
    <3> QED
      BY <3>1, <3>2 DEF OfClass
  <2>5. /\ Cardinality(pick[i]) \in Nat /\ Cardinality(K) \in Nat
        /\ Cardinality(pick[i]) <= quota
        /\ Cardinality(pick[i]) = quota \/ Cardinality(pick[i]) = Cardinality(K)
    <3> HIDE DEF K, quota
    <3> QED
      BY <2>1, <2>2, <2>3, HowManyPicked
  <2>6. taken(class) = Cardinality(some)
    <3>1. s \in SUBSET rows
      BY <1>2
    <3> QED
      BY <1>2, <3>1, CountOfClass
  <2>7. Cardinality(some) \in Nat /\ Cardinality(pick[i]) <= Cardinality(some)
    <3>1. IsFiniteSet(some)
      BY <2>2, FS_Subset
    <3> HIDE DEF some
    <3> QED
      BY <2>4, <3>1, FS_Subset, FS_CardinalityType
  <2>8. Sure(class) = SureOf(entity, label, class)
    <3>1. \A r \in rows : RawLabel(r) = r.cells[label]
      BY RowsAreRaw
    <3> HIDE DEF class, label, entity
    <3>2. CASE ~Given(entity)
      <4>1. {x \in rows : RawLabel(x) = class} = {x \in rows : x.cells[label] = class}
        BY <3>1
      <4> QED
        BY <3>2, <4>1 DEF SureOf
    <3>3. CASE Given(entity)
      <4>1. \A e : (\A r \in rows : r.cells[entity.result_column] = e => RawLabel(r) = class)
                     <=> (\A r \in rows :
                            r.cells[entity.result_column] = e => r.cells[label] = class)
        BY <3>1
      <4> QED
        BY <3>3, <4>1 DEF SureOf
    <3> QED
      BY <3>2, <3>3
  <2>9. sure \in Nat /\ sure <= Cardinality(K)
    BY <1>3, SureAreThere
  <2>10. taken(class) >= Min({quota, sure})
    <3>1. Min({quota, sure}) \in {quota, sure} /\ Min({quota, sure}) <= quota
          /\ Min({quota, sure}) <= sure
      <4> HIDE DEF quota, sure
      <4> QED
        BY <2>1, <2>9, TwoNumbers
    <3> DEFINE least == Min({quota, sure})
    <3>2. least \in Nat /\ least <= quota /\ least <= sure
      <4> HIDE DEF quota, sure
      <4> QED
        BY <2>1, <2>9, <3>1
    <3> HIDE DEF least, K, some, quota, sure, taken, class
    <3>3. taken(class) >= least
      BY <2>1, <2>5, <2>6, <2>7, <2>9, <3>2
    <3> QED
      BY <3>3 DEF least
  <2>11. ASSUME \A j \in DOMAIN quotas : quotas[j][1] = class => j = i
         PROVE  taken(class) <= quota
    <3>1. some \subseteq pick[i]
      <4> SUFFICES ASSUME NEW x \in some PROVE x \in pick[i]
        OBVIOUS
      <4>1. x \in s /\ x.cells[label] = class
        BY DEF OfClass
      <4>2. PICK j \in DOMAIN quotas : x \in pick[j]
        BY <1>6, <2>1, <4>1
      <4>3. pick[j] \subseteq OfClass(d, label, quotas[j][1])
        BY <1>6 DEF Picks, kSubset
      <4>4. x.cells[label] = quotas[j][1]
        BY <4>2, <4>3 DEF OfClass
      <4> QED
        BY <2>11, <4>1, <4>2, <4>4
    <3>2. some = pick[i]
      BY <2>4, <3>1
    <3> HIDE DEF some, taken, class, quota
    <3> QED
      BY <2>5, <2>6, <3>2
  <2> QED
    BY <2>8, <2>10, <2>11
<1> QED
  BY <1>5, <1>7

\* The codes of a valid mapping tell its labels apart.
LEMMA CodesTellApart ==
  ASSUME NEW m, Obj(m), LabelMapping(m), IsFiniteSet(DOMAIN m)
  PROVE  \A a, b \in DOMAIN m : m[a] = m[b] => a = b
<1> DEFINE n == Cardinality(DOMAIN m)
           f == [x \in DOMAIN m |-> m[x]]
<1>1. n \in Nat
  BY FS_CardinalityType
<1>2. Range(m) = 0 .. n - 1
  BY DEF LabelMapping, Given, Obj
<1>3. f \in Surjection(DOMAIN m, 0 .. n - 1)
  <2>1. Range(m) = {m[x] : x \in DOMAIN m}
    BY DEF Range
  <2> HIDE DEF n
  <2> QED
    BY <1>2, <2>1 DEF Surjection
<1>4. Cardinality(0 .. n - 1) = n
  <2> HIDE DEF n
  <2> QED
    BY <1>1, FS_Interval
<1>5. f \in Injection(DOMAIN m, 0 .. n - 1)
  <2> HIDE DEF f
  <2> QED
    BY <1>3, <1>4, FS_SurjSameCardinalityImpliesInj
<1> QED
  BY <1>5 DEF Injection, IsInjective

\* Only a classification has quotas; its classes have their codes, and of each
\* so many rows are wanted.
LEMMA BalancedIsClassification ==
  ASSUME PathInv, pc = "fit", Balanced(doc)
  PROVE  LET mapping == doc.target.label_mapping
         IN  /\ ~IsRegression(doc)
             /\ \A a, b \in Labels(mapping) : mapping[a] = mapping[b] => a = b
             /\ \A label \in DOMAIN Amounts(doc) : Amounts(doc)[label] \in Nat
<1> DEFINE mapping  == doc.target.label_mapping
           category == doc.algorithm.category
<1>1. op = "training" /\ Plannable(doc) /\ DocumentInv
  BY TrainingRead
<1>2. /\ ValidTraining(doc) /\ SamplerPlannable(doc)
      /\ ClassBalance(doc.data_sampling.class_balance, category)
      /\ Target(doc.target, category, Aliases(doc.tables), ResultColumns(doc.features))
  BY <1>1 DEF Plannable, ValidTraining, Sampling, Balanced
<1>3. category = "CLASSIFICATION"
  BY <1>2 DEF ClassBalance, Balanced
<1>4. /\ Obj(doc.target) /\ LabelMapping(mapping)
      /\ doc.target.task_type \in {"BINARY_CLASSIFICATION", "MULTICLASS_CLASSIFICATION"}
  BY <1>2, <1>3 DEF Target, Categories
<1>5. ~IsRegression(doc)
  BY <1>4 DEF IsRegression
<1>6. \A label \in DOMAIN Amounts(doc) : Amounts(doc)[label] \in Nat
  <2>1. Given(doc.data_sampling.class_balance) /\ Given(Amounts(doc))
    BY <1>2 DEF Balanced, SamplerPlannable
  <2>2. \A label \in DOMAIN Amounts(doc) : AtLeast(Amounts(doc)[label], 1)
    BY <1>2, <2>1 DEF ClassBalance, Amounts
  <2> QED
    BY <2>2 DEF AtLeast
<1>7. doc.target \in May("training", "target")
  <2>1. "target" \in Sections["training"] \ {"model"}
    BY DEF Sections
  <2>2. doc["target"] \in May("training", "target") \cup {Missing}
    BY <1>1, <2>1 DEF DocumentInv
  <2> QED
    BY <1>4, <2>2 DEF Obj
<1>8. ASSUME NEW a \in Labels(mapping), NEW b \in Labels(mapping), mapping[a] = mapping[b]
      PROVE  a = b
  <2>1. Given(mapping) /\ a \in DOMAIN mapping /\ b \in DOMAIN mapping
    BY <1>8 DEF Labels
  <2>2. Obj(mapping)
    BY <1>4, <2>1 DEF LabelMapping
  <2>3. IsFiniteSet(DOMAIN mapping)
    BY <1>4, <1>7, <2>2, RequestAssumption
  <2> HIDE DEF mapping
  <2> QED
    BY <1>4, <1>8, <2>1, <2>2, <2>3, CodesTellApart
<1> QED
  BY <1>5, <1>6, <1>8

\* A number is more than 5 % off another.
LEMMA MoreThanOff ==
  ASSUME NEW taken \in Nat, NEW wanted \in Nat
  PROVE  LET d   == taken - wanted
             off == IF d < 0 THEN -d ELSE d
         IN  100 * off > 5 * wanted
               <=> 20 * taken > 21 * wanted \/ 20 * taken < 19 * wanted
<1> DEFINE d == taken - wanted
<1>1. CASE d < 0
  BY <1>1
<1>2. CASE ~(d < 0)
  BY <1>2
<1> QED
  BY <1>1, <1>2

\* The code of a class finds the rows that had its label.
LEMMA CodeFindsLabel ==
  ASSUME PathInv, pc = "fit", Balanced(doc),
         Unwrapped(doc.target.column_type) \in {"String", "FixedString"},
         \A r \in rows : RawLabel(r) # Null => RawLabel(r)[1] = "str",
         NEW class
  PROVE  LET mapping == doc.target.label_mapping
             scalar  == IF class \in Labels(mapping) THEN <<"num", mapping[class]>>
                        ELSE QueryScalar(class, doc.target.column_type)
             some    == OfClass(prepared, doc.target.result_column, scalar)
         IN  /\ some = {r \in prepared : RawLabel(r)[2] = class}
             /\ Cardinality(some) \in Nat
<1> DEFINE mapping == doc.target.label_mapping
           label   == doc.target.result_column
           scalar  == IF class \in Labels(mapping) THEN <<"num", mapping[class]>>
                      ELSE QueryScalar(class, doc.target.column_type)
           some    == OfClass(prepared, label, scalar)
<1>1. ~IsRegression(doc) /\ \A a, b \in Labels(mapping) : mapping[a] = mapping[b] => a = b
  BY BalancedIsClassification
<1>2. PICK d \in OnePerEntity(rows, doc.data_query.entity_key) :
        \E s \in ClassSampled(d, label, plan.quotas) :
          /\ s \subseteq d /\ d \subseteq rows /\ prepared = {FittedAs(x) : x \in s}
          /\ Encodable(s, doc.target, plan.classes)
  BY <1>1, FitIs
<1>3. PICK s \in ClassSampled(d, label, plan.quotas) :
        /\ s \subseteq rows /\ prepared = {FittedAs(x) : x \in s}
        /\ Encodable(s, doc.target, plan.classes)
  BY <1>2
<1>4. ASSUME NEW r \in prepared
      PROVE  /\ RawLabel(r)[2] \in Labels(mapping)
             /\ r.cells[label] = <<"num", mapping[RawLabel(r)[2]]>>
  <2>1. PICK x \in s : r = FittedAs(x)
    BY <1>3, <1>4
  <2>2. x \in rows /\ RawLabel(r) = x.cells[label] /\ RawLabel(x) = x.cells[label]
    BY <1>3, <2>1, FittedIs, RowsAreRaw
  <2>3. LabelCode(x.cells[label], mapping) \in 0 .. plan.classes - 1
    BY <1>3 DEF Encodable
  <2>4. LabelCode(x.cells[label], mapping) # Bad
    BY <2>3, ValueAssumption
  <2>5. RawLabel(r) # Null
    BY <2>2, <2>4 DEF LabelCode
  <2>6. RawLabel(r)[1] = "str"
    BY <2>2, <2>5
  <2> QED
    BY <1>1, <1>4, <2>6, LabelsHold DEF LabelsKeepMeaning
<1>5. ASSUME NEW r \in prepared
      PROVE  r.cells[label] = scalar <=> RawLabel(r)[2] = class
  <2> DEFINE own == RawLabel(r)[2]
  <2>1. own \in Labels(mapping) /\ r.cells[label] = <<"num", mapping[own]>>
    BY <1>4, <1>5
  <2> HIDE DEF own, mapping
  <2>2. CASE class \in Labels(mapping)
    <3>1. scalar = <<"num", mapping[class]>>
      BY <2>2
    <3> HIDE DEF scalar
    <3>2. scalar = <<"num", mapping[own]>> <=> mapping[class] = mapping[own]
      <4>1. scalar[2] = mapping[class] /\ <<"num", mapping[own]>>[2] = mapping[own]
        BY <3>1
      <4> QED
        BY <3>1, <4>1
    <3>3. r.cells[label] = scalar <=> own = class
      BY <1>1, <2>1, <2>2, <3>2
    <3> QED
      BY <3>3 DEF own
  <2>3. CASE class \notin Labels(mapping)
    <3>1. QueryScalar(class, doc.target.column_type) = <<"str", class>>
      BY DEF QueryScalar, Width
    <3>2. scalar[1] = "str" /\ <<"num", mapping[own]>>[1] = "num"
      BY <2>3, <3>1
    <3> HIDE DEF scalar
    <3>3. r.cells[label] # scalar
      BY <2>1, <3>2
    <3>4. own # class
      BY <2>1, <2>3
    <3> QED
      BY <3>3, <3>4 DEF own
  <2> QED
    BY <2>2, <2>3
<1>6. some = {r \in prepared : RawLabel(r)[2] = class}
  <2> HIDE DEF scalar, label
  <2> QED
    BY <1>5 DEF OfClass
<1>7. Cardinality(some) \in Nat
  <2>1. IsFiniteSet(prepared)
    <3> DEFINE f == [x \in s |-> FittedAs(x)]
    <3>1. f \in Surjection(s, prepared)
      BY <1>3 DEF Surjection
    <3>2. IsFiniteSet(s)
      BY <1>3, TrainingRead, FS_Subset
    <3> HIDE DEF f
    <3> QED
      BY <3>1, <3>2, FS_Surjection
  <2>2. some \in SUBSET prepared
    BY DEF OfClass
  <2> HIDE DEF some
  <2> QED
    BY <2>1, <2>2, FS_Subset, FS_CardinalityType
<1> QED
  BY <1>6, <1>7

\* A warning is logged for each class that is short, and for no other.
LEMMA WarningHolds ==
  ASSUME PathInv
  PROVE  WarnedIffShort
<1> DEFINE mapping == doc.target.label_mapping
           Code(class) == IF class \in Labels(mapping) THEN <<"num", mapping[class]>>
                          ELSE QueryScalar(class, doc.target.column_type)
           Some(class) == OfClass(prepared, doc.target.result_column, Code(class))
           Labelled(class) == {r \in prepared : RawLabel(r)[2] = class}
           Off(class) == LET d == Cardinality(Some(class)) - Amounts(doc)[class]
                         IN  IF d < 0 THEN -d ELSE d
<1> SUFFICES
      ASSUME pc = "fit", Balanced(doc),
             Unwrapped(doc.target.column_type) \in {"String", "FixedString"},
             \A r \in rows : RawLabel(r) # Null => RawLabel(r)[1] = "str"
      PROVE  short = {class \in DOMAIN Amounts(doc) :
                        20 * Cardinality(Labelled(class)) > 21 * Amounts(doc)[class]
                          \/ 20 * Cardinality(Labelled(class)) < 19 * Amounts(doc)[class]}
  BY DEF WarnedIffShort
<1>1. short = {class \in DOMAIN Amounts(doc) : 100 * Off(class) > 5 * Amounts(doc)[class]}
  BY DEF PathInv, RowsInv, ShortClasses
<1>2. ASSUME NEW class \in DOMAIN Amounts(doc)
      PROVE  100 * Off(class) > 5 * Amounts(doc)[class]
               <=> 20 * Cardinality(Labelled(class)) > 21 * Amounts(doc)[class]
                     \/ 20 * Cardinality(Labelled(class)) < 19 * Amounts(doc)[class]
  <2>1. Some(class) = Labelled(class) /\ Cardinality(Some(class)) \in Nat
    BY CodeFindsLabel
  <2>2. Amounts(doc)[class] \in Nat
    BY BalancedIsClassification
  <2> HIDE DEF Some, With
  <2> QED
    BY <2>1, <2>2, MoreThanOff
<1> HIDE DEF Off, With
<1> QED
  BY <1>1, <1>2

\* At every fit the rows are those that were asked for: one of each entity, as
\* many of a class as its quota says, under the codes of their labels; and a
\* warning is logged for each short class and no other (training.py 868-917,
\* 248-270).
THEOREM FitsWhatWasAskedAlways == Spec => []FitsWhatWasAsked
<1>1. PathInv => FitsWhatWasAsked
  BY QuotaHolds, LabelsHold, WarningHolds DEF FitsWhatWasAsked
<1> QED
  BY <1>1, PathInvariant, PTL

-----------------------------------------------------------------------------
(* The published model is found: parts of paths.                           *)

\* A sequence of elements is a list.
LEMMA SeqIsList ==
  ASSUME NEW S, NEW s \in Seq(S)
  PROVE  IsList(s)
BY DEF IsList

\* A sequence with one more element.
LEMMA AppendIs ==
  ASSUME NEW S, NEW s \in Seq(S), NEW x \in S
  PROVE  /\ Append(s, x) \in Seq(S) /\ Len(Append(s, x)) = Len(s) + 1
         /\ \A i \in 1 .. Len(s) : Append(s, x)[i] = s[i]
         /\ Append(s, x)[Len(s) + 1] = x
OBVIOUS

Joins(s, t, both) ==
  /\ IsList(both) /\ Len(both) = Len(s) + Len(t)
  /\ \A i \in 1 .. Len(s) : both[i] = s[i]
  /\ \A i \in 1 .. Len(t) : both[Len(s) + i] = t[i]

\* A list and another behind it.
LEMMA ConcatIs ==
  ASSUME NEW s, IsList(s), NEW t, IsList(t)
  PROVE  Joins(s, t, s \o t)
<1> DEFINE S == {s[i] : i \in 1 .. Len(s)} \cup {t[i] : i \in 1 .. Len(t)}
<1>1. s \in Seq(S) /\ t \in Seq(S)
  <2>1. s \in [1 .. Len(s) -> S] /\ Len(s) \in Nat
    BY DEF IsList
  <2>2. t \in [1 .. Len(t) -> S] /\ Len(t) \in Nat
    BY DEF IsList
  <2> HIDE DEF S
  <2> QED
    BY <2>1, <2>2
<1> HIDE DEF S
<1>2. s \o t \in Seq(S) /\ Len(s \o t) = Len(s) + Len(t)
  BY <1>1
<1>3. IsList(s \o t)
  BY <1>2, SeqIsList
<1>4. \A i \in 1 .. Len(s) : (s \o t)[i] = s[i]
  BY <1>1
<1>5. \A i \in 1 .. Len(t) : (s \o t)[Len(s) + i] = t[i]
  BY <1>1
<1> QED
  BY <1>2, <1>3, <1>4, <1>5 DEF Joins

\* Lists with the same elements in the same places are one list.
LEMMA SameLists ==
  ASSUME NEW s, IsList(s), NEW t, IsList(t), Len(s) = Len(t),
         \A i \in 1 .. Len(s) : s[i] = t[i]
  PROVE  s = t
<1>1. s = [i \in 1 .. Len(s) |-> s[i]] /\ t = [i \in 1 .. Len(s) |-> t[i]]
  BY DEF IsList
<1> QED
  BY <1>1

\* One element is a list.
LEMMA OneIsList ==
  ASSUME NEW x
  PROVE  IsList(<<x>>) /\ Len(<<x>>) = 1 /\ <<x>>[1] = x
BY DEF IsList

IsRow(row, seq, from, n) ==
  /\ IsList(row) /\ Len(row) = n
  /\ \A i \in 1 .. n : row[i] = seq[from + i]

\* The elements of a sequence at some positions in a row.
LEMMA KeptInARow ==
  ASSUME NEW seq, IsList(seq), NEW from \in Nat, NEW n \in Nat, from + n <= Len(seq),
         NEW positions, \A i \in 1 .. Len(seq) :
                          i \in positions <=> from < i /\ i <= from + n
  PROVE  IsRow(Subsequence(seq, positions), seq, from, n)
<1> DEFINE k == Len(seq)
           S == {seq[i] : i \in 1 .. k}
<1>1. k \in Nat /\ \A i \in 1 .. k : seq[i] \in S
  BY DEF IsList
<1>2. PICK upTo :
        /\ upTo[0] = <<>>
        /\ \A m \in 1 .. k :
             upTo[m] = IF m \in positions THEN Append(upTo[m - 1], seq[m]) ELSE upTo[m - 1]
        /\ Subsequence(seq, positions) = upTo[k]
  BY <1>1, SubsequenceSteps
<1> HIDE DEF S, k
<1> DEFINE Taken(m) == IF m <= from THEN 0 ELSE IF m <= from + n THEN m - from ELSE n
           Good(m) == /\ upTo[m] \in Seq(S) /\ Len(upTo[m]) = Taken(m)
                      /\ \A i \in 1 .. Taken(m) : upTo[m][i] = seq[from + i]
           Wrong == {m \in 0 .. k : ~Good(m)}
<1>3. Good(0)
  BY <1>2
<1>4. ASSUME NEW m \in 1 .. k, Good(m - 1) PROVE Good(m)
  <2>1. m - 1 \in Nat /\ m \in Nat /\ seq[m] \in S
    BY <1>1
  <2>2. CASE m \in positions
    <3>1. from < m /\ m <= from + n
      BY <2>2 DEF k
    <3>2. Taken(m) = m - from /\ Taken(m - 1) = m - from - 1 /\ m - from \in Nat
      BY <2>1, <3>1
    <3>3. upTo[m] = Append(upTo[m - 1], seq[m])
      BY <1>2, <2>2
    <3>4. /\ upTo[m - 1] \in Seq(S) /\ Len(upTo[m - 1]) = m - from - 1
          /\ \A i \in 1 .. m - from - 1 : upTo[m - 1][i] = seq[from + i]
      BY <1>4, <3>2
    <3>5. /\ upTo[m] \in Seq(S) /\ Len(upTo[m]) = m - from
          /\ \A i \in 1 .. m - from - 1 : upTo[m][i] = upTo[m - 1][i]
          /\ upTo[m][m - from] = seq[m]
      <4>1. m - from - 1 \in Nat /\ (m - from - 1) + 1 = m - from
        BY <2>1, <3>1
      <4> QED
        BY <2>1, <3>3, <3>4, <4>1, AppendIs
    <3>6. \A i \in 1 .. m - from : upTo[m][i] = seq[from + i]
      <4> TAKE i \in 1 .. m - from
      <4>1. CASE i = m - from
        <5>1. from + i = m
          BY <2>1, <4>1
        <5> QED
          BY <3>5, <4>1, <5>1
      <4>2. CASE i # m - from
        <5>1. i \in 1 .. m - from - 1
          BY <2>1, <3>2, <4>2
        <5> QED
          BY <3>4, <3>5, <5>1
      <4> QED
        BY <4>1, <4>2
    <3> QED
      BY <3>2, <3>5, <3>6
  <2>3. CASE m \notin positions
    <3>1. ~(from < m /\ m <= from + n)
      BY <2>3 DEF k
    <3>2. Taken(m) = Taken(m - 1)
      BY <2>1, <3>1
    <3>3. upTo[m] = upTo[m - 1]
      BY <1>2, <2>3
    <3> QED
      BY <1>4, <3>2, <3>3
  <2> QED
    BY <2>2, <2>3
<1> HIDE DEF Good
<1>5. Wrong = {}
  <2> SUFFICES ASSUME Wrong # {} PROVE FALSE
    OBVIOUS
  <2>1. Wrong \in SUBSET Nat
    OBVIOUS
  <2>2. PICK m \in Wrong : \A i \in Wrong : m <= i
    <3> HIDE DEF Wrong
    <3> QED
      BY <2>1, LeastNumber
  <2>3. m # 0
    BY <1>3, <2>2
  <2>4. m \in 1 .. k /\ m - 1 \in 0 .. k /\ ~(m <= m - 1)
    BY <1>1, <2>1, <2>2, <2>3
  <2>5. Good(m - 1)
    BY <2>2, <2>4
  <2>6. Good(m)
    BY <1>4, <2>4, <2>5
  <2> QED
    BY <2>2, <2>6
<1>6. Good(k)
  BY <1>1, <1>5
<1>7. Taken(k) = n
  BY <1>1 DEF k
<1>8. /\ upTo[k] \in Seq(S) /\ Len(upTo[k]) = n
      /\ \A i \in 1 .. n : upTo[k][i] = seq[from + i]
  BY <1>6, <1>7 DEF Good
<1> QED
  BY <1>2, <1>8, SeqIsList DEF IsRow

\* Every element of a subsequence is one of those at the positions.
LEMMA KeptAre ==
  ASSUME NEW seq, IsList(seq), NEW positions
  PROVE  LET kept == Subsequence(seq, positions)
         IN  /\ IsList(kept)
             /\ \A i \in 1 .. Len(kept) :
                  \E j \in 1 .. Len(seq) : j \in positions /\ kept[i] = seq[j]
<1> DEFINE S == {seq[j] : j \in (1 .. Len(seq)) \cap positions}
<1>1. Len(seq) \in Nat
  BY DEF IsList
<1>2. Subsequence(seq, positions) \in Seq(S)
  <2>1. \A i \in (1 .. Len(seq)) \cap positions : seq[i] \in S
    OBVIOUS
  <2> HIDE DEF S
  <2> QED
    BY <1>1, <2>1, SubsequenceType
<1>3. \A i \in 1 .. Len(Subsequence(seq, positions)) : Subsequence(seq, positions)[i] \in S
  <2> HIDE DEF S
  <2> QED
    BY <1>2
<1>4. IsList(Subsequence(seq, positions))
  BY <1>2, SeqIsList
<1> QED
  BY <1>3, <1>4

\* A part of a list, up to one of its elements.
LEMMA PartIs ==
  ASSUME NEW s, IsList(s), NEW m \in Nat \ {0}, NEW n \in Nat, m <= n + 1, n <= Len(s)
  PROVE  /\ IsList(SubSeq(s, m, n)) /\ Len(SubSeq(s, m, n)) = n - m + 1
         /\ \A i \in 1 .. n - m + 1 : SubSeq(s, m, n)[i] = s[m + i - 1]
<1> DEFINE S == {s[i] : i \in 1 .. Len(s)}
<1>1. s \in Seq(S)
  <2>1. s \in [1 .. Len(s) -> S] /\ Len(s) \in Nat
    BY DEF IsList
  <2> HIDE DEF S
  <2> QED
    BY <2>1
<1> HIDE DEF S
<1>2. SubSeq(s, m, n) \in Seq(S)
  <2>1. \A i \in m .. n : s[i] \in S
    <3>1. \A i \in m .. n : i \in 1 .. Len(s)
      BY <1>1
    <3> QED
      BY <1>1, <3>1
  <2> QED
    BY <1>1, <2>1, SubSeqProperties
<1>3. /\ Len(SubSeq(s, m, n)) = n - m + 1
      /\ \A i \in 1 .. n - m + 1 : SubSeq(s, m, n)[i] = s[m + i - 1]
  BY <1>1, SubSeqProperties
<1> QED
  BY <1>2, <1>3, SeqIsList

\* A part of a path that a slash or a dot does not leave out.
IsPart(x)  == x \notin {"", "."}
AllParts(t) == \A i \in 1 .. Len(t) : IsPart(t[i])

\* A list with an empty part at one end, without it.
LEMMA NonemptyRow ==
  ASSUME NEW t, IsList(t), AllParts(t),
         NEW from \in {0, 1}, NEW end, NEW seq, IsList(seq), Len(seq) = Len(t) + 1,
         \A i \in 1 .. Len(t) : seq[from + i] = t[i],
         end = IF from = 0 THEN Len(t) + 1 ELSE 1, ~IsPart(seq[end])
  PROVE  Nonempty(seq) = t
<1> DEFINE positions == {i \in DOMAIN seq : IsPart(seq[i])}
<1>1. Len(t) \in Nat /\ from \in Nat /\ DOMAIN seq = 1 .. Len(seq)
  BY DEF IsList
<1>2. \A i \in 1 .. Len(seq) : i \in positions <=> from < i /\ i <= from + Len(t)
  <2> TAKE i \in 1 .. Len(seq)
  <2>1. i \in positions <=> IsPart(seq[i])
    BY <1>1
  <2> HIDE DEF positions
  <2>2. CASE i = end
    <3>1. ~(from < i /\ i <= from + Len(t))
      BY <1>1, <2>2
    <3> QED
      BY <2>1, <2>2, <3>1
  <2>3. CASE i # end
    <3>1. i - from \in 1 .. Len(t) /\ i = from + (i - from)
      BY <1>1, <2>3
    <3>2. seq[i] = t[i - from] /\ IsPart(t[i - from])
      BY <3>1 DEF AllParts
    <3>3. from < i /\ i <= from + Len(t)
      BY <1>1, <3>1
    <3> QED
      BY <2>1, <3>2, <3>3
  <2> QED
    BY <2>2, <2>3
<1>3. Nonempty(seq) = Subsequence(seq, positions)
  BY DEF Nonempty, IsPart
<1> HIDE DEF positions
<1>4. from + Len(t) <= Len(seq)
  BY <1>1
<1> DEFINE kept == Subsequence(seq, positions)
<1>5. IsRow(kept, seq, from, Len(t))
  BY <1>1, <1>2, <1>4, KeptInARow
<1> HIDE DEF kept
<1>6. kept = t
  BY <1>1, <1>5, SameLists DEF IsRow
<1> QED
  BY <1>3, <1>6 DEF kept

\* A path is not lost among slashes: an empty part before it or after it is
\* left out, and nothing else.
LEMMA NonemptyIs ==
  ASSUME NEW t, IsList(t), AllParts(t)
  PROVE  Nonempty(<<"">> \o t) = t /\ Nonempty(t \o <<"">>) = t
<1>1. ASSUME NEW e, IsList(e), Len(e) = 1, ~IsPart(e[1])
      PROVE  Nonempty(e \o t) = t /\ Nonempty(t \o e) = t
  <2>1. Len(t) \in Nat
    BY DEF IsList
  <2>2. Nonempty(e \o t) = t
    <3>1. Joins(e, t, e \o t)
      BY <1>1, ConcatIs
    <3> DEFINE seq == e \o t
    <3> HIDE DEF seq
    <3>2. /\ IsList(seq) /\ Len(seq) = Len(t) + 1 /\ ~IsPart(seq[1])
          /\ \A i \in 1 .. Len(t) : seq[1 + i] = t[i]
      BY <1>1, <2>1, <3>1 DEF seq, Joins
    <3>3. Nonempty(seq) = t
      BY <3>2, NonemptyRow
    <3> QED
      BY <3>3 DEF seq
  <2>3. Nonempty(t \o e) = t
    <3>1. Joins(t, e, t \o e)
      BY <1>1, ConcatIs
    <3> DEFINE seq == t \o e
    <3> HIDE DEF seq
    <3>2. /\ IsList(seq) /\ Len(seq) = Len(t) + 1 /\ ~IsPart(seq[Len(t) + 1])
          /\ \A i \in 1 .. Len(t) : seq[0 + i] = t[i]
      BY <1>1, <2>1, <3>1 DEF seq, Joins
    <3>3. Nonempty(seq) = t
      BY <3>2, NonemptyRow
    <3> QED
      BY <3>3 DEF seq
  <2> QED
    BY <2>2, <2>3
<1>2. IsList(<<"">>) /\ Len(<<"">>) = 1 /\ <<"">>[1] = ""
  BY OneIsList
<1>3. ~IsPart("")
  BY DEF IsPart
<1> QED
  BY <1>1, <1>2, <1>3

\* What is left of a path has no empty parts.
LEMMA NonemptyHas ==
  ASSUME NEW parts, IsList(parts)
  PROVE  IsList(Nonempty(parts)) /\ AllParts(Nonempty(parts))
<1> DEFINE positions == {i \in DOMAIN parts : IsPart(parts[i])}
           kept == Subsequence(parts, positions)
<1> HIDE DEF positions
<1>1. /\ IsList(kept)
      /\ \A i \in 1 .. Len(kept) :
           \E j \in 1 .. Len(parts) : j \in positions /\ kept[i] = parts[j]
  BY KeptAre
<1>2. Nonempty(parts) = kept
  BY DEF Nonempty, IsPart, positions
<1> HIDE DEF kept
<1>3. \A i \in 1 .. Len(kept) : IsPart(kept[i])
  BY <1>1 DEF positions
<1> QED
  BY <1>1, <1>2, <1>3 DEF AllParts

\* What the prefix of the request leaves of a path: its parts but the last,
\* which is the empty one behind the slash.
LEMMA PrefixIs ==
  ASSUME NEW prefix, IsList(prefix), Prefix(prefix)
  PROVE  /\ IsList(Front(prefix)) /\ AllParts(Front(prefix))
         /\ Len(Front(prefix)) \in Nat \ {0}
<1>1. Len(prefix) \in Nat /\ Len(prefix) >= 2
  <2>1. Len(prefix) >= 2
    BY DEF Prefix
  <2> QED
    BY <2>1 DEF IsList
<1>2. \A i \in 1 .. Len(prefix) - 1 : IsPart(prefix[i])
  BY Zenon DEF Prefix, IsPart
<1> DEFINE n == Len(prefix) - 1
<1>3. n \in Nat /\ 1 <= n + 1 /\ n <= Len(prefix) /\ n >= 1 /\ n - 1 + 1 = n
  BY <1>1
<1>4. /\ IsList(SubSeq(prefix, 1, n)) /\ Len(SubSeq(prefix, 1, n)) = n - 1 + 1
      /\ \A i \in 1 .. n - 1 + 1 : SubSeq(prefix, 1, n)[i] = prefix[1 + i - 1]
  <2> HIDE DEF n
  <2> QED
    BY <1>3, PartIs
<1>5. Front(prefix) = SubSeq(prefix, 1, n)
  BY DEF Front
<1> DEFINE f == SubSeq(prefix, 1, n)
<1> HIDE DEF f
<1>6. IsList(f) /\ Len(f) = n /\ \A i \in 1 .. n : f[i] = prefix[i]
  <2>1. \A i \in 1 .. n : 1 + i - 1 = i
    BY <1>3
  <2>2. \A i \in 1 .. n : f[i] = prefix[1 + i - 1]
    BY <1>3, <1>4 DEF f
  <2>3. \A i \in 1 .. n : f[i] = prefix[i]
    BY <2>1, <2>2
  <2> QED
    BY <1>3, <1>4, <2>3 DEF f
<1>7. AllParts(f)
  BY <1>2, <1>6 DEF AllParts
<1> QED
  BY <1>3, <1>5, <1>6, <1>7 DEF f

\* Two lists of parts, one behind the other, are a list of parts.
LEMMA PartsJoined ==
  ASSUME NEW s, IsList(s), AllParts(s), NEW t, IsList(t), AllParts(t)
  PROVE  IsList(s \o t) /\ AllParts(s \o t) /\ Len(s \o t) = Len(s) + Len(t)
<1>1. Joins(s, t, s \o t)
  BY ConcatIs
<1> DEFINE both == s \o t
<1> HIDE DEF both
<1>2. Joins(s, t, both)
  BY <1>1 DEF both
<1>3. Len(s) \in Nat /\ Len(t) \in Nat
  BY DEF IsList
<1>4. ASSUME NEW i \in 1 .. Len(both) PROVE IsPart(both[i])
  <2>1. CASE i \in 1 .. Len(s)
    BY <1>2, <2>1 DEF Joins, AllParts
  <2>2. CASE i \notin 1 .. Len(s)
    <3>1. i - Len(s) \in 1 .. Len(t) /\ Len(s) + (i - Len(s)) = i
      BY <1>2, <1>3, <2>2 DEF Joins
    <3>2. both[i] = t[i - Len(s)]
      BY <1>2, <3>1 DEF Joins
    <3> QED
      BY <3>1, <3>2 DEF AllParts
  <2> QED
    BY <2>1, <2>2
<1> QED
  BY <1>2, <1>4 DEF both, Joins, AllParts

\* What is behind the beginning of a list.
LEMMA CutIs ==
  ASSUME NEW s, IsList(s), NEW t, IsList(t)
  PROVE  SubSeq(s \o t, Len(s) + 1, Len(s \o t)) = t
<1> DEFINE both == s \o t
           rest == SubSeq(both, Len(s) + 1, Len(both))
<1>1. Len(s) \in Nat /\ Len(t) \in Nat
  BY DEF IsList
<1>2. Joins(s, t, both)
  BY ConcatIs
<1> HIDE DEF both
<1>3. /\ Len(s) + 1 \in Nat \ {0} /\ Len(both) \in Nat /\ Len(s) + 1 <= Len(both) + 1
      /\ Len(both) <= Len(both) /\ Len(both) - (Len(s) + 1) + 1 = Len(t) /\ IsList(both)
  BY <1>1, <1>2 DEF Joins
<1>4. /\ IsList(rest) /\ Len(rest) = Len(both) - (Len(s) + 1) + 1
      /\ \A i \in 1 .. Len(both) - (Len(s) + 1) + 1 : rest[i] = both[Len(s) + 1 + i - 1]
  BY <1>3, PartIs
<1> HIDE DEF rest
<1>5. \A i \in 1 .. Len(t) : rest[i] = both[Len(s) + i]
  <2>1. \A i \in 1 .. Len(t) : Len(s) + 1 + i - 1 = Len(s) + i
    BY <1>1
  <2> QED
    BY <1>3, <1>4, <2>1
<1>6. rest = t
  <2>1. Len(rest) = Len(t)
    BY <1>3, <1>4
  <2>2. \A i \in 1 .. Len(rest) : rest[i] = t[i]
    BY <1>2, <1>5, <2>1 DEF Joins
  <2> QED
    BY <1>4, <2>1, <2>2, SameLists
<1> QED
  BY <1>6 DEF both, rest

\* Three lists are one list, whichever two are joined first.
LEMMA JoinedTwice ==
  ASSUME NEW s, IsList(s), NEW t, IsList(t), NEW u, IsList(u)
  PROVE  (s \o t) \o u = s \o (t \o u)
<1> DEFINE S == ({s[i] : i \in 1 .. Len(s)} \cup {t[i] : i \in 1 .. Len(t)})
                  \cup {u[i] : i \in 1 .. Len(u)}
<1>1. s \in Seq(S) /\ t \in Seq(S) /\ u \in Seq(S)
  <2>1. s \in [1 .. Len(s) -> S] /\ Len(s) \in Nat
    BY DEF IsList
  <2>2. t \in [1 .. Len(t) -> S] /\ Len(t) \in Nat
    BY DEF IsList
  <2>3. u \in [1 .. Len(u) -> S] /\ Len(u) \in Nat
    BY DEF IsList
  <2> HIDE DEF S
  <2> QED
    BY <2>1, <2>2, <2>3
<1> HIDE DEF S
<1> QED
  BY <1>1, ConcatAssociative

\* A location below another one.
LEMMA AtIs ==
  ASSUME NEW x, NEW y, NEW z, NEW parts
  PROVE  At([scheme |-> x, host |-> y, path |-> z], parts)
           = [scheme |-> x, host |-> y, path |-> z \o parts]
<1> DEFINE R == [scheme |-> x, host |-> y, path |-> z]
           joined == R.path \o parts
<1>1. joined = z \o parts
  OBVIOUS
<1>2. At(R, parts) = [R EXCEPT !.path = joined]
  BY DEF At
<1>3. [R EXCEPT !.path = joined] = [scheme |-> x, host |-> y, path |-> joined]
  <2> HIDE DEF joined
  <2> QED
    OBVIOUS
<1> HIDE DEF R, joined
<1> QED
  BY <1>1, <1>2, <1>3 DEF R

\* The fields of a location and of a storage.
LEMMA FieldsOf ==
  ASSUME NEW x, NEW y, NEW z, NEW t
  PROVE  /\ [scheme |-> x, host |-> y, path |-> z].path = z
         /\ [type |-> x, bucket |-> y, prefix |-> z, properties |-> t].type = x
         /\ [type |-> x, bucket |-> y, prefix |-> z, properties |-> t].bucket = y
         /\ [type |-> x, bucket |-> y, prefix |-> z, properties |-> t].prefix = z
OBVIOUS

IsLocation(l) == l = [scheme |-> l.scheme, host |-> l.host, path |-> l.path]

\* The storage the manifest names is where the Bundle is, whatever slashes the
\* bucket of the request had.
LEMMA StorageFound ==
  ASSUME NEW s, StorageContext(s), StoragePlannable(s), IsList(s.bucket), IsList(s.prefix),
         ArtifactStorage(s, At(BundleLocation(s), <<"bundle-1">>)) # Bad
  PROVE  LET canonical == At(BundleLocation(s), <<"bundle-1">>)
         IN  /\ StorageRoot(ArtifactStorage(s, canonical)) = canonical
             /\ IsList(canonical.path) /\ IsLocation(canonical)
<1> DEFINE f == Front(s.prefix)
           b == <<"bundle-1">>
           canonical == At(BundleLocation(s), b)
           root == Nonempty(s.bucket)
           e == <<"">>
           h == ""
<1>1. IsList(f) /\ AllParts(f)
  BY PrefixIs DEF StorageContext
<1>2. IsList(b) /\ AllParts(b)
  <2>1. IsPart("bundle-1")
    BY Zenon DEF IsPart
  <2>2. IsList(b) /\ Len(b) = 1 /\ b[1] = "bundle-1"
    BY OneIsList
  <2> HIDE DEF b
  <2> QED
    BY <2>1, <2>2 DEF AllParts
<1>3. IsList(root) /\ AllParts(root)
  BY NonemptyHas
<1>4. IsList(f \o b) /\ AllParts(f \o b)
  <2> HIDE DEF f, b
  <2> QED
    BY <1>1, <1>2, PartsJoined
<1>a. \A x, y, z : IsLocation([scheme |-> x, host |-> y, path |-> z])
  BY DEF IsLocation
<1>5. CASE s.type = "s3"
  <2>1. canonical = [scheme |-> "s3", host |-> Stripped(s.bucket)[1], path |-> f \o b]
    <3>1. BundleLocation(s) = [scheme |-> "s3", host |-> Stripped(s.bucket)[1], path |-> f]
      BY <1>5, Zenon DEF BundleLocation
    <3>2. At([scheme |-> "s3", host |-> Stripped(s.bucket)[1], path |-> f], b)
            = [scheme |-> "s3", host |-> Stripped(s.bucket)[1], path |-> f \o b]
      <4> HIDE DEF f, b
      <4> QED
        BY AtIs
    <3> QED
      BY <3>1, <3>2, Zenon
  <2>2. ArtifactStorage(s, canonical)
          = [type |-> "s3", bucket |-> s.bucket, prefix |-> canonical.path \o e,
             properties |-> s.properties]
    BY <1>5, Zenon DEF ArtifactStorage
  <2>3. canonical.path = f \o b
    BY <2>1, FieldsOf
  <2> HIDE DEF f, b, e, h, canonical
  <2> DEFINE stored == ArtifactStorage(s, canonical)
  <2>4. stored.type = "s3" /\ stored.bucket = s.bucket
    BY <2>2, FieldsOf
  <2>5. stored.prefix = (f \o b) \o e
    BY <2>2, <2>3, FieldsOf
  <2>6. Nonempty(stored.prefix) = f \o b
    BY <1>4, <2>5, NonemptyIs, Zenon DEF e
  <2>7. StorageRoot(stored)
          = [scheme |-> "s3", host |-> Stripped(s.bucket)[1], path |-> f \o b]
    BY <2>4, <2>6 DEF StorageRoot
  <2> QED
    BY <1>4, <1>a, <2>1, <2>3, <2>7 DEF canonical, b
<1>6. CASE s.type # "s3"
  <2>1. canonical = [scheme |-> "file", host |-> h, path |-> (root \o f) \o b]
    <3>1. BundleLocation(s) = [scheme |-> "file", host |-> h, path |-> root \o f]
      BY <1>6, Zenon DEF BundleLocation
    <3>2. At([scheme |-> "file", host |-> h, path |-> root \o f], b)
            = [scheme |-> "file", host |-> h, path |-> (root \o f) \o b]
      <4> HIDE DEF root, f, b, h
      <4> QED
        BY AtIs
    <3> QED
      BY <3>1, <3>2, Zenon
  <2>a. (root \o f) \o b = root \o (f \o b)
    <3> HIDE DEF root, f, b
    <3> QED
      BY <1>1, <1>2, <1>3, JoinedTwice
  <2>2. ArtifactStorage(s, canonical)
          = [type |-> "nas", bucket |-> e \o root,
             prefix |-> SubSeq(canonical.path, Len(root) + 1, Len(canonical.path))
                          \o e,
             properties |-> s.properties]
    BY <1>6, Zenon DEF ArtifactStorage
  <2> HIDE DEF root, f, b, e, h
  <2>3. canonical.path = root \o (f \o b)
    BY <2>1, <2>a, FieldsOf
  <2>4. SubSeq(canonical.path, Len(root) + 1, Len(canonical.path)) = f \o b
    <3> HIDE DEF canonical
    <3> QED
      BY <1>3, <1>4, <2>3, CutIs
  <2> HIDE DEF canonical
  <2> DEFINE stored == ArtifactStorage(s, canonical)
  <2>5. stored.type = "nas" /\ stored.bucket = e \o root
    BY <2>2, FieldsOf
  <2>6. stored.prefix = (f \o b) \o e
    <3> DEFINE rest == SubSeq(canonical.path, Len(root) + 1, Len(canonical.path))
    <3>1. stored = [type |-> "nas", bucket |-> e \o root, prefix |-> rest \o e,
                    properties |-> s.properties]
      BY <2>2, Zenon
    <3> HIDE DEF rest, stored
    <3>2. stored.prefix = rest \o e
      BY <3>1, FieldsOf
    <3> QED
      BY <2>4, <3>2, Zenon DEF rest
  <2>7. Nonempty(stored.prefix) = f \o b
    BY <1>4, <2>6, NonemptyIs, Zenon DEF e
  <2>8. Nonempty(stored.bucket) = root
    BY <1>3, <2>5, NonemptyIs, Zenon DEF e
  <2>9. StorageRoot(stored) = [scheme |-> "file", host |-> h, path |-> root \o (f \o b)]
    BY <2>5, <2>7, <2>8, Zenon DEF StorageRoot, h
  <2>10. canonical = [scheme |-> "file", host |-> h, path |-> root \o (f \o b)]
    BY <2>1, <2>a, Zenon DEF canonical
  <2>11. IsList(canonical.path)
    BY <1>3, <1>4, <2>3, PartsJoined
  <2> QED
    BY <1>a, <2>9, <2>10, <2>11, Zenon DEF canonical, b
<1> QED
  BY <1>5, <1>6

\* What is behind the same beginning of two equal lists is the same.
LEMMA CancelIs ==
  ASSUME NEW s, IsList(s), NEW t, IsList(t), NEW u, IsList(u), s \o t = s \o u
  PROVE  t = u
BY CutIs

\* Locations below one location are equal only if what is behind it is.
LEMMA AtCancels ==
  ASSUME NEW l, IsLocation(l), IsList(l.path), NEW t, IsList(t), NEW u, IsList(u),
         At(l, t) = At(l, u)
  PROVE  t = u
<1> DEFINE x == l.scheme  y == l.host  z == l.path
<1>1. l = [scheme |-> x, host |-> y, path |-> z]
  BY DEF IsLocation
<1>2. ASSUME NEW v
      PROVE  At([scheme |-> x, host |-> y, path |-> z], v)
               = [scheme |-> x, host |-> y, path |-> z \o v]
  <2> HIDE DEF x, y, z
  <2> QED
    BY ONLY AtIs
<1> DEFINE zt == z \o t  zu == z \o u
<1>3. [scheme |-> x, host |-> y, path |-> zt] = [scheme |-> x, host |-> y, path |-> zu]
  <2> HIDE DEF x, y, z
  <2>1. At([scheme |-> x, host |-> y, path |-> z], t)
          = At([scheme |-> x, host |-> y, path |-> z], u)
    BY <1>1
  <2> QED
    BY <1>2, <2>1
<1>4. zt = zu
  <2> HIDE DEF x, y, zt, zu
  <2> QED
    BY <1>3
<1> QED
  BY <1>4, CancelIs

\* The path of a file below its artifact tells the artifact and the path.
FilePath(artifact, file) == <<"artifacts", artifact.name>> \o file.path

\* Two paths below artifacts are equal only with equal names and equal paths,
\* and the last part is that of the file's own path.
LEMMA FilePathIs ==
  ASSUME NEW a, NEW f, IsList(f.path), f.path # <<>>, NEW b, NEW g, IsList(g.path)
  PROVE  /\ IsList(FilePath(a, f)) /\ Last(FilePath(a, f)) = Last(f.path)
         /\ FilePath(a, f) = FilePath(b, g) => a.name = b.name /\ f.path = g.path
<1> DEFINE h == <<"artifacts", a.name>>
           k == <<"artifacts", b.name>>
<1>1. IsList(h) /\ Len(h) = 2 /\ h[2] = a.name
  BY DEF IsList
<1>2. IsList(k) /\ Len(k) = 2 /\ k[2] = b.name
  BY DEF IsList
<1>h. h = <<"artifacts", a.name>> /\ k = <<"artifacts", b.name>>
  OBVIOUS
<1> HIDE DEF h, k
<1>3. Joins(h, f.path, h \o f.path) /\ Joins(k, g.path, k \o g.path)
  BY <1>1, <1>2, ConcatIs
<1>4. FilePath(a, f) = h \o f.path /\ FilePath(b, g) = k \o g.path
  BY <1>h, Zenon DEF FilePath
<1>5. Len(f.path) \in Nat \ {0}
  <2>1. Len(f.path) \in Nat /\ f.path = [i \in 1 .. Len(f.path) |-> f.path[i]]
    BY DEF IsList
  <2>2. CASE Len(f.path) = 0
    <3>1. IsList(<<>>) /\ Len(<<>>) = 0
      BY DEF IsList
    <3>2. f.path = <<>>
      BY <2>2, <3>1, SameLists
    <3> QED
      BY <3>2
  <2> QED
    BY <2>1, <2>2
<1> DEFINE p == h \o f.path
           q == k \o g.path
<1> HIDE DEF p, q
<1>6. /\ IsList(p) /\ Len(p) = 2 + Len(f.path) /\ p[2] = a.name
      /\ p[2 + Len(f.path)] = f.path[Len(f.path)]
  BY <1>1, <1>3, <1>5 DEF p, Joins
<1>7. q[2] = b.name
  BY <1>2, <1>3 DEF q, Joins
<1>8. Last(p) = Last(f.path)
  BY <1>6 DEF Last
<1>9. ASSUME p = q PROVE a.name = b.name /\ f.path = g.path
  <2>1. a.name = b.name
    BY <1>6, <1>7, <1>9
  <2>2. h = k
    BY <1>h, <2>1
  <2>3. h \o f.path = h \o g.path
    BY <1>9, <2>2 DEF p, q
  <2> QED
    BY <1>1, <2>1, <2>3, CancelIs
<1> QED
  BY <1>4, <1>6, <1>8, <1>9 DEF p, q

IsPlaced(files, canonical, artifact) ==
  \A j \in DOMAIN artifact.files :
    Read(files, At(canonical, FilePath(artifact, artifact.files[j]))) = artifact.files[j].content

\* Every file of a Bundle is read where its artifact and its path say.
LEMMA FilesArePlaced ==
  ASSUME NEW canonical, IsLocation(canonical), IsList(canonical.path),
         NEW bundle \in Bundles, NEW old, NEW i \in DOMAIN bundle
  PROVE  IsPlaced(Over(BundleFiles(canonical, bundle), old), canonical, bundle[i])
<1> DEFINE files == UNION {{<<m, n>> : n \in DOMAIN bundle[m].files} : m \in DOMAIN bundle}
           Path(x) == At(canonical, FilePath(bundle[x[1]], bundle[x[1]].files[x[2]]))
           new == BundleFiles(canonical, bundle)
<1>1. \A m \in DOMAIN bundle : \A n \in DOMAIN bundle[m].files :
        IsList(bundle[m].files[n].path) /\ bundle[m].files[n].path # <<>>
  BY StorageAssumption
<1>2. new = [l \in {Path(x) : x \in files} |->
               LET x == CHOOSE y \in files : Path(y) = l
               IN  bundle[x[1]].files[x[2]].content]
  BY DEF BundleFiles, FilePath
<1>3. \A x \in files : \E m \in DOMAIN bundle : \E n \in DOMAIN bundle[m].files : x = <<m, n>>
  OBVIOUS
<1>4. \A m \in DOMAIN bundle : \A n \in DOMAIN bundle[m].files : <<m, n>> \in files
  OBVIOUS
<1> HIDE DEF files, new, Path
<1>5. ASSUME NEW x \in files, NEW y \in files, Path(x) = Path(y) PROVE x = y
  <2>a. PICK m \in DOMAIN bundle : \E n \in DOMAIN bundle[m].files : x = <<m, n>>
    BY <1>3
  <2>1. PICK n \in DOMAIN bundle[m].files : x = <<m, n>>
    BY <2>a
  <2>b. PICK k \in DOMAIN bundle : \E l \in DOMAIN bundle[k].files : y = <<k, l>>
    BY <1>3
  <2>2. PICK l \in DOMAIN bundle[k].files : y = <<k, l>>
    BY <2>b
  <2> DEFINE a == bundle[m]  f == bundle[m].files[n]
             b == bundle[k]  g == bundle[k].files[l]
  <2>3. IsList(f.path) /\ f.path # <<>> /\ IsList(g.path) /\ g.path # <<>>
    BY <1>1
  <2>4. At(canonical, FilePath(a, f)) = At(canonical, FilePath(b, g))
    BY <1>5, <2>1, <2>2 DEF Path
  <2> HIDE DEF a, b, f, g
  <2>5. IsList(FilePath(a, f)) /\ IsList(FilePath(b, g))
    BY <2>3, FilePathIs
  <2>6. FilePath(a, f) = FilePath(b, g)
    BY <2>4, <2>5, AtCancels
  <2>7. a.name = b.name /\ f.path = g.path
    BY <2>3, <2>6, FilePathIs
  <2>8. m = k /\ n = l
    BY <2>7, ExportAssumption DEF a, b, f, g
  <2> QED
    BY <2>1, <2>2, <2>8
<1>6. ASSUME NEW j \in DOMAIN bundle[i].files
      PROVE  Read(Over(new, old), At(canonical, FilePath(bundle[i], bundle[i].files[j])))
               = bundle[i].files[j].content
  <2> DEFINE x == <<i, j>>
             l == Path(x)
             y == CHOOSE z \in files : Path(z) = l
  <2>1. x \in files
    BY <1>4
  <2>2. y \in files /\ Path(y) = l
    BY <2>1
  <2>3. y = x
    <3> HIDE DEF x, y, l
    <3> QED
      BY <1>5, <2>1, <2>2 DEF l
  <2>4. l \in {Path(z) : z \in files}
    BY <2>1
  <2>5. l \in DOMAIN new /\ new[l] = bundle[y[1]].files[y[2]].content
    BY <1>2, <2>4
  <2>6. new[l] = bundle[i].files[j].content
    <3>1. <<i, j>>[1] = i /\ <<i, j>>[2] = j
      OBVIOUS
    <3>2. y = <<i, j>>
      BY <2>3
    <3> HIDE DEF y
    <3> QED
      BY <2>5, <3>1, <3>2
  <2> HIDE DEF l
  <2>7. Read(Over(new, old), l) = new[l]
    BY <2>5 DEF Read, Over
  <2>8. l = At(canonical, FilePath(bundle[i], bundle[i].files[j]))
    BY DEF l, Path
  <2> QED
    BY <2>6, <2>7, <2>8
<1> QED
  BY <1>6 DEF IsPlaced, new

\* What the manifest says of an artifact.
Declared(artifact) ==
  [format |-> ProtocolFormat[artifact.format],
   files  |-> [j \in DOMAIN artifact.files |-> ManifestFile(artifact, artifact.files[j])]]

\* The files of an artifact are declared as they are.
LEMMA DeclaredFiles ==
  ASSUME NEW bundle \in Bundles, NEW i \in DOMAIN bundle
  PROVE  LET a     == bundle[i]
             files == Declared(a).files
         IN  /\ Declared(a).format = ProtocolFormat[a.format]
             /\ DOMAIN files = DOMAIN a.files
             /\ \A j \in DOMAIN a.files :
                  /\ files[j].path = FilePath(a, a.files[j])
                  /\ files[j].size = Contents[a.files[j].content].size
                  /\ files[j].hash = a.files[j].content
                  /\ files[j].tensors = IF a.format = "onnx" THEN a.signature ELSE Missing
                  /\ a.files[j].content \in DOMAIN Contents
                  /\ Last(files[j].path) = Last(a.files[j].path)
                  /\ IsSidecar(files[j]) <=> IsSidecar(a.files[j])
<1> DEFINE a == bundle[i]
           files == Declared(a).files
<1>1. \A j \in DOMAIN a.files : /\ a.files[j].content \in DOMAIN Contents
                                /\ IsList(a.files[j].path) /\ a.files[j].path # <<>>
  BY StorageAssumption
<1>2. Declared(a).format = ProtocolFormat[a.format]
  BY DEF Declared
<1>3. files = [j \in DOMAIN a.files |-> ManifestFile(a, a.files[j])]
  BY DEF Declared
<1> HIDE DEF a, files
<1>4. DOMAIN files = DOMAIN a.files
  BY <1>3
<1>5. ASSUME NEW j \in DOMAIN a.files
      PROVE  /\ files[j].path = FilePath(a, a.files[j])
             /\ files[j].size = Contents[a.files[j].content].size
             /\ files[j].hash = a.files[j].content
             /\ files[j].tensors = IF a.format = "onnx" THEN a.signature ELSE Missing
             /\ Last(files[j].path) = Last(a.files[j].path)
  <2> DEFINE f == a.files[j]
             path == FilePath(a, f)
             names == IF a.format = "onnx" THEN a.signature ELSE Missing
  <2>1. files[j] = [path |-> path, size |-> Contents[f.content].size, hash |-> f.content,
                    tensors |-> names]
    BY <1>3 DEF ManifestFile, FilePath
  <2>2. IsList(f.path) /\ f.path # <<>>
    BY <1>1
  <2>3. Last(path) = Last(f.path)
    <3> HIDE DEF f
    <3> QED
      BY <2>2, FilePathIs
  <2> HIDE DEF path, f, names
  <2>4. files[j].path = path /\ files[j].size = Contents[f.content].size
        /\ files[j].hash = f.content /\ files[j].tensors = names
    BY <2>1
  <2> QED
    BY <2>3, <2>4 DEF path, f, names
<1>6. \A j \in DOMAIN a.files : IsSidecar(files[j]) <=> IsSidecar(a.files[j])
  BY <1>5 DEF IsSidecar
<1> QED
  BY <1>1, <1>2, <1>4, <1>5, <1>6 DEF a, files

\* Checks that all hold fail nowhere.
LEMMA NothingFails ==
  ASSUME NEW checks, \A i \in DOMAIN checks : checks[i][1]
  PROVE  FirstFailure(checks) = "OK"
BY DEF FirstFailure

\* The first failure is the code of a check that fails, and there is one if a
\* check fails.
LEMMA FailingCode ==
  ASSUME NEW checks, DOMAIN checks \subseteq Nat, NEW C,
         \A i \in DOMAIN checks : checks[i][1] \/ checks[i][2] \in C
  PROVE  /\ FirstFailure(checks) \in C \cup {"OK"}
         /\ (\E i \in DOMAIN checks : ~checks[i][1]) => FirstFailure(checks) \in C
<1> DEFINE failing == {i \in DOMAIN checks : ~checks[i][1]}
<1>1. failing \in SUBSET Nat
  OBVIOUS
<1>2. ASSUME failing # {} PROVE FirstFailure(checks) \in C
  <2>1. FirstFailure(checks) = checks[Min(failing)][2]
    BY <1>2 DEF FirstFailure
  <2>2. Min(failing) \in failing
    <3> HIDE DEF failing
    <3> QED
      BY <1>1, <1>2, LeastNumber
  <2> QED
    BY <2>1, <2>2
<1>3. failing = {} => FirstFailure(checks) = "OK"
  BY DEF FirstFailure
<1> QED
  BY <1>2, <1>3

\* What the exporters left is what the verification reads.
LEMMA FilesAccepted ==
  ASSUME NEW bundle \in Bundles, NEW i \in DOMAIN bundle,
         bundle[i].format \in DOMAIN ProtocolFormat,
         NEW files, NEW root, IsPlaced(files, root, bundle[i])
  PROVE  LET alternative == Declared(bundle[i])
         IN  /\ FilesCode(files, root, alternative.files) = "OK"
             /\ \A j \in DOMAIN bundle[i].files :
                  Read(files, At(root, alternative.files[j].path)) = bundle[i].files[j].content
<1> DEFINE a == bundle[i]
           declared == Declared(a).files
<1>1. /\ DOMAIN declared = DOMAIN a.files
      /\ \A j \in DOMAIN a.files :
           /\ declared[j].path = FilePath(a, a.files[j])
           /\ declared[j].size = Contents[a.files[j].content].size
           /\ declared[j].hash = a.files[j].content
           /\ a.files[j].content \in DOMAIN Contents
           /\ IsSidecar(declared[j]) <=> IsSidecar(a.files[j])
  BY DeclaredFiles
<1>2. \A j \in DOMAIN a.files :
        Read(files, At(root, FilePath(a, a.files[j]))) = a.files[j].content
  BY DEF IsPlaced
<1>3. \A j, k \in DOMAIN a.files : IsSidecar(a.files[j]) /\ IsSidecar(a.files[k]) => j = k
  <2>1. WellMade(a)
    BY ExportAssumption
  <2> HIDE DEF a
  <2> QED
    BY <2>1 DEF WellMade
<1>4. IsList(a.files)
  BY StorageAssumption
<1>5. DOMAIN a.files = 1 .. Len(a.files) /\ Len(a.files) \in Nat
  BY <1>4 DEF IsList
<1> HIDE DEF a, declared
<1>6. \A j \in DOMAIN a.files : Read(files, At(root, declared[j].path)) = a.files[j].content
  BY <1>1, <1>2
<1>7. ASSUME NEW j \in DOMAIN declared
      PROVE  FirstFailure(FileChecks(files, root, declared, j)) = "OK"
  <2> DEFINE content == Read(files, At(root, declared[j].path))
             first == IsSidecar(declared[j]) => \A k \in 1 .. j - 1 : ~IsSidecar(declared[k])
             good == content = declared[j].hash /\ Contents[content].size = declared[j].size
             checks == FileChecks(files, root, declared, j)
  <2>1. content = a.files[j].content /\ content \in DOMAIN Contents
    BY <1>1, <1>6
  <2>2. content # Missing /\ content # Bad
    BY <2>1, StorageAssumption
  <2>3. good
    BY <1>1, <2>1
  <2>4. first
    <3> SUFFICES ASSUME IsSidecar(declared[j]), NEW k \in 1 .. j - 1, IsSidecar(declared[k])
                 PROVE  FALSE
      OBVIOUS
    <3>1. j \in 1 .. Len(a.files) /\ k \in 1 .. Len(a.files) /\ k # j
      BY <1>1, <1>5
    <3> QED
      BY <1>1, <1>3, <1>5, <3>1
  <2>5. /\ DOMAIN checks = {1, 2, 3, 4}
        /\ checks[1][1] = (content # Missing) /\ checks[2][1] = (content # Bad)
        /\ checks[3][1] = good /\ checks[4][1] = first
    BY DEF FileChecks
  <2> HIDE DEF content, first, good, checks
  <2>6. checks[1][1] /\ checks[2][1] /\ checks[3][1] /\ checks[4][1]
    BY <2>2, <2>3, <2>4, <2>5
  <2>7. \A m \in DOMAIN checks : checks[m][1]
    BY <2>5, <2>6
  <2>8. FirstFailure(checks) = "OK"
    BY <2>7, NothingFails
  <2> QED
    BY <2>8 DEF checks
<1>8. FilesCode(files, root, declared) = "OK"
  BY <1>7 DEF FilesCode
<1> QED
  BY <1>6, <1>8 DEF a, declared

\* What a training that could be planned says of the model it will fit.
ModelIs(task, mapping, features, classes, objective) ==
  /\ task \in DOMAIN ObjectiveOf /\ objective[1] = ObjectiveOf[task]
  /\ task = "BINARY_CLASSIFICATION" => classes = 2
  /\ task # "REGRESSION" /\ Labels(mapping) # {} => Range(mapping) = 0 .. classes - 1
  /\ classes \in Int
  /\ Cardinality(ToSet(features)) = Len(features)

\* The plan of a training says what its model is.
LEMMA PlannedModel ==
  ASSUME Plannable(doc), plan = TrainingPlan(doc), Listed(doc.features)
  PROVE  ModelIs(doc.target.task_type, doc.target.label_mapping, plan.features, plan.classes,
                 plan.objective)
<1>1. /\ AlgorithmPlannable(doc) /\ EncoderPlannable(doc)
      /\ Features(doc.features, Aliases(doc.tables))
  BY DEF Plannable, ValidTraining
<1>2. /\ plan.features = FeatureNames(doc) /\ plan.classes = ClassCount(doc)
      /\ plan.objective = Objective(doc)
  BY DEF TrainingPlan
<1>3. /\ doc.target.task_type \in DOMAIN ObjectiveOf /\ ClassCount(doc) \in Int
      /\ Objective(doc)[1] = ObjectiveOf[doc.target.task_type]
  BY <1>1 DEF AlgorithmPlannable, ObjectivePlannable, AtLeast
<1>4. doc.target.task_type = "BINARY_CLASSIFICATION" => ClassCount(doc) = 2
  BY DEF ClassCount
<1>5. Cardinality(ToSet(FeatureNames(doc))) = Len(FeatureNames(doc))
  <2> DEFINE features == doc.features
             S == {features[i].result_column : i \in DOMAIN features}
  <2>1. Obj(features) /\ Cardinality(S) = Len(features)
    BY <1>1 DEF Features, ResultColumns
  <2>2. Len(features) \in Nat /\ DOMAIN features = 1 .. Len(features)
    BY <2>1, ListIsSeq
  <2>3. FeatureNames(doc) = [i \in 1 .. Len(features) |-> features[i].result_column]
    BY <2>2 DEF FeatureNames
  <2>4. FeatureNames(doc) \in [1 .. Len(features) -> S]
    BY <2>2, <2>3
  <2>5. ToSet(FeatureNames(doc)) = S
    BY <2>2, <2>3 DEF ToSet
  <2> HIDE DEF S, features
  <2>6. Len(FeatureNames(doc)) = Len(features)
    BY <2>2, <2>4
  <2> QED
    BY <2>1, <2>5, <2>6
<1> QED
  BY <1>1, <1>2, <1>3, <1>4, <1>5 DEF ModelIs, EncoderPlannable

\* The weights of an artifact, their names, and where these come from.
LEMMA WeightsAre ==
  ASSUME NEW bundle \in Bundles, NEW i \in DOMAIN bundle,
         bundle[i].format \in DOMAIN ProtocolFormat,
         NEW files, NEW root, IsPlaced(files, root, bundle[i])
  PROVE  LET a           == bundle[i]
             alternative == Declared(a)
         IN  /\ Cardinality(WeightFiles(alternative)) = 1
             /\ \E j, k \in DOMAIN a.files :
                  LET content == Contents[a.files[j].content]
                      names   == Contents[a.files[k].content].names
                  IN  /\ Read(files, At(root, WeightFile(alternative).path)) = a.files[j].content
                      /\ WeightFile(alternative).tensors
                           = IF a.format = "onnx" THEN a.signature ELSE Missing
                      /\ NamesIn(files, root, alternative) = names
                      /\ content.loads /\ content.format = a.format
                      /\ a.format = "onnx" => WellNamed(content, a.signature)
                      /\ content.objective[1] # "reg" => content.classes # Missing
                      /\ names # <<>> /\ content.width \in {0, Len(names)}
<1> DEFINE a == bundle[i]
           alternative == Declared(a)
           weights  == {j \in DOMAIN a.files :
                          Last(a.files[j].path) = WeightName[ProtocolFormat[a.format]]}
           sidecars == {j \in DOMAIN a.files : IsSidecar(a.files[j])}
           Names(j) == Contents[a.files[j].content].names
<1>1. /\ alternative.format = ProtocolFormat[a.format]
      /\ DOMAIN alternative.files = DOMAIN a.files
      /\ \A j \in DOMAIN a.files :
           /\ Last(alternative.files[j].path) = Last(a.files[j].path)
           /\ IsSidecar(alternative.files[j]) <=> IsSidecar(a.files[j])
           /\ alternative.files[j].tensors
                = IF a.format = "onnx" THEN a.signature ELSE Missing
  BY DeclaredFiles
<1>2. \A j \in DOMAIN a.files :
        Read(files, At(root, alternative.files[j].path)) = a.files[j].content
  BY FilesAccepted
<1>3. /\ Cardinality(weights) = 1
      /\ \A j \in weights :
           LET content  == Contents[a.files[j].content]
               nameless == content.names = <<>> /\ a.format = "ubj" /\ sidecars # {}
               names    == Names(IF nameless THEN Min(sidecars) ELSE j)
           IN  /\ content.loads /\ content.format = a.format
               /\ a.format = "onnx" => WellNamed(content, a.signature)
               /\ content.objective[1] # "reg" => content.classes # Missing
               /\ names # <<>> /\ content.width \in {0, Len(names)}
  <2>1. WellMade(a)
    BY ExportAssumption
  <2> HIDE DEF a
  <2> QED
    BY <2>1 DEF WellMade
<1>4. IsList(a.files)
  BY StorageAssumption
<1>5. alternative.format = "xgboost" <=> a.format = "ubj"
  BY <1>1 DEF ProtocolFormat
<1> HIDE DEF a, alternative
<1>6. DOMAIN a.files = 1 .. Len(a.files) /\ Len(a.files) \in Nat
  BY <1>4 DEF IsList
<1>7. WeightFiles(alternative) = weights
  BY <1>1 DEF WeightFiles
<1>8. {j \in DOMAIN alternative.files : IsSidecar(alternative.files[j])} = sidecars
  BY <1>1
<1>9. PICK w \in DOMAIN a.files : weights = {w}
  <2>1. weights \subseteq 1 .. Len(a.files) /\ IsFiniteSet(1 .. Len(a.files))
    BY <1>6, FS_Interval
  <2> HIDE DEF weights
  <2>2. IsFiniteSet(weights)
    BY <2>1, FS_Subset
  <2>3. \E w : weights = {w}
    BY <1>3, <2>2, FS_Singleton
  <2> QED
    BY <1>6, <2>1, <2>3
<1> HIDE DEF weights
<1>10. WeightFile(alternative) = alternative.files[w]
  BY <1>7, <1>9 DEF WeightFile
<1> DEFINE content == Contents[a.files[w].content]
           nameless == content.names = <<>> /\ a.format = "ubj" /\ sidecars # {}
           k == IF nameless THEN Min(sidecars) ELSE w
<1>11. /\ Read(files, At(root, WeightFile(alternative).path)) = a.files[w].content
       /\ WeightFile(alternative).tensors = IF a.format = "onnx" THEN a.signature ELSE Missing
  BY <1>1, <1>2, <1>10
<1>12. sidecars # {} => Min(sidecars) \in sidecars
  <2>1. sidecars \in SUBSET Nat
    BY <1>6
  <2> HIDE DEF sidecars
  <2> QED
    BY <2>1, LeastNumber
<1>13. k \in DOMAIN a.files
  BY <1>9, <1>12
<1>14. NamesIn(files, root, alternative) = Names(k)
  <2>1. NamesIn(files, root, alternative)
          = IF content.names = <<>> /\ alternative.format = "xgboost" /\ sidecars # {}
            THEN Contents[Read(files, At(root, alternative.files[Min(sidecars)].path))].names
            ELSE content.names
    BY <1>8, <1>11 DEF NamesIn
  <2>2. sidecars # {} =>
          Read(files, At(root, alternative.files[Min(sidecars)].path))
            = a.files[Min(sidecars)].content
    BY <1>2, <1>12
  <2> HIDE DEF sidecars
  <2> QED
    BY <1>5, <2>1, <2>2
<1>15. /\ content.loads /\ content.format = a.format
       /\ a.format = "onnx" => WellNamed(content, a.signature)
       /\ content.objective[1] # "reg" => content.classes # Missing
       /\ Names(k) # <<>> /\ content.width \in {0, Len(Names(k))}
  BY <1>3, <1>9
<1> HIDE DEF k
<1>16. Cardinality(WeightFiles(alternative)) = 1
  BY <1>3, <1>7
<1> QED
  BY <1>11, <1>13, <1>14, <1>15, <1>16 DEF a, alternative

\* The verification accepts an alternative, as the model with these names and
\* classes, unless it is a native model with an objective that no inference takes.
AcceptedAs(files, root, alternative, model, features, classes) ==
  LET content == Contents[Read(files, At(root, WeightFile(alternative).path))]
  IN  /\ Cardinality(WeightFiles(alternative)) = 1
      /\ FilesCode(files, root, alternative.files) = "OK"
      /\ NamesIn(files, root, alternative) = features
      /\ SchemaCode(content, alternative, features, model)
           = IF \/ alternative.format # "xgboost"
                \/ NativeObjective(content.objective, model.task_type)
             THEN "OK" ELSE "MODEL_SCHEMA_MISMATCH"
      /\ ClassesIn(content, model.task_type)
           = IF model.task_type = "REGRESSION" THEN Missing ELSE classes

\* What a fit leaves is accepted as the model that was fitted.
LEMMA ArtifactAccepted ==
  ASSUME NEW bundle \in Bundles, NEW i \in DOMAIN bundle,
         bundle[i].format \in DOMAIN ProtocolFormat,
         NEW files, NEW root, IsPlaced(files, root, bundle[i]),
         NEW model, NEW features, NEW classes, NEW objective,
         ModelIs(model.task_type, model.label_mapping, features, classes, objective),
         \A j \in DOMAIN bundle[i].files :
           LET content == Contents[bundle[i].files[j].content] IN
           /\ content.names \in {<<>>, features}
           /\ content.format # "json" =>
                content.objective = objective /\ content.classes \in {Missing, classes}
  PROVE  AcceptedAs(files, root, Declared(bundle[i]), model, features, classes)
<1> DEFINE a == bundle[i]
           alternative == Declared(a)
           task == model.task_type
<1>1. Cardinality(WeightFiles(alternative)) = 1
  BY WeightsAre
<1>a. \E j, k \in DOMAIN a.files :
        LET content == Contents[a.files[j].content]
            names   == Contents[a.files[k].content].names
        IN  /\ Read(files, At(root, WeightFile(alternative).path)) = a.files[j].content
            /\ WeightFile(alternative).tensors
                 = IF a.format = "onnx" THEN a.signature ELSE Missing
            /\ NamesIn(files, root, alternative) = names
            /\ content.loads /\ content.format = a.format
            /\ a.format = "onnx" => WellNamed(content, a.signature)
            /\ content.objective[1] # "reg" => content.classes # Missing
            /\ names # <<>> /\ content.width \in {0, Len(names)}
  BY WeightsAre
<1>b. /\ FilesCode(files, root, alternative.files) = "OK"
      /\ alternative.format = ProtocolFormat[a.format]
  BY FilesAccepted, DeclaredFiles
<1>c. \A j \in DOMAIN a.files :
        LET content == Contents[a.files[j].content] IN
        /\ content.names \in {<<>>, features}
        /\ content.format # "json" =>
             content.objective = objective /\ content.classes \in {Missing, classes}
  OBVIOUS
<1>d. a.format \in {"onnx", "ubj"}
  BY DEF ProtocolFormat
<1> HIDE DEF a, alternative
<1>2. PICK j \in DOMAIN a.files, k \in DOMAIN a.files :
        LET content == Contents[a.files[j].content]
            names   == Contents[a.files[k].content].names
        IN  /\ Read(files, At(root, WeightFile(alternative).path)) = a.files[j].content
            /\ WeightFile(alternative).tensors
                 = IF a.format = "onnx" THEN a.signature ELSE Missing
            /\ NamesIn(files, root, alternative) = names
            /\ content.loads /\ content.format = a.format
            /\ a.format = "onnx" => WellNamed(content, a.signature)
            /\ content.objective[1] # "reg" => content.classes # Missing
            /\ names # <<>> /\ content.width \in {0, Len(names)}
  BY <1>a
<1> DEFINE content == Contents[a.files[j].content]
           names   == Contents[a.files[k].content].names
<1>3. names = features /\ features # <<>>
  BY <1>2, <1>c
<1>4. /\ content.loads /\ content.format = a.format
      /\ a.format = "onnx" => WellNamed(content, a.signature)
      /\ content.objective = objective
      /\ objective[1] # "reg" => content.classes = classes
      /\ content.width \in {0, Len(features)}
  <2>1. content.objective = objective /\ content.classes \in {Missing, classes}
    BY <1>2, <1>c, <1>d
  <2> QED
    BY <1>2, <1>3, <2>1
<1>5. Contents[Read(files, At(root, WeightFile(alternative).path))] = content
  BY <1>2
<1>6. /\ NamesIn(files, root, alternative) = features
      /\ WeightFile(alternative).tensors = IF a.format = "onnx" THEN a.signature ELSE Missing
  BY <1>2, <1>3
<1> HIDE DEF content, names, task
<1>7. /\ task \in {"BINARY_CLASSIFICATION", "MULTICLASS_CLASSIFICATION", "REGRESSION"}
      /\ objective[1] = ObjectiveOf[task]
      /\ objective[1] = "reg" <=> task = "REGRESSION"
  BY DEF task, ModelIs, ObjectiveOf
<1>e. a.format = "onnx" =>
        content.tensors = DeclaredTensors(WeightFile(alternative), task)
  <2> SUFFICES ASSUME a.format = "onnx"
               PROVE  content.tensors = DeclaredTensors(WeightFile(alternative), task)
    OBVIOUS
  <2> DEFINE given == WeightFile(alternative).tensors
             sides == {"inputs", "outputs"}
             outputs == IF task = "REGRESSION" THEN <<"prediction">>
                        ELSE <<"label", "probabilities">>
  <2>1. /\ content.tensors = given /\ given # Missing
        /\ given = [side \in sides |-> given[side]]
        /\ Len(given.inputs) = 1
        /\ Len(given.outputs) = IF task = "REGRESSION" THEN 1 ELSE 2
    BY <1>4, <1>6, <1>7 DEF WellNamed
  <2>2. Len(outputs) = IF task = "REGRESSION" THEN 1 ELSE 2
    OBVIOUS
  <2>3. /\ Signature(task)["inputs"] = <<"float_input">>
        /\ Signature(task)["outputs"] = outputs
    BY DEF Signature
  <2>4. Len(<<"float_input">>) = 1
    OBVIOUS
  <2>5. \A side \in sides : Len(given[side]) = Len(Signature(task)[side])
    <3> HIDE DEF given, outputs
    <3> QED
      BY <2>1, <2>2, <2>3, <2>4
  <2>6. DeclaredTensors(WeightFile(alternative), task)
          = [side \in sides |->
               IF given # Missing /\ Len(given[side]) = Len(Signature(task)[side])
               THEN given[side] ELSE Signature(task)[side]]
    BY DEF DeclaredTensors
  <2> HIDE DEF given, sides
  <2> QED
    BY <2>1, <2>5, <2>6
<1>8. ClassesIn(content, task) = IF task = "REGRESSION" THEN Missing ELSE classes
  <2>1. CASE task = "REGRESSION"
    BY <2>1 DEF ClassesIn
  <2>2. CASE task = "BINARY_CLASSIFICATION"
    BY <1>4, <1>7, <2>2 DEF ClassesIn, ModelIs, task
  <2>3. CASE task = "MULTICLASS_CLASSIFICATION"
    BY <1>4, <1>7, <2>3 DEF ClassesIn
  <2> QED
    BY <1>7, <2>1, <2>2, <2>3
<1>9. SchemaCode(content, alternative, features, model)
        = IF alternative.format # "xgboost" \/ NativeObjective(content.objective, task)
          THEN "OK" ELSE "MODEL_SCHEMA_MISMATCH"
  <2> DEFINE format == alternative.format
             found  == ClassesIn(content, task)
             onnx   == format = "onnx"
             loads  == content.loads /\ ProtocolFormat[content.format] = format
             inside == onnx => ~content.external
             named  == onnx => content.tensors = DeclaredTensors(WeightFile(alternative), task)
             native == ~onnx => NativeObjective(content.objective, task)
             told   == onnx /\ task # "REGRESSION" => found # Missing
             shaped == onnx => content.shaped
             width  == content.width \in {0, Len(features)}
             apart  == features # <<>> /\ Cardinality(ToSet(features)) = Len(features)
             fits   == found # Missing =>
                         /\ task = "BINARY_CLASSIFICATION" => found = 2
                         /\ Labels(model.label_mapping) # {} =>
                              Range(model.label_mapping) = 0 .. found - 1
             checks == << <<loads, "MODEL_LOAD_FAILED">>,
                          <<inside, "MODEL_FORMAT_UNSUPPORTED">>,
                          <<named, "MODEL_SCHEMA_MISMATCH">>,
                          <<native, "MODEL_SCHEMA_MISMATCH">>,
                          <<told, "MODEL_SCHEMA_MISMATCH">>,
                          <<shaped, "MODEL_SCHEMA_MISMATCH">>,
                          <<width, "MODEL_SCHEMA_MISMATCH">>,
                          <<apart, "MODEL_SCHEMA_MISMATCH">>,
                          <<fits, "MODEL_SCHEMA_MISMATCH">> >>
  <2>1. SchemaCode(content, alternative, features, model) = FirstFailure(checks)
    BY DEF SchemaCode, task
  <2>2. loads /\ width
    BY <1>4, <1>b
  <2>a. onnx <=> a.format = "onnx"
    BY <1>b, <1>d DEF ProtocolFormat
  <2>3. inside /\ named /\ shaped
    BY <1>4, <1>e, <2>a DEF WellNamed
  <2>4. apart
    BY <1>3 DEF ModelIs
  <2>5. told
    <3>1. classes # Missing
      BY ValueAssumption DEF ModelIs
    <3> QED
      BY <1>8, <3>1
  <2>6. fits
    <3> SUFFICES ASSUME found # Missing PROVE fits
      OBVIOUS
    <3>1. task # "REGRESSION" /\ found = classes
      BY <1>8
    <3> QED
      BY <3>1 DEF ModelIs, task
  <2>7. /\ DOMAIN checks = {1, 2, 3, 4, 5, 6, 7, 8, 9}
        /\ checks[1][1] = loads /\ checks[2][1] = inside /\ checks[3][1] = named
        /\ checks[4][1] = native /\ checks[5][1] = told /\ checks[6][1] = shaped
        /\ checks[7][1] = width /\ checks[8][1] = apart /\ checks[9][1] = fits
        /\ checks[4][2] = "MODEL_SCHEMA_MISMATCH"
    <3> HIDE DEF loads, inside, named, native, told, shaped, width, apart, fits
    <3> QED
      OBVIOUS
  <2> HIDE DEF checks, loads, inside, named, told, shaped, width, apart, fits, onnx
  <2>b. native <=> format # "xgboost" \/ NativeObjective(content.objective, task)
    BY <1>b, <1>d DEF native, onnx, ProtocolFormat
  <2> HIDE DEF native, format
  <2>8. CASE native
    <3>1. \A m \in DOMAIN checks : checks[m][1]
      BY <2>2, <2>3, <2>4, <2>5, <2>6, <2>7, <2>8
    <3> QED
      BY <2>1, <2>8, <2>b, <3>1, NothingFails DEF format
  <2>9. CASE ~native
    <3>1. DOMAIN checks \subseteq Nat /\ 4 \in DOMAIN checks /\ ~checks[4][1]
      BY <2>7, <2>9
    <3>2. \A m \in DOMAIN checks :
            checks[m][1] \/ checks[m][2] \in {"MODEL_SCHEMA_MISMATCH"}
      BY <2>2, <2>3, <2>4, <2>5, <2>6, <2>7
    <3>3. FirstFailure(checks) \in {"MODEL_SCHEMA_MISMATCH"}
      BY <3>1, <3>2, FailingCode
    <3> QED
      BY <2>1, <2>9, <2>b, <3>3 DEF format
  <2> QED
    BY <2>8, <2>9
<1> QED
  BY <1>1, <1>b, <1>5, <1>6, <1>8, <1>9 DEF AcceptedAs, a, alternative, task

\* The models of a Bundle are artifacts of it, in both formats.
LEMMA ModelsOfBundle ==
  ASSUME NEW bundle \in Bundles, ArtifactsPublishable(bundle)
  PROVE  LET models == ModelArtifacts(bundle)
         IN  /\ IsList(models)
             /\ \A i \in DOMAIN models :
                  /\ models[i].format \in DOMAIN ProtocolFormat
                  /\ \E k \in DOMAIN bundle : models[i] = bundle[k]
             /\ \A format \in {"onnx", "xgboost"} :
                  \E i \in DOMAIN models : ProtocolFormat[models[i].format] = format
<1> DEFINE positions == {i \in DOMAIN bundle : bundle[i].format \in DOMAIN ProtocolFormat}
           models == ModelArtifacts(bundle)
<1>1. IsList(bundle)
  BY StorageAssumption
<1>2. DOMAIN bundle = 1 .. Len(bundle)
  BY <1>1 DEF IsList
<1>3. models = Subsequence(bundle, positions)
  BY DEF ModelArtifacts
<1> HIDE DEF positions
<1>4. /\ IsList(Subsequence(bundle, positions))
      /\ \A i \in 1 .. Len(Subsequence(bundle, positions)) :
           \E j \in 1 .. Len(bundle) :
             j \in positions /\ Subsequence(bundle, positions)[i] = bundle[j]
  BY <1>1, KeptAre
<1>5. {models[i].format : i \in DOMAIN models} = DOMAIN ProtocolFormat
  BY DEF ArtifactsPublishable
<1> HIDE DEF models
<1>6. DOMAIN models = 1 .. Len(models)
  BY <1>3, <1>4 DEF IsList
<1>7. \A i \in DOMAIN models : \E k \in DOMAIN bundle : models[i] = bundle[k]
  BY <1>2, <1>3, <1>4, <1>6
<1>8. \A i \in DOMAIN models : models[i].format \in DOMAIN ProtocolFormat
  BY <1>5
<1>9. \A format \in {"onnx", "xgboost"} :
        \E i \in DOMAIN models : ProtocolFormat[models[i].format] = format
  <2>1. \A f \in DOMAIN ProtocolFormat : \E i \in DOMAIN models : models[i].format = f
    BY <1>5
  <2>2. \A format \in {"onnx", "xgboost"} :
          \E f \in DOMAIN ProtocolFormat : ProtocolFormat[f] = format
    BY DEF ProtocolFormat
  <2> QED
    BY <2>1, <2>2
<1> QED
  BY <1>3, <1>4, <1>7, <1>8, <1>9 DEF models

\* A manifest is intact if every alternative of it is accepted as one model, and
\* there is one for each purpose.
LEMMA AcceptedIsIntact ==
  ASSUME NEW files, NEW model, NEW features, NEW classes,
         DOMAIN model.model_artifacts = {"model_weights"},
         NEW alternatives, alternatives = model.model_artifacts["model_weights"].alternatives,
         DOMAIN alternatives \in SUBSET Nat,
         \A i \in DOMAIN alternatives :
           /\ alternatives[i].format \in {"onnx", "xgboost"}
           /\ AcceptedAs(files, StorageRoot(model.storage), alternatives[i], model,
                         features, classes),
         \A format \in {"onnx", "xgboost"} :
           \E i \in DOMAIN alternatives : alternatives[i].format = format
  PROVE  Intact(files, model)
<1> DEFINE artifacts == model.model_artifacts
           root == StorageRoot(model.storage)
<1>1. Usable(artifacts) = DOMAIN alternatives
  BY DEF Usable, AcceptedAs, WeightName
<1>2. ASSUME NEW format \in {"onnx", "xgboost"}
      PROVE  /\ Alternative(artifacts, format).format = format
             /\ \E i \in DOMAIN alternatives : Alternative(artifacts, format) = alternatives[i]
  <2> DEFINE wanted == {i \in Usable(artifacts) : alternatives[i].format = format}
  <2>1. wanted # {} /\ wanted \in SUBSET Nat
    BY <1>1
  <2>2. Alternative(artifacts, format) = alternatives[Min(wanted)]
    BY <2>1 DEF Alternative
  <2>3. Min(wanted) \in wanted
    <3> HIDE DEF wanted
    <3> QED
      BY <2>1, LeastNumber
  <2> QED
    BY <1>1, <2>2, <2>3
<1>3. ASSUME NEW format \in {"onnx", "xgboost"}
      PROVE  AcceptedAs(files, root, Alternative(artifacts, format), model, features, classes)
  BY <1>2
<1>4. ASSUME NEW format \in {"onnx", "xgboost"}
      PROVE  LET a == Alternative(artifacts, format)
                 content == Contents[Read(files, At(root, WeightFile(a).path))]
             IN  VerifiedCode(files, model, format)
                   = IF a.format # "xgboost" \/ NativeObjective(content.objective, model.task_type)
                     THEN "OK" ELSE "MODEL_SCHEMA_MISMATCH"
  BY <1>3 DEF VerifiedCode, AcceptedAs
<1>5. Usable(artifacts) # {}
  BY <1>1
<1> DEFINE onnx == Alternative(artifacts, "onnx")
           native == Alternative(artifacts, "xgboost")
<1>6. AcceptedAs(files, root, onnx, model, features, classes)
      /\ AcceptedAs(files, root, native, model, features, classes)
  BY <1>3
<1>7. onnx.format = "onnx" /\ native.format = "xgboost"
  BY <1>2
<1>a. /\ VerifiedCode(files, model, "onnx") = "OK"
      /\ VerifiedCode(files, model, "xgboost")
           = IF Explainable(files, model) THEN "OK" ELSE "MODEL_SCHEMA_MISMATCH"
  BY <1>4, <1>7 DEF Explainable
<1> HIDE DEF onnx, native
<1>8. NamesIn(files, root, onnx) = NamesIn(files, root, native)
  BY <1>6 DEF AcceptedAs
<1>9. ClassesIn(Contents[Read(files, At(root, WeightFile(onnx).path))], model.task_type)
        = ClassesIn(Contents[Read(files, At(root, WeightFile(native).path))], model.task_type)
  BY <1>6 DEF AcceptedAs
<1> QED
  BY <1>5, <1>7, <1>8, <1>9, <1>a DEF Intact, onnx, native

\* What a training publishes is intact, among the files it has just written.
LEMMA PublishedIsIntact ==
  ASSUME Plannable(doc), plan = TrainingPlan(doc), Listed(doc.features),
         IsList(doc.storage_context.bucket), IsList(doc.storage_context.prefix),
         NEW bundle \in Bundles, Exports(bundle), ArtifactsPublishable(bundle),
         NEW canonical, canonical = At(plan.bundle, <<"bundle-1">>),
         ArtifactStorage(doc.storage_context, canonical) # Bad,
         NEW files, files = Over(BundleFiles(canonical, bundle), store)
  PROVE  Intact(files, TrainedModel(Manifest(doc, canonical, bundle)))
<1> DEFINE models == ModelArtifacts(bundle)
           model  == TrainedModel(Manifest(doc, canonical, bundle))
           alternatives == [i \in DOMAIN models |-> Declared(models[i])]
<1>1. /\ StorageRoot(ArtifactStorage(doc.storage_context, canonical)) = canonical
      /\ IsList(canonical.path) /\ IsLocation(canonical)
  <2>1. StorageContext(doc.storage_context) /\ StoragePlannable(doc.storage_context)
    BY DEF Plannable, ValidTraining
  <2>2. canonical = At(BundleLocation(doc.storage_context), <<"bundle-1">>)
    BY DEF TrainingPlan
  <2> QED
    BY <2>1, <2>2, StorageFound
<1>2. /\ model.storage = ArtifactStorage(doc.storage_context, canonical)
      /\ model.task_type = doc.target.task_type
      /\ model.label_mapping = doc.target.label_mapping
      /\ DOMAIN model.model_artifacts = {"model_weights"}
      /\ model.model_artifacts["model_weights"].alternatives = alternatives
  BY DEF TrainedModel, Manifest, Declared
<1>3. /\ IsList(models)
      /\ \A i \in DOMAIN models :
           /\ models[i].format \in DOMAIN ProtocolFormat
           /\ \E k \in DOMAIN bundle : models[i] = bundle[k]
      /\ \A format \in {"onnx", "xgboost"} :
           \E i \in DOMAIN models : ProtocolFormat[models[i].format] = format
  BY ModelsOfBundle
<1>4. ModelIs(model.task_type, model.label_mapping, plan.features, plan.classes,
              plan.objective)
  BY <1>2, PlannedModel
<1>5. ASSUME NEW i \in DOMAIN models
      PROVE  AcceptedAs(files, canonical, Declared(models[i]), model, plan.features,
                        plan.classes)
  <2>1. PICK k \in DOMAIN bundle : models[i] = bundle[k]
    BY <1>3
  <2>2. IsPlaced(files, canonical, bundle[k])
    BY <1>1, FilesArePlaced
  <2>3. bundle[k].format \in DOMAIN ProtocolFormat
    BY <1>3, <2>1
  <2>4. \A j \in DOMAIN bundle[k].files :
          LET content == Contents[bundle[k].files[j].content] IN
          /\ content.names \in {<<>>, plan.features}
          /\ content.format # "json" =>
               content.objective = plan.objective /\ content.classes \in {Missing, plan.classes}
    BY <1>2 DEF Exports
  <2> HIDE DEF model, models
  <2>5. AcceptedAs(files, canonical, Declared(bundle[k]), model, plan.features, plan.classes)
    BY <1>4, <2>2, <2>3, <2>4, ArtifactAccepted
  <2> QED
    BY <2>1, <2>5
<1>6. /\ DOMAIN alternatives = DOMAIN models
      /\ \A i \in DOMAIN alternatives :
           alternatives[i].format = ProtocolFormat[models[i].format]
  BY DEF Declared
<1>7. DOMAIN models \in SUBSET Nat
  BY <1>3 DEF IsList
<1> HIDE DEF model, models, alternatives
<1>8. \A i \in DOMAIN alternatives : alternatives[i].format \in {"onnx", "xgboost"}
  BY <1>3, <1>6 DEF ProtocolFormat
<1>9. \A i \in DOMAIN alternatives :
        AcceptedAs(files, StorageRoot(model.storage), alternatives[i], model,
                   plan.features, plan.classes)
  BY <1>1, <1>2, <1>5, <1>6 DEF alternatives
<1>10. \A format \in {"onnx", "xgboost"} :
         \E i \in DOMAIN alternatives : alternatives[i].format = format
  BY <1>3, <1>6
<1>11. Intact(files, model)
  BY <1>2, <1>6, <1>7, <1>8, <1>9, <1>10, AcceptedIsIntact
<1> QED
  BY <1>11 DEF model

-----------------------------------------------------------------------------
(* A published model is found.                                             *)

PubInv == PublishedInv /\ PublishedIsFound
Live   == Trained /\ op = "inference" /\ tampers = 0

\* The codes that refuse a model.
Refusals == {"MODEL_FORMAT_UNSUPPORTED", "MODEL_ARTIFACT_NOT_FOUND",
             "MODEL_ARTIFACT_CORRUPTED", "MODEL_LOAD_FAILED", "MODEL_SCHEMA_MISMATCH"}

\* A step that keeps the files and the model, and does not refuse it.
LEMMA StaysFound ==
  ASSUME PubInv, pc' \notin {"published", "explainer"},
         op' = op, store' = store, published' = published, tampers' = tampers,
         edits \subseteq edits', Live' => doc'.model = doc.model,
         Live => code' \notin Refusals
  PROVE  PubInv'
<1>1. Live' => Live
  BY DEF Live, Trained
<1>2. Live => Intact(store, doc.model)
  BY DEF PubInv, PublishedInv, Live
<1>3. Live' => Intact(store', doc'.model)
  BY <1>1, <1>2
<1>4. PublishedInv'
  BY <1>3 DEF PublishedInv, Live
<1>5. PublishedIsFound'
  BY <1>1 DEF PublishedIsFound, Live, Refusals
<1> QED
  BY <1>4, <1>5 DEF PubInv

\* A training has nothing to find yet.
LEMMA OfTraining ==
  ASSUME op' = "training", pc' # "published"
  PROVE  PubInv'
BY DEF PubInv, PublishedInv, PublishedIsFound

\* A request with an intact model is planned, or refused for something else.
LEMMA IntactIsBuilt ==
  ASSUME NEW files, NEW p, Intact(files, p.model)
  PROVE  InferenceCode(p) \in {"OK", "INVALID_PAYLOAD"}
<1> DEFINE more == /\ IsBinary(p.model) => PositiveIndex(p.model) # Bad
                   /\ ~Given(p.input.timeseries_pivot)
                   /\ FilterOK(p.model, p.output.result_filter)
                   /\ LayoutOK(p.input)
                   /\ QueryOK(p.input)
                   /\ ClickHouse(p.input.datasource)
                   /\ LET actors == Field(p.execution, "concurrency", Missing) IN
                      Given(actors) => AtLeast(actors, 1)
           checks == << <<ValidInference(p), "INVALID_PAYLOAD">>,
                        <<ValidInference(p) => more, "INVALID_PAYLOAD">> >>
           a == StorageRootOK(p.model.storage)
           b == ManifestOK(p.model.model_artifacts)
           c == PartsSupported(p.model.model_artifacts)
           references == << <<a, "INVALID_PAYLOAD">>, <<b, "INVALID_PAYLOAD">>,
                            <<b => c, "MODEL_FORMAT_UNSUPPORTED">> >>
<1>1. FirstFailure(checks) \in {"INVALID_PAYLOAD", "OK"}
  <2> HIDE DEF more
  <2>1. /\ DOMAIN checks \subseteq Nat
        /\ \A i \in DOMAIN checks : checks[i][2] \in {"INVALID_PAYLOAD"}
    OBVIOUS
  <2> HIDE DEF checks
  <2>2. FirstFailure(checks) \in {"INVALID_PAYLOAD"} \cup {"OK"}
    BY <2>1, FailureCode
  <2> QED
    BY <2>2
<1>2. ReferenceCode(p.model) \in {"INVALID_PAYLOAD", "OK"}
  <2>1. ReferenceCode(p.model) = FirstFailure(references)
    BY DEF ReferenceCode
  <2>2. c
    BY DEF Intact, PartsSupported
  <2> HIDE DEF a, b, c
  <2> DEFINE d == b => c
  <2>a. d
    BY <2>2
  <2> HIDE DEF d
  <2>b. /\ DOMAIN references = 1 .. 3 /\ references[3][1] = d
        /\ references[1][2] = "INVALID_PAYLOAD" /\ references[2][2] = "INVALID_PAYLOAD"
    BY DEF d
  <2> HIDE DEF references
  <2>d. references[3][1]
    BY <2>a, <2>b, Zenon
  <2>3. /\ DOMAIN references \subseteq Nat
        /\ \A i \in DOMAIN references :
             references[i][1] \/ references[i][2] \in {"INVALID_PAYLOAD"}
    BY <2>b, <2>d
  <2>4. FirstFailure(references) \in {"INVALID_PAYLOAD"} \cup {"OK"}
    BY <2>3, FailingCode
  <2> QED
    BY <2>1, <2>4
<1>3. Usable(p.model.model_artifacts) # {}
  BY DEF Intact
<1> DEFINE last == /\ p.model.task_type \in DOMAIN ObjectiveOf
                   /\ Explained(p) =>
                        Alternative(p.model.model_artifacts, "xgboost").format = "xgboost"
                   /\ ClickHouse(p.output.datasource)
<1>4. InferenceCode(p) =
        IF FirstFailure(checks) # "OK" THEN FirstFailure(checks)
        ELSE IF ReferenceCode(p.model) # "OK" THEN ReferenceCode(p.model)
        ELSE IF Usable(p.model.model_artifacts) = {} THEN "MODEL_FORMAT_UNSUPPORTED"
        ELSE IF last THEN "OK" ELSE "INVALID_PAYLOAD"
  BY DEF InferenceCode
<1> HIDE DEF last, checks
<1> QED
  BY <1>1, <1>2, <1>3, <1>4

\* What an intact model is verified as.
LEMMA IntactIsVerified ==
  ASSUME NEW files, NEW p, Intact(files, p.model)
  PROVE  /\ VerifiedCode(files, p.model, "onnx") = "OK"
         /\ VerifiedCode(files, p.model, "xgboost")
              = IF Explainable(files, p.model) THEN "OK" ELSE "MODEL_SCHEMA_MISMATCH"
         /\ Chosen(p).format = "onnx"
         /\ ModelNames(files, p, Native(p)) = ModelNames(files, p, Chosen(p))
         /\ ModelClasses(files, p, Native(p)) = ModelClasses(files, p, Chosen(p))
<1>1. /\ VerifiedCode(files, p.model, "onnx") = "OK"
      /\ VerifiedCode(files, p.model, "xgboost")
           = IF Explainable(files, p.model) THEN "OK" ELSE "MODEL_SCHEMA_MISMATCH"
  BY DEF Intact
<1>2. Chosen(p).format = "onnx"
  BY DEF Intact, Chosen
<1>3. ModelNames(files, p, Native(p)) = ModelNames(files, p, Chosen(p))
  BY DEF Intact, Chosen, Native, ModelNames
<1>4. ModelClasses(files, p, Native(p)) = ModelClasses(files, p, Chosen(p))
  BY DEF Intact, Chosen, Native, ModelClasses, Location
<1> QED
  BY <1>1, <1>2, <1>3, <1>4

\* Only the storage, the artifacts, the task and the labels of a model matter.
LEMMA SameSchema ==
  ASSUME NEW m, NEW n, m.task_type = n.task_type, m.label_mapping = n.label_mapping,
         NEW content, NEW alternative, NEW names
  PROVE  SchemaCode(content, alternative, names, m) = SchemaCode(content, alternative, names, n)
BY DEF SchemaCode

\* Whoever has these four of an intact model is intact.
LEMMA SameModel ==
  ASSUME NEW files, NEW m, NEW n, Intact(files, m),
         m.storage = n.storage, m.model_artifacts = n.model_artifacts,
         m.task_type = n.task_type, m.label_mapping = n.label_mapping
  PROVE  Intact(files, n)
<1>1. ASSUME NEW format
      PROVE  VerifiedCode(files, n, format) = VerifiedCode(files, m, format)
  BY SameSchema DEF VerifiedCode
<1>2. Explainable(files, n) = Explainable(files, m)
  BY DEF Explainable
<1> QED
  BY <1>1, <1>2 DEF Intact

\* Nothing is published at first.
LEMMA InitPubInv == Init => PubInv
<1> SUFFICES ASSUME Init PROVE PubInv
  OBVIOUS
<1>1. published = Null /\ pc = "compose"
  BY DEF Init
<1> QED
  BY <1>1 DEF PubInv, PublishedInv, PublishedIsFound, Trained

\* KnoVa changes a section of the request.
LEMMA EditFinds ==
  ASSUME PathInv, PubInv, NEW section \in DOMAIN Variants[op],
         NEW value \in Variants[op][section], Edit(section, value)
  PROVE  PubInv'
<1>1. /\ pc = "compose" /\ pc' = pc /\ code' = code
      /\ doc' = [doc EXCEPT ![section] = value]
      /\ edits' = edits \cup {<<op, section>>}
      /\ op' = op /\ store' = store /\ published' = published /\ tampers' = tampers
  BY DEF Edit
<1>2. code = "OK"
  BY <1>1 DEF PathInv, AdmittedIsSound, TypeOK
<1>3. Live' => doc'.model = doc.model
  <2> SUFFICES ASSUME Live' PROVE doc'.model = doc.model
    OBVIOUS
  <2>1. section # "model"
    BY <1>1 DEF Live, Trained
  <2> QED
    BY <1>1, <2>1
<1>4. pc' \notin {"published", "explainer"} /\ code' \notin Refusals /\ edits \subseteq edits'
  BY <1>1, <1>2 DEF Refusals
<1> QED
  BY <1>1, <1>3, <1>4, StaysFound

\* The Consumer admits the request or refuses it, in either case not the files.
LEMMA AdmitFinds ==
  ASSUME PathInv, PubInv, Admit
  PROVE  PubInv'
<1> DEFINE verdict == ParseRequest(doc, "op", op)
<1>1. /\ pc = "compose"
      /\ op' = op /\ edits' = edits /\ store' = store
      /\ published' = published /\ tampers' = tampers
      /\ IF verdict = "ADMITTED" THEN pc' = "build" /\ code' = code /\ doc' = Payload(doc)
         ELSE Stop(verdict) /\ doc' = doc
  BY DEF Admit
<1>2. /\ verdict \in {"INVALID_PAYLOAD", "UNSUPPORTED_PROTOCOL_VERSION", "ADMITTED"}
      /\ verdict = "ADMITTED" => Valid(doc, op)
  BY DEF ParseRequest
<1> HIDE DEF verdict
<1>3. code = "OK" /\ op \in Kind /\ DocumentInv
  BY <1>1 DEF PathInv, AdmittedIsSound, TypeOK, Kind
<1>4. pc' \in {"build", "ended"} /\ code' \notin Refusals
  BY <1>1, <1>2, <1>3 DEF Refusals, Stop
<1>5. Live' => doc'.model = doc.model
  <2> SUFFICES ASSUME Live', verdict = "ADMITTED" PROVE doc'.model = doc.model
    BY <1>1
  <2>1. op = "inference" /\ doc' = Payload(doc) /\ ValidInference(doc)
    BY <1>1, <1>2 DEF Live, Valid
  <2>2. "model" \in Sections[op] /\ DOMAIN doc = Sections[op]
    BY <1>3, <2>1 DEF Sections, DocumentInv
  <2>3. doc.model # Null
    BY <2>1 DEF ValidInference, Obj
  <2> QED
    BY <1>3, <2>1, <2>2, <2>3, PayloadSections
<1> QED
  BY <1>1, <1>4, <1>5, StaysFound

\* The steps of a training before the model is exported.
LEMMA TrainingFinds ==
  ASSUME PathInv, BuildTraining \/ Load \/ Prepare
  PROVE  PubInv'
<1>1. op' = op /\ pc' \in {"load", "prepare", "fit", "ended"}
      /\ (op = "training" \/ pc \in {"load", "prepare"})
  BY DEF BuildTraining, Load, Prepare, Stop
<1>2. op = "training"
  BY <1>1 DEF PathInv, PlanInv, TrainingStages
<1> QED
  BY <1>1, <1>2, OfTraining

\* The lists of the document the model is published from.
LEMMA PublishedFrom ==
  ASSUME PathInv, pc = "fit"
  PROVE  /\ op = "training" /\ Plannable(doc) /\ plan = TrainingPlan(doc)
         /\ Listed(doc.features)
         /\ IsList(doc.storage_context.bucket) /\ IsList(doc.storage_context.prefix)
<1>1. op = "training" /\ Plannable(doc) /\ plan = TrainingPlan(doc) /\ DocumentInv
  BY DEF PathInv, PlanInv, TrainingStages
<1>2. {"features", "storage_context"} \subseteq Sections["training"] \ {"model"}
  BY DEF Sections
<1>3. Obj(doc.storage_context) /\ Obj(doc.storage_context.bucket)
        /\ Obj(doc.storage_context.prefix) /\ Obj(doc.features)
  <2>1. StorageContext(doc.storage_context) /\ Features(doc.features, Aliases(doc.tables))
    BY <1>1 DEF Plannable, ValidTraining
  <2>2. Obj(doc.features)
    BY <2>1 DEF Features
  <2>3. Obj(doc.storage_context) /\ Obj(doc.storage_context.bucket)
    BY <2>1 DEF StorageContext, Texts, Text
  <2>4. Obj(doc.storage_context.prefix)
    BY <2>1, Zenon DEF StorageContext, Prefix, Text
  <2> QED
    BY <2>2, <2>3, <2>4
<1>4. doc.features \in May("training", "features")
        /\ doc.storage_context \in May("training", "storage_context")
  BY <1>1, <1>2, <1>3 DEF DocumentInv, Obj
<1> QED
  BY <1>1, <1>3, <1>4, RequestAssumption DEF Listed

\* The model is exported and published.
LEMMA PublishFinds ==
  ASSUME PathInv, Publish
  PROVE  PubInv'
<1> DEFINE canonical == At(plan.bundle, <<"bundle-1">>)
<1>1. /\ pc = "fit" /\ op' = op /\ doc' = doc
  BY DEF Publish
<1>2. PICK bundle \in Bundles :
        /\ Exports(bundle)
        /\ store' = Over(BundleFiles(canonical, bundle), store)
        /\ IF /\ ArtifactsPublishable(bundle)
              /\ ArtifactStorage(doc.storage_context, canonical) # Bad
           THEN /\ published' = TrainedModel(Manifest(doc, canonical, bundle))
                /\ pc' = "published" /\ code' = code
           ELSE Stop("MODEL_EXPORT_FAILED") /\ UNCHANGED published
  BY DEF Publish
<1>3. /\ op = "training" /\ Plannable(doc) /\ plan = TrainingPlan(doc)
      /\ Listed(doc.features)
      /\ IsList(doc.storage_context.bucket) /\ IsList(doc.storage_context.prefix)
  BY <1>1, PublishedFrom
<1>4. CASE /\ ArtifactsPublishable(bundle)
           /\ ArtifactStorage(doc.storage_context, canonical) # Bad
  <2>1. published' = TrainedModel(Manifest(doc, canonical, bundle))
    BY <1>2, <1>4
  <2>2. Intact(store', published')
    <3> DEFINE files == Over(BundleFiles(canonical, bundle), store)
    <3>1. Intact(files, TrainedModel(Manifest(doc, canonical, bundle)))
      <4> HIDE DEF canonical
      <4>1. canonical = At(plan.bundle, <<"bundle-1">>)
        BY DEF canonical
      <4> QED
        BY <1>2, <1>3, <1>4, <4>1, PublishedIsIntact
    <3>2. store' = files
      BY <1>2
    <3> QED
      BY <2>1, <3>1, <3>2
  <2>3. {"storage", "model_artifacts", "task_type", "label_mapping"} \subseteq DOMAIN published'
    BY <2>1 DEF TrainedModel
  <2>4. op' = "training"
    BY <1>1, <1>3
  <2> QED
    BY <2>2, <2>3, <2>4 DEF PubInv, PublishedInv, PublishedIsFound
<1>5. CASE ~ /\ ArtifactsPublishable(bundle)
             /\ ArtifactStorage(doc.storage_context, canonical) # Bad
  <2>1. pc' = "ended" /\ op' = "training"
    BY <1>1, <1>2, <1>3, <1>5 DEF Stop
  <2> QED
    BY <2>1, OfTraining
<1> QED
  BY <1>4, <1>5

\* KnoVa asks for an inference with the model it was given.
LEMMA UseModelFinds ==
  ASSUME PathInv, PubInv, UseModel
  PROVE  PubInv'
<1> DEFINE sent == Base["inference"].model
           model == Over(published, sent)
<1>1. /\ pc = "published" /\ pc' = "compose" /\ code' = code
      /\ doc' = [Base["inference"] EXCEPT !.model = model] /\ store' = store
  BY DEF UseModel
<1>2. code = "OK"
  BY <1>1 DEF PathInv, AdmittedIsSound, TypeOK
<1>3. /\ {"storage", "model_artifacts", "task_type", "label_mapping"} \subseteq DOMAIN published
      /\ Intact(store, published)
  BY <1>1 DEF PubInv, PublishedInv
<1>4. doc'.model = model
  <2>1. "model" \in DOMAIN Base["inference"]
    BY RequestAssumption DEF Sections
  <2> QED
    BY <1>1, <2>1
<1>5. /\ published.storage = model.storage
      /\ published.model_artifacts = model.model_artifacts
      /\ published.task_type = model.task_type
      /\ published.label_mapping = model.label_mapping
  <2> HIDE DEF sent
  <2> QED
    BY <1>3 DEF Over
<1>6. Intact(store, model)
  <2> HIDE DEF model
  <2> QED
    BY <1>3, <1>5, SameModel
<1>7. Intact(store', doc'.model)
  BY <1>1, <1>4, <1>6
<1> QED
  BY <1>1, <1>2, <1>7 DEF PubInv, PublishedInv, PublishedIsFound

\* What a live model is verified as.
LEMMA LiveIsVerified ==
  ASSUME PubInv, Live
  PROVE  /\ InferenceCode(doc) \in {"OK", "INVALID_PAYLOAD"}
         /\ VerifiedCode(store, doc.model, "onnx") = "OK"
         /\ VerifiedCode(store, doc.model, "xgboost")
              = IF Explainable(store, doc.model) THEN "OK" ELSE "MODEL_SCHEMA_MISMATCH"
         /\ Chosen(doc).format = "onnx"
         /\ ModelNames(store, doc, Native(doc)) = ModelNames(store, doc, Chosen(doc))
         /\ ModelClasses(store, doc, Native(doc)) = ModelClasses(store, doc, Chosen(doc))
<1>1. Intact(store, doc.model)
  BY DEF PubInv, PublishedInv, Live
<1> QED
  BY <1>1, IntactIsBuilt, IntactIsVerified

\* The request is planned.
LEMMA BuildInferenceFinds ==
  ASSUME PathInv, PubInv, BuildInference
  PROVE  PubInv'
<1>1. /\ pc = "build" /\ op' = op /\ doc' = doc /\ edits' = edits
      /\ published' = published /\ store' = store /\ tampers' = tampers
      /\ IF InferenceCode(doc) = "OK" THEN pc' = "verify" /\ code' = code
         ELSE Stop(InferenceCode(doc))
  BY DEF BuildInference
<1>2. code = "OK"
  BY <1>1 DEF PathInv, AdmittedIsSound, TypeOK
<1>3. Live => InferenceCode(doc) \in {"OK", "INVALID_PAYLOAD"}
  BY LiveIsVerified
<1>4. pc' \in {"verify", "ended"} /\ (Live => code' \notin Refusals)
  BY <1>1, <1>2, <1>3 DEF Stop, Refusals
<1> QED
  BY <1>1, <1>4, StaysFound

\* The stored predictor is verified: only its features may be other than those
\* of the request.
LEMMA VerifyFinds ==
  ASSUME PathInv, PubInv, Verify
  PROVE  PubInv'
<1> DEFINE verdict == PredictorCode(store, doc)
           names   == ModelNames(store, doc, Chosen(doc))
           order   == ModelOrder(doc.input, names)
           classes == ModelClasses(store, doc, Chosen(doc))
<1>1. /\ pc = "verify" /\ op' = op /\ doc' = doc /\ edits' = edits
      /\ published' = published /\ store' = store /\ tampers' = tampers
      /\ IF verdict # "OK" THEN Stop(verdict)
         ELSE /\ plan' = [plan EXCEPT !.names = names, !.tensor = order]
              /\ run' = [run EXCEPT !.classes = classes]
              /\ pc' = "explainer" /\ code' = code
  BY DEF Verify
<1>2. /\ code = "OK" /\ DOMAIN run = DOMAIN NoRun
      /\ DOMAIN plan = {"columns", "steps", "tensor", "names", "batches"}
  BY <1>1, InferencePlanFields
     DEF PathInv, AdmittedIsSound, TypeOK, PlanInv, RunInv, InferenceStages
<1>3. Live' => Live
  BY <1>1 DEF Live, Trained
<1>4. Live => Intact(store, doc.model)
  BY DEF PubInv, PublishedInv, Live
<1>5. Live => \/ verdict = "OK"
              \/ verdict = "MODEL_SCHEMA_MISMATCH"
                 /\ ResultColumns(doc.input.features) # ToSet(names)
  BY LiveIsVerified DEF PredictorCode
<1>6. verdict = "OK" => plan'.names = names /\ run'.classes = classes
  <2> HIDE DEF verdict, names, order, classes
  <2> QED
    BY <1>1, <1>2 DEF NoRun
<1>7. names' = names /\ classes' = classes
  BY <1>1
<1> HIDE DEF verdict
<1>8. PublishedInv'
  <2>1. pc' \in {"explainer", "ended"}
    BY <1>1 DEF Stop
  <2>2. Live' => Intact(store', doc'.model)
    BY <1>1, <1>3, <1>4
  <2>3. pc' = "explainer" => verdict = "OK"
    BY <1>1 DEF Stop
  <2>4. pc' = "explainer" =>
          /\ plan'.names = ModelNames(store', doc', Chosen(doc'))
          /\ run'.classes = ModelClasses(store', doc', Chosen(doc'))
    BY <1>1, <1>6, <2>3
  <2> QED
    BY <2>1, <2>2, <2>4 DEF PublishedInv, Live
<1>9. PublishedIsFound'
  <2>1. code' \in {"OK", verdict}
    BY <1>1, <1>2 DEF Stop
  <2>2. Live' =>
          /\ code' \in {"OK", "MODEL_SCHEMA_MISMATCH"}
          /\ code' = "MODEL_SCHEMA_MISMATCH" =>
               ResultColumns(doc'.input.features)
                 # ToSet(ModelNames(store', doc', Chosen(doc')))
    BY <1>1, <1>3, <1>5, <2>1
  <2> QED
    BY <2>2 DEF PublishedIsFound, Live
<1> QED
  BY <1>8, <1>9 DEF PubInv

\* The stored explainer is the same model; only its objective may be one that no
\* inference takes.
LEMMA VerifyExplainerFinds ==
  ASSUME PathInv, PubInv, VerifyExplainer
  PROVE  PubInv'
<1> DEFINE inner == ExplainerCode(store, doc, plan.names, run.classes)
           verdict == IF Explained(doc) THEN inner ELSE "OK"
<1>1. /\ pc = "explainer" /\ op' = op /\ doc' = doc /\ edits' = edits
      /\ published' = published /\ store' = store /\ tampers' = tampers
      /\ IF verdict # "OK" THEN Stop(verdict) ELSE pc' = "normalize" /\ code' = code
  BY DEF VerifyExplainer
<1>2. code = "OK"
  BY <1>1 DEF PathInv, AdmittedIsSound, TypeOK
<1>3. Live => /\ plan.names = ModelNames(store, doc, Chosen(doc))
              /\ run.classes = ModelClasses(store, doc, Chosen(doc))
  BY <1>1 DEF PubInv, PublishedInv, Live
<1>4. Live => inner = IF Explainable(store, doc.model) THEN "OK" ELSE "MODEL_SCHEMA_MISMATCH"
  BY <1>3, LiveIsVerified DEF ExplainerCode
<1> HIDE DEF inner
<1>5. pc' \in {"normalize", "ended"} /\ code' \in {"OK", verdict}
  BY <1>1, <1>2 DEF Stop
<1>6. Live' <=> Live
  BY <1>1 DEF Live, Trained
<1>7. Live => Intact(store', doc'.model)
  BY <1>1 DEF PubInv, PublishedInv, Live
<1>8. PublishedInv'
  BY <1>5, <1>6, <1>7 DEF PublishedInv, Live
<1>9. PublishedIsFound'
  <2>1. Live => \/ code' = "OK"
                \/ /\ code' = "MODEL_SCHEMA_MISMATCH"
                   /\ Explained(doc') /\ ~Explainable(store', doc'.model)
    BY <1>1, <1>4, <1>5
  <2> QED
    BY <1>6, <2>1 DEF PublishedIsFound, Live
<1> QED
  BY <1>8, <1>9 DEF PubInv

\* The predictor is the ONNX file, which is not copied.
LEMMA NormalizeFinds ==
  ASSUME PathInv, PubInv, Normalize
  PROVE  PubInv'
<1>1. /\ pc = "normalize" /\ op' = op /\ doc' = doc /\ edits' = edits
      /\ published' = published /\ store' = store /\ tampers' = tampers
      /\ pc' \in {"measure", "ended"}
      /\ Chosen(doc).format # "xgboost" => code' = code
  BY DEF Normalize, Stop
<1>2. code = "OK"
  BY <1>1 DEF PathInv, AdmittedIsSound, TypeOK
<1>3. Live => code' \notin Refusals
  BY <1>1, <1>2, LiveIsVerified DEF Refusals
<1> QED
  BY <1>1, <1>3, StaysFound

\* The input is counted.
LEMMA MeasureFinds ==
  ASSUME PathInv, PubInv, Measure
  PROVE  PubInv'
<1> DEFINE verdict == MeasureCode(plan, ColumnTypes)
<1>1. /\ pc = "measure" /\ op' = op /\ doc' = doc /\ edits' = edits
      /\ published' = published /\ store' = store /\ tampers' = tampers
      /\ pc' \in {"predict", "ended"} /\ code' \in {code, verdict, "EMPTY_INPUT"}
  BY DEF Measure, Stop
<1>2. code = "OK"
  BY <1>1 DEF PathInv, AdmittedIsSound, TypeOK
<1>3. code' \notin Refusals
  BY <1>1, <1>2 DEF MeasureCode, Refusals
<1> QED
  BY <1>1, <1>3, StaysFound

\* The file that was accepted has the bytes that were declared.
LEMMA AcceptedIsUnchanged ==
  ASSUME PathInv, op = "inference", InferenceCode(doc) = "OK",
         VerifiedCode(store, doc.model, "onnx") = "OK"
  PROVE  Unchanged(Chosen(doc))
<1> DEFINE a == Chosen(doc)
           root == StorageRoot(doc.model.storage)
<1>1. /\ Obj(a.files) /\ IsList(a.files)
      /\ \E i \in DOMAIN a.files : WeightFile(a) = a.files[i]
  BY AlternativesOf DEF PathInv, Chosen
<1>2. FilesCode(store, root, a.files) = "OK"
  BY DEF VerifiedCode, Chosen
<1>3. Weights(a) = Read(store, At(root, WeightFile(a).path))
  BY DEF Weights, Location
<1> HIDE DEF a, root
<1>4. Weights(a) = WeightFile(a).hash
  BY <1>1, <1>2, <1>3, FilesAreDeclared
<1> QED
  BY <1>4 DEF Unchanged, a

\* The core imports the predictor.
LEMMA PredictFinds ==
  ASSUME PathInv, PubInv, Predict
  PROVE  PubInv'
<1>1. /\ pc = "predict" /\ op' = op /\ doc' = doc /\ edits' = edits
      /\ published' = published /\ store' = store /\ tampers' = tampers
      /\ pc' \in {"explain", "ended"}
      /\ Unchanged(Chosen(doc)) => code' = code
  BY DEF Predict, Stop
<1>2. /\ code = "OK" /\ op = "inference" /\ InferenceCode(doc) = "OK"
  BY <1>1 DEF PathInv, AdmittedIsSound, TypeOK, PlanInv, InferenceStages
<1>3. Live => Unchanged(Chosen(doc))
  BY <1>2, LiveIsVerified, AcceptedIsUnchanged
<1>4. Live => code' \notin Refusals
  BY <1>1, <1>2, <1>3 DEF Refusals
<1> QED
  BY <1>1, <1>4, StaysFound

\* The rest of an attempt, whether it ends well or not.
LEMMA AttemptFinds ==
  ASSUME PathInv, PubInv, Explain \/ Retry \/ GiveUp
  PROVE  PubInv'
<1>1. /\ pc \in {"predict", "explain"} /\ op' = op /\ doc' = doc /\ edits' = edits
      /\ published' = published /\ store' = store /\ tampers' = tampers
      /\ pc' \in {"predict", "written", "ended"}
      /\ code' \in {code, "PREDICTION_FAILED"}
  BY DEF Explain, Retry, GiveUp, Stop
<1>2. code = "OK"
  BY <1>1 DEF PathInv, AdmittedIsSound, TypeOK
<1>3. code' \notin Refusals
  BY <1>1, <1>2 DEF Refusals
<1> QED
  BY <1>1, <1>3, StaysFound

\* Somebody overwrites a stored file, or it is lost.
LEMMA TamperFinds ==
  ASSUME PathInv, NEW location \in DOMAIN store, NEW content \in Replacements,
         Tamper(location, content)
  PROVE  PubInv'
<1>1. tampers \in Nat /\ tampers' = tampers + 1 /\ pc' # "published"
  BY StorageAssumption DEF Tamper, PathInv, AdmittedIsSound, TypeOK
<1> QED
  BY <1>1 DEF PubInv, PublishedInv, PublishedIsFound

\* A step that changes nothing.
LEMMA StutterFinds ==
  ASSUME PubInv, UNCHANGED vars
  PROVE  PubInv'
<1>1. /\ op' = op /\ doc' = doc /\ edits' = edits /\ pc' = pc /\ code' = code
      /\ plan' = plan /\ published' = published /\ store' = store
      /\ tampers' = tampers /\ run' = run
  BY DEF vars
<1>2. PublishedInv'
  BY <1>1 DEF PubInv, PublishedInv, Trained
<1>3. PublishedIsFound'
  BY <1>1 DEF PubInv, PublishedIsFound, Trained
<1> QED
  BY <1>2, <1>3 DEF PubInv

\* No step loses a published model.
LEMMA NextPubInv == PathInv /\ PubInv /\ [Next]_vars => PubInv'
<1> SUFFICES ASSUME PathInv, PubInv, [Next]_vars PROVE PubInv'
  OBVIOUS
<1>1. ASSUME NEW section \in DOMAIN Variants[op], NEW value \in Variants[op][section],
             Edit(section, value)
      PROVE  PubInv'
  BY <1>1, EditFinds
<1>2. CASE Admit
  BY <1>2, AdmitFinds
<1>3. CASE BuildTraining \/ Load \/ Prepare \/ Publish \/ UseModel
  BY <1>3, TrainingFinds, PublishFinds, UseModelFinds
<1>4. CASE BuildInference \/ Verify \/ VerifyExplainer \/ Normalize
  BY <1>4, BuildInferenceFinds, VerifyFinds, VerifyExplainerFinds, NormalizeFinds
<1>5. CASE Measure \/ Predict \/ Explain \/ Retry \/ GiveUp
  BY <1>5, MeasureFinds, PredictFinds, AttemptFinds
<1>6. ASSUME NEW location \in DOMAIN store, NEW content \in Replacements,
             Tamper(location, content)
      PROVE  PubInv'
  BY <1>6, TamperFinds
<1>7. CASE UNCHANGED vars
  BY <1>7, StutterFinds
<1> QED
  BY <1>1, <1>2, <1>3, <1>4, <1>5, <1>6, <1>7 DEF Next

\* The invariant of the request path, with the model that was published.
THEOREM InductiveInvariant == Spec => []IInv
<1>1. Spec => []PubInv
  BY InitPubInv, NextPubInv, PathInvariant, PTL DEF Spec
<1>2. PathInv /\ PubInv => IInv
  BY DEF PubInv, IInv
<1> QED
  BY <1>1, <1>2, PathInvariant, PTL

\* Unless somebody touched the files, the model a training published is found,
\* complete and readable, where the manifest says; it is only refused when the
\* inference sends other features, or wants explanations of a binary objective that
\* no native model may have.
THEOREM PublishedIsFoundAlways == Spec => []PublishedIsFound
<1>1. IInv => PublishedIsFound
  BY DEF IInv
<1> QED
  BY <1>1, InductiveInvariant, PTL
=============================================================================
