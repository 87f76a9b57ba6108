----------------------- MODULE ConsumerDeploy_proofs -----------------------
(***************************************************************************)
(* Proofs about ConsumerDeploy, for any manifests and any number of        *)
(* commands, jobs, failed calls, kills and recreated Deployments.          *)
(***************************************************************************)
EXTENDS ConsumerDeploy, TLAPS

-----------------------------------------------------------------------------
(* Facts the steps rest on *)

\* There are two Consumers.
LEMMA Consumers ==
  Old # New /\ Old \in Names /\ New \in Names /\ \A n \in Names : n = Old \/ n = New
  BY DEF Old, New, Names

\* What is not there has no uid, no replicas and no spec.
LEMMA AbsentFacts ==
  /\ Absent.uid = 0 /\ Absent.replicas = 0 /\ Absent.spec = "" /\ Absent.owned = FALSE
  /\ \A most \in Nat : Absent \in DeploymentsOf(most)
  BY DEF Absent, DeploymentsOf, Specs

\* A Deployment without a Pod has none up and none that ends.
LEMMA NoPodFacts == NoPod.up = "" /\ NoPod.ending = FALSE
  BY DEF NoPod

\* A Deployment is one later too, when uids have been given.
LEMMA UidsOnlyGrow ==
  ASSUME TypeOK, uids' \in Nat, uids' >= uids
  PROVE  Deployments \subseteq Deployments' /\ journal \in Journals'
<1>1. journal \in Journals /\ uids \in Nat
  BY DEF TypeOK, ClusterOK, ScriptOK
<1>2. 0..uids \subseteq 0..uids'
  BY <1>1
<1>3. Deployments \subseteq Deployments'
  <2> SUFFICES ASSUME NEW d \in Deployments PROVE d \in Deployments'
    OBVIOUS
  <2> QED
    BY <1>2 DEF Deployments, DeploymentsOf
<1>4. journal.snapshots \in [Names -> Deployments']
  <2>1. journal.snapshots \in [Names -> Deployments]
    BY <1>1 DEF Journals
  <2> QED
    BY <1>3, <2>1
<1> QED
  BY <1>1, <1>2, <1>3, <1>4 DEF Journals

\* `kubectl scale --replicas 0` changes the replicas of one Deployment and
\* nothing else; what is not there does not appear.
LEMMA ScaleFacts ==
  ASSUME TypeOK, \A m \in Names : dep[m].uid = 0 => dep[m] = Absent,
         NEW n \in Names, ScaledDown(n)
  PROVE  /\ dep' \in [Names -> Deployments'] /\ uids' = uids
         /\ \A m \in Names \ {n} : dep'[m] = dep[m]
         /\ dep'[n].uid = dep[n].uid /\ dep'[n].spec = dep[n].spec
         /\ dep'[n].replicas = 0
         /\ dep'[n].uid = 0 => dep'[n] = Absent
         /\ Exists(n)' <=> Exists(n)
<1>1. dep \in [Names -> Deployments] /\ uids' = uids /\ dep' = [dep EXCEPT ![n].replicas = 0]
  BY DEF TypeOK, ClusterOK, ScaledDown
<1>2. /\ \A m \in Names \ {n} : dep'[m] = dep[m]
      /\ dep'[n] = [dep[n] EXCEPT !.replicas = 0]
  BY <1>1
<1>3. dep[n] \in Deployments
  BY <1>1
<1>4. /\ dep'[n] \in Deployments
      /\ dep'[n].uid = dep[n].uid /\ dep'[n].spec = dep[n].spec /\ dep'[n].replicas = 0
      /\ dep'[n].owned = dep[n].owned
  BY <1>2, <1>3, 0 \in 0..1 DEF Deployments, DeploymentsOf
<1>5. dep[n] = Absent => dep'[n] = Absent
  BY <1>4, AbsentFacts DEF Absent, Deployments, DeploymentsOf
<1>6. Deployments' = Deployments
  BY <1>1 DEF Deployments
<1>7. dep' \in [Names -> Deployments']
  BY <1>1, <1>3, <1>4, <1>6
<1>8. dep'[n].uid = 0 => dep[n] = Absent
  BY <1>4
<1> QED
  BY <1>1, <1>2, <1>4, <1>5, <1>7, <1>8, AbsentFacts DEF Exists

\* `kubectl apply` gives one Deployment its spec and replicas, and an object
\* that exists keeps its uid.
LEMMA ApplyFacts ==
  ASSUME TypeOK, \A m \in Names : dep[m].uid = 0 => dep[m] = Absent,
         NEW n \in Names, NEW spec \in Specs, NEW replicas \in 0..1, NEW owned \in BOOLEAN,
         Applied(n, spec, replicas, owned)
  PROVE  /\ dep' \in [Names -> Deployments'] /\ uids' \in Nat /\ uids' >= uids
         /\ \A m \in Names \ {n} : dep'[m] = dep[m]
         /\ Exists(n) => dep'[n].uid = dep[n].uid
         /\ dep'[n].spec = spec /\ dep'[n].replicas = replicas
         /\ dep'[n].uid # 0 /\ Exists(n)'
<1>1. dep \in [Names -> Deployments] /\ uids \in Nat
  BY DEF TypeOK, ClusterOK
<1> DEFINE uid == IF Exists(n) THEN dep[n].uid ELSE uids + 1
<1>2. /\ dep' = [dep EXCEPT ![n] = [uid |-> uid, spec |-> spec,
                                   replicas |-> replicas, owned |-> owned]]
      /\ uids' = IF Exists(n) THEN uids ELSE uids + 1
  BY DEF Applied
<1>3. dep[n] \in Deployments /\ uids' \in Nat /\ uids' >= uids
  BY <1>1, <1>2
<1>4. uid \in 0..uids' /\ uid # 0 /\ (Exists(n) => uid = dep[n].uid)
  BY <1>1, <1>2, <1>3 DEF Deployments, DeploymentsOf, Exists
<1> HIDE DEF uid
<1>5. /\ dep'[n] = [uid |-> uid, spec |-> spec, replicas |-> replicas, owned |-> owned]
      /\ \A m \in Names \ {n} : dep'[m] = dep[m]
  BY <1>1, <1>2
<1>6. dep'[n] \in Deployments' /\ dep'[n].uid = uid /\ dep'[n].spec = spec
      /\ dep'[n].replicas = replicas
  BY <1>4, <1>5 DEF Deployments, DeploymentsOf
<1>7. Deployments \subseteq Deployments'
  BY <1>3, UidsOnlyGrow
<1>8. dep' \in [Names -> Deployments']
  BY <1>1, <1>2, <1>5, <1>6, <1>7
<1>9. Exists(n)'
  BY <1>4, <1>6, AbsentFacts DEF Exists
<1> QED
  BY <1>2, <1>3, <1>4, <1>5, <1>6, <1>8, <1>9

\* `kubectl delete` removes the new Deployment and nothing else.
LEMMA DeleteFacts ==
  ASSUME TypeOK, Deleted
  PROVE  /\ dep' \in [Names -> Deployments'] /\ uids' = uids
         /\ dep'[Old] = dep[Old] /\ dep'[New] = Absent
<1>1. dep \in [Names -> Deployments] /\ uids' = uids /\ uids \in Nat
      /\ dep' = [dep EXCEPT ![New] = Absent]
  BY DEF TypeOK, ClusterOK, Deleted
<1>2. Deployments' = Deployments
  BY <1>1 DEF Deployments
<1>3. Absent \in Deployments
  BY <1>1, AbsentFacts DEF Deployments
<1> QED
  BY <1>1, <1>2, <1>3, Consumers

\* A command, a failed call and a kill are counted, and nothing else is.
Counted ==
  BoundsOK' /\ bounds'.replacements = bounds.replacements

\* A step that counts a fault, a command or a kill counts up.
LEMMA CountFacts ==
  ASSUME TypeOK,
         \/ NoFault \/ Fault
         \/ Count("commands", MaxCommands) \/ Count("kills", MaxKills)
  PROVE  Counted
<1>1. bounds \in [commands : Nat, faults : Nat, kills : Nat, replacements : Nat]
  BY DEF TypeOK, BoundsOK
<1> QED
  BY <1>1 DEF Counted, BoundsOK, NoFault, Fault, Count

\* A step that leaves the cluster alone knows the same Deployments and journals.
LEMMA StillFacts ==
  ASSUME TypeOK, Still
  PROVE  dep' = dep /\ uids' = uids /\ Deployments' = Deployments
         /\ dep' \in [Names -> Deployments'] /\ Journals' = Journals
  BY DEF TypeOK, ClusterOK, Still, Deployments, Journals
\* Writing a phase keeps the rest of the journal.
LEMMA WriteFacts ==
  ASSUME TypeOK, Still,
         NEW phase \in {"old_stopped", "complete", "rollback_stopped_new", "rolled_back"},
         Write(phase)
  PROVE  /\ journal' \in Journals' /\ journal'.phase = phase
         /\ journal'.snapshots = journal.snapshots /\ journal'.newUid = journal.newUid
         /\ Recorded' = Recorded
<1>1. journal \in Journals /\ Journals' = Journals /\ journal' = [journal EXCEPT !.phase = phase]
  BY StillFacts DEF TypeOK, ScriptOK, Write
<1>2. /\ journal' \in Journals /\ journal'.phase = phase
      /\ journal'.snapshots = journal.snapshots /\ journal'.newUid = journal.newUid
  BY <1>1 DEF Journals
<1> QED
  BY <1>1, <1>2 DEF Recorded

\* Types of the counters.
LEMMA Numbers ==
  ASSUME TypeOK
  PROVE  uids \in Nat /\ jobs \in Nat /\ jobs <= MaxJobs /\ MaxJobs \in Nat
  BY DeployAssumption DEF TypeOK, ClusterOK

\* Types by component.
LEMMA Typed ==
  ASSUME TypeOK
  PROVE  /\ uids \in Nat /\ dep \in [Names -> Deployments]
         /\ pods \in [Names -> [up : Specs, ending : BOOLEAN]]
         /\ \A n \in Names : /\ dep[n] \in Deployments /\ dep[n].uid \in 0..uids
                             /\ dep[n].spec \in Specs /\ dep[n].replicas \in 0..1
                             /\ pods[n].up \in Specs /\ pods[n].ending \in BOOLEAN
         /\ jobs \in 0..MaxJobs
         /\ journal \in Journals /\ journal.snapshots \in [Names -> Deployments]
         /\ \A n \in Names : /\ journal.snapshots[n] \in Deployments
                             /\ journal.snapshots[n].uid \in 0..uids
                             /\ journal.snapshots[n].spec \in Specs
                             /\ journal.snapshots[n].replicas \in 0..1
                             /\ journal.snapshots[n].owned \in BOOLEAN
         /\ journal.newUid \in 0..uids
         /\ manifest \in Manifests \cup {""} /\ manifest \in Specs /\ todo \subseteq Names
         /\ attempt \in {"noted", "unnoted", "overwritten"}
<1>1. /\ uids \in Nat /\ dep \in [Names -> Deployments]
      /\ pods \in [Names -> [up : Specs, ending : BOOLEAN]] /\ jobs \in 0..MaxJobs
      /\ journal \in Journals /\ manifest \in Manifests \cup {""} /\ todo \subseteq Names
      /\ attempt \in {"noted", "unnoted", "overwritten"}
  BY DEF TypeOK, ClusterOK, ScriptOK
<1>2. journal.snapshots \in [Names -> Deployments] /\ journal.newUid \in 0..uids
  BY <1>1 DEF Journals
<1>3. ASSUME NEW d \in Deployments
      PROVE  d.uid \in 0..uids /\ d.spec \in Specs /\ d.replicas \in 0..1 /\ d.owned \in BOOLEAN
  BY <1>3 DEF Deployments, DeploymentsOf
<1>4. manifest \in Specs
  BY <1>1 DEF Specs
<1>5. ASSUME NEW n \in Names
      PROVE  pods[n].up \in Specs /\ pods[n].ending \in BOOLEAN
  BY <1>1, <1>5
<1> QED
  BY <1>1, <1>2, <1>3, <1>4, <1>5

\* The cluster, where only Kubernetes or Ray has moved.
LEMMA WorldTyped ==
  ASSUME TypeOK, World, UNCHANGED <<dep, uids, bounds>>,
         jobs' \in 0..MaxJobs, pods' \in [Names -> [up : Specs, ending : BOOLEAN]]
  PROVE  TypeOK'
<1>1. Deployments' = Deployments /\ Journals' = Journals
  BY DEF Deployments, Journals
<1>2. ClusterOK'
  BY <1>1, Typed DEF TypeOK, ClusterOK, World
<1>3. ScriptOK'
  BY <1>1 DEF TypeOK, ScriptOK, World, script
<1> QED
  BY <1>2, <1>3 DEF TypeOK, BoundsOK

\* Where the script has moved: the cluster as far as it touches it, and itself.
LEMMA StepTyped ==
  ASSUME TypeOK, UNCHANGED <<setup, pods, jobs>>, Counted,
         uids' \in Nat, dep' \in [Names -> Deployments'], journal' \in Journals',
         pc' \in {"idle", "check", "snapshot", "stop", "drain", "recheck", "apply",
                  "record", "rollout", "finish", "restore", "undrain", "idle_check",
                  "reapply", "rerollout", "rolled_back"},
         manifest' \in Manifests \cup {""}, todo' \subseteq Names,
         pc' = "idle" => todo' = {} /\ manifest' = "",
         attempt' \in {"noted", "unnoted", "overwritten"}
  PROVE  TypeOK'
<1>1. ClusterOK'
  BY Typed DEF TypeOK, ClusterOK
<1>2. ScriptOK'
  BY DEF ScriptOK
<1> QED
  BY <1>1, <1>2 DEF TypeOK, Counted
\* What a call of the script does to the Deployments, typed.
LEMMA CallsTyped ==
  ASSUME TypeOK, AbsentIsNothing
  PROVE  /\ Still \/ (\E n \in Names : ScaledDown(n) \/ Reapplied(n))
            \/ Applied(New, manifest, 1, TRUE) \/ Deleted
            => uids' \in Nat /\ dep' \in [Names -> Deployments'] /\ journal \in Journals'
<1>1. ASSUME Still
      PROVE  uids' \in Nat /\ dep' \in [Names -> Deployments'] /\ journal \in Journals'
  BY <1>1, StillFacts, Typed
<1>2. ASSUME NEW n \in Names, ScaledDown(n)
      PROVE  uids' \in Nat /\ dep' \in [Names -> Deployments'] /\ journal \in Journals'
  <2>1. dep' \in [Names -> Deployments'] /\ uids' = uids
    BY <1>2, ScaleFacts DEF AbsentIsNothing
  <2> QED
    BY <2>1, Numbers, UidsOnlyGrow
<1>3. ASSUME NEW n \in Names, Reapplied(n)
      PROVE  uids' \in Nat /\ dep' \in [Names -> Deployments'] /\ journal \in Journals'
  <2>1. uids' \in Nat /\ uids' >= uids /\ dep' \in [Names -> Deployments']
    <3> DEFINE was == journal.snapshots[n]
    <3>1. Applied(n, was.spec, was.replicas, was.owned)
      BY <1>3 DEF Reapplied
    <3>2. was.spec \in Specs /\ was.replicas \in 0..1 /\ was.owned \in BOOLEAN
      BY Typed
    <3> QED
      BY <3>1, <3>2, ApplyFacts DEF AbsentIsNothing
  <2> QED
    BY <2>1, UidsOnlyGrow
<1>4. ASSUME Applied(New, manifest, 1, TRUE)
      PROVE  uids' \in Nat /\ dep' \in [Names -> Deployments'] /\ journal \in Journals'
  <2>1. uids' \in Nat /\ uids' >= uids /\ dep' \in [Names -> Deployments']
    <3>1. manifest \in Specs /\ New \in Names
      BY Typed, Consumers
    <3>2. 1 \in 0..1 /\ TRUE \in BOOLEAN
      OBVIOUS
    <3> QED
      BY <1>4, <3>1, <3>2, ApplyFacts DEF AbsentIsNothing
  <2> QED
    BY <2>1, UidsOnlyGrow
<1>5. ASSUME Deleted
      PROVE  uids' \in Nat /\ dep' \in [Names -> Deployments'] /\ journal \in Journals'
  <2>1. dep' \in [Names -> Deployments'] /\ uids' = uids
    BY <1>5, DeleteFacts
  <2> QED
    BY <2>1, Numbers, UidsOnlyGrow
<1> QED
  BY <1>1, <1>2, <1>3, <1>4, <1>5

\* A step of the script that writes nothing to the journal.
LEMMA MoveTyped ==
  ASSUME TypeOK, AbsentIsNothing, UNCHANGED <<setup, pods, jobs>>, Counted,
         \/ Still \/ \E n \in Names : ScaledDown(n) \/ Reapplied(n)
         \/ Applied(New, manifest, 1, TRUE) \/ Deleted,
         journal' = journal, attempt' \in {"noted", "unnoted", "overwritten"},
         \/ End
         \/ pc' \in {"check", "snapshot", "stop", "drain", "recheck", "apply",
                     "record", "rollout", "finish", "restore", "undrain", "idle_check",
                     "reapply", "rerollout", "rolled_back"}
            /\ manifest' \in Manifests \cup {""} /\ todo' \subseteq Names
  PROVE  TypeOK'
<1>1. uids' \in Nat /\ dep' \in [Names -> Deployments'] /\ journal' \in Journals'
  BY CallsTyped
<1>2. /\ pc' \in {"idle", "check", "snapshot", "stop", "drain", "recheck", "apply",
                  "record", "rollout", "finish", "restore", "undrain", "idle_check",
                  "reapply", "rerollout", "rolled_back"}
      /\ manifest' \in Manifests \cup {""} /\ todo' \subseteq Names
      /\ pc' = "idle" => todo' = {} /\ manifest' = ""
  BY DEF End
<1> QED
  BY <1>1, <1>2, StepTyped

\* Types: every step of `apply`.
LEMMA DeployingTyped ==
  ASSUME TypeOK, AbsentIsNothing, Deploying
  PROVE  TypeOK'
<1> USE DEF Here, Goto, Caught, NoWrite, Stop
<1>1. ASSUME NEW m \in Manifests, Apply(m)
      PROVE  TypeOK'
  BY <1>1, Typed, CountFacts, MoveTyped DEF Apply
<1>2. CASE Check
  BY <1>2, Typed, CountFacts, MoveTyped DEF Check
<1>3. CASE Snapshot
  <2>1. CASE journal' = journal
    BY <1>3, <2>1, Typed, CountFacts, MoveTyped DEF Snapshot, Overwritten
  <2>2. CASE /\ journal' = [phase |-> "prepared", snapshots |-> dep, newUid |-> 0,
                            fingerprint |-> manifest]
             /\ Goto("stop") /\ todo' = {n \in Names : Exists(n)}
             /\ Overwritten /\ Still /\ NoFault
    <3>1. journal' \in Journals
      <4>1. 0 \in 0..uids
        BY Numbers
      <4> QED
        BY <2>2, <4>1, Typed DEF Journals
    <3>2. uids' = uids /\ dep' \in [Names -> Deployments'] /\ Journals' = Journals
      BY <2>2, StillFacts
    <3>3. todo' \subseteq Names /\ attempt' \in {"noted", "unnoted", "overwritten"}
      BY <2>2, Typed DEF Overwritten
    <3>4. Counted
      BY <2>2, CountFacts
    <3> QED
      BY <1>3, <2>2, <3>1, <3>2, <3>3, <3>4, Typed, StepTyped DEF Snapshot
  <2> QED
    BY <1>3, <2>1, <2>2 DEF Snapshot
<1>4. CASE OldStopped
  <2>1. journal' \in Journals' /\ uids' = uids /\ dep' \in [Names -> Deployments'] /\ Counted
    BY <1>4, WriteFacts, StillFacts, CountFacts DEF OldStopped
  <2> QED
    BY <1>4, <2>1, Typed, StepTyped DEF OldStopped
<1>5. CASE Recheck
  BY <1>5, Typed, CountFacts, MoveTyped DEF Recheck
<1>6. CASE StartNew
  BY <1>6, Typed, CountFacts, MoveTyped DEF StartNew
<1>7. CASE NewStarted
  <2>1. CASE journal' = journal
    BY <1>7, <2>1, Typed, CountFacts, MoveTyped DEF NewStarted
  <2>2. CASE /\ journal' = [journal EXCEPT !.phase = "new_started", !.newUid = dep[New].uid]
             /\ NoFault /\ Goto("rollout") /\ UNCHANGED <<todo, attempt>>
    <3>1. journal \in Journals /\ dep[New].uid \in 0..uids
      BY Typed, Consumers
    <3>2. journal' \in Journals
      BY <2>2, <3>1 DEF Journals
    <3>3. uids' = uids /\ dep' \in [Names -> Deployments'] /\ Journals' = Journals /\ Counted
      BY <1>7, <2>2, StillFacts, CountFacts DEF NewStarted
    <3> QED
      BY <1>7, <2>2, <3>2, <3>3, Typed, StepTyped DEF NewStarted
  <2> QED
    BY <1>7, <2>1, <2>2 DEF NewStarted
<1>8. CASE Rollout
  BY <1>8, Typed, CountFacts, MoveTyped DEF Rollout
<1>9. CASE Complete
  <2>1. CASE journal' = journal
    BY <1>9, <2>1, Typed, CountFacts, MoveTyped DEF Complete
  <2>2. CASE Write("complete") /\ NoFault /\ End /\ UNCHANGED attempt
    <3>1. journal' \in Journals' /\ uids' = uids /\ dep' \in [Names -> Deployments'] /\ Counted
      BY <1>9, <2>2, WriteFacts, StillFacts, CountFacts DEF Complete
    <3> QED
      BY <1>9, <2>2, <3>1, Typed, StepTyped DEF Complete, End
  <2> QED
    BY <1>9, <2>1, <2>2 DEF Complete
<1>10. ASSUME NEW n \in Names, StopOne(n)
       PROVE  TypeOK'
  BY <1>10, Typed, CountFacts, MoveTyped DEF StopOne
<1>11. ASSUME NEW n \in Names, Drain(n)
       PROVE  TypeOK'
  BY <1>11, Typed, CountFacts, MoveTyped DEF Drain
<1> QED
  BY <1>1, <1>2, <1>3, <1>4, <1>5, <1>6, <1>7, <1>8, <1>9, <1>10, <1>11 DEF Deploying

\* Types: every step of restore().
LEMMA RestoringTyped ==
  ASSUME TypeOK, AbsentIsNothing, Restoring
  PROVE  TypeOK'
<1> USE DEF Here, Goto, NoWrite, Stop
<1>1. CASE Rollback
  BY <1>1, Typed, CountFacts, MoveTyped DEF Rollback
<1>2. CASE StopNew
  <2>1. attempt' \in {"noted", "unnoted", "overwritten"} /\ Counted
    BY <1>2, Typed, CountFacts DEF StopNew, Unnoted
  <2> QED
    BY <1>2, <2>1, Typed, Consumers, MoveTyped DEF StopNew
<1>3. CASE NewStopped
  <2>1. CASE journal' = journal
    BY <1>3, <2>1, Typed, CountFacts, MoveTyped DEF NewStopped, Noted
  <2>2. CASE Write("rollback_stopped_new") /\ Noted /\ Goto("idle_check") /\ UNCHANGED todo
    <3>1. journal' \in Journals' /\ uids' = uids /\ dep' \in [Names -> Deployments'] /\ Counted
      BY <1>3, <2>2, WriteFacts, StillFacts, CountFacts DEF NewStopped
    <3>2. attempt' \in {"noted", "unnoted", "overwritten"}
      BY <2>2, Typed DEF Noted
    <3> QED
      BY <1>3, <2>2, <3>1, <3>2, Typed, StepTyped DEF NewStopped
  <2> QED
    BY <1>3, <2>1, <2>2 DEF NewStopped
<1>4. CASE IdleCheck
  BY <1>4, Typed, CountFacts, MoveTyped DEF IdleCheck, Recorded
<1>5. CASE RemoveNew
  BY <1>5, Typed, CountFacts, MoveTyped DEF RemoveNew
<1>6. CASE RolledBack
  <2>1. journal' \in Journals' /\ uids' = uids /\ dep' \in [Names -> Deployments'] /\ Counted
    BY <1>6, WriteFacts, StillFacts, CountFacts DEF RolledBack
  <2> QED
    BY <1>6, <2>1, Typed, StepTyped DEF RolledBack, End
<1>7. ASSUME NEW n \in Names, Reapply(n)
      PROVE  TypeOK'
  BY <1>7, Typed, CountFacts, MoveTyped DEF Reapply
<1>8. ASSUME NEW n \in Names, Rerollout(n)
      PROVE  TypeOK'
  BY <1>8, Typed, CountFacts, MoveTyped DEF Rerollout
<1> QED
  BY <1>1, <1>2, <1>3, <1>4, <1>5, <1>6, <1>7, <1>8 DEF Restoring

\* Types: Kubernetes, Ray, other people, and a script that is killed.
LEMMA OthersTyped ==
  ASSUME TypeOK, AbsentIsNothing,
         \/ Kill \/ JobStarts \/ JobEnds
         \/ \E n \in Names : PodStarts(n) \/ PodIsStopped(n) \/ PodEnds(n) \/ Replace(n)
  PROVE  TypeOK'
<1>1. CASE Kill
  <2>1. Counted /\ End /\ UNCHANGED <<setup, dep, pods, jobs, uids>> /\ Still
    BY <1>1, CountFacts DEF Kill, cluster, Still
  <2>2. CASE NoWrite
    BY <2>1, <2>2, Typed, MoveTyped DEF NoWrite
  <2>3. CASE journal' = NoJournal /\ Overwritten
    <3>1. NoJournal \in Journals
      <4>1. Absent \in Deployments /\ 0 \in 0..uids
        <5>1. uids \in Nat
          BY Numbers
        <5>2. Absent \in Deployments
          BY <5>1, AbsentFacts DEF Deployments
        <5> QED
          BY <5>1, <5>2
      <4>2. [n \in Names |-> Absent] \in [Names -> Deployments]
        BY <4>1
      <4> QED
        BY <4>1, <4>2 DEF NoJournal, Journals
    <3>2. attempt' \in {"noted", "unnoted", "overwritten"}
      BY <2>3, Typed DEF Overwritten
    <3> QED
      BY <2>1, <2>3, <3>1, <3>2, Typed, StillFacts, StepTyped DEF End
  <2> QED
    BY <1>1, <2>2, <2>3 DEF Kill
<1>2. CASE JobStarts
  <2>1. jobs' \in 0..MaxJobs
    BY <1>2, Numbers DEF JobStarts
  <2> QED
    BY <1>2, <2>1, Typed, WorldTyped DEF JobStarts
<1>3. CASE JobEnds
  <2>1. jobs' \in 0..MaxJobs
    BY <1>3, Numbers DEF JobEnds
  <2> QED
    BY <1>3, <2>1, Typed, WorldTyped DEF JobEnds
<1>4. ASSUME NEW n \in Names, PodStarts(n)
      PROVE  TypeOK'
  <2>1. pods' \in [Names -> [up : Specs, ending : BOOLEAN]]
    BY <1>4, Typed DEF PodStarts
  <2> QED
    BY <1>4, <2>1, Typed, WorldTyped DEF PodStarts
<1>5. ASSUME NEW n \in Names, PodIsStopped(n)
      PROVE  TypeOK'
  <2>1. pods' \in [Names -> [up : Specs, ending : BOOLEAN]]
    BY <1>5, Typed DEF PodIsStopped, Specs
  <2> QED
    BY <1>5, <2>1, Typed, WorldTyped DEF PodIsStopped
<1>6. ASSUME NEW n \in Names, PodEnds(n)
      PROVE  TypeOK'
  <2>1. pods' \in [Names -> [up : Specs, ending : BOOLEAN]]
    BY <1>6, Typed DEF PodEnds
  <2> QED
    BY <1>6, <2>1, Typed, WorldTyped DEF PodEnds
<1>7. ASSUME NEW n \in Names, Replace(n)
      PROVE  TypeOK'
  <2>1. uids' = uids + 1 /\ uids' \in Nat /\ uids' >= uids
    BY <1>7, Numbers DEF Replace
  <2>2. Deployments \subseteq Deployments' /\ journal \in Journals'
    BY <2>1, UidsOnlyGrow
  <2>3. dep' \in [Names -> Deployments']
    <3>1. dep[n] \in Deployments' /\ dep \in [Names -> Deployments']
      BY <2>2, Typed
    <3>2. uids + 1 \in 0..uids'
      BY <2>1, Numbers
    <3> QED
      BY <1>7, <3>1, <3>2 DEF Replace, Deployments, DeploymentsOf
  <2>4. BoundsOK'
    BY <1>7 DEF Replace, Count, TypeOK, BoundsOK
  <2>5. ClusterOK' /\ ScriptOK'
    BY <1>7, <2>1, <2>2, <2>3 DEF Replace, World, script, TypeOK, ClusterOK, ScriptOK
  <2> QED
    BY <2>4, <2>5 DEF TypeOK
<1> QED
  BY <1>1, <1>2, <1>3, <1>4, <1>5, <1>6, <1>7
-----------------------------------------------------------------------------
(* The inductive invariant, in two halves *)

\* What is true of the cluster and the journal wherever the script is.
AtRest ==
  /\ OneIsQuiet /\ AbsentIsNothing /\ SnapshotHasIt /\ DeployedWhenFinished
  /\ JournalTruthful /\ RolledBackIsBefore

\* What the script knows where it is.
AtPlace == PhaseKnown /\ ApplyKnows /\ RestoreKnows /\ SameObjects

\* The invariant has a part for the cluster at rest and one for each place.
LEMMA Halves ==
  /\ IInv <=> TypeOK /\ AtRest /\ AtPlace
  /\ IInv' <=> TypeOK' /\ AtRest' /\ AtPlace'
  BY DEF IInv, AtRest, AtPlace

\* Where nothing is known but the journal: between commands, and when restore()
\* begins.
LEMMA NothingKnown ==
  ASSUME pc' \in {"idle", "restore"},
         journal'.phase = "" => pc' = "idle" /\ attempt' # "unnoted"
  PROVE  AtPlace'
  BY DEF AtPlace, PhaseKnown, ApplyKnows, RestoreKnows, SameObjects

\* AtRest does not depend on where the script is.
LEMMA RestFrame ==
  ASSUME AtRest, UNCHANGED <<setup, dep, pods, journal, attempt>>,
         bounds'.replacements = bounds.replacements
  PROVE  AtRest'
<1>1. Recorded' = Recorded /\ (Unfinished <=> Unfinished')
  BY DEF Recorded, Unfinished
<1>2. \A n \in Names : (Running(n) <=> Running(n)') /\ (Exists(n) <=> Exists(n)')
  BY DEF Running, Exists
<1>3. OneIsQuiet'
  BY <1>2, Consumers DEF AtRest, OneIsQuiet, Quiet
<1>4. AbsentIsNothing'
  BY <1>1, <1>2, Consumers DEF AtRest, AbsentIsNothing
<1>5. SnapshotHasIt' /\ DeployedWhenFinished'
  BY <1>1 DEF AtRest, SnapshotHasIt, DeployedWhenFinished, AllDown
<1>6. JournalTruthful'
  BY <1>1, <1>2, Consumers DEF AtRest, JournalTruthful
<1>7. RolledBackIsBefore'
  BY DEF AtRest, RolledBackIsBefore, SameRelease
<1> QED
  BY <1>3, <1>4, <1>5, <1>6, <1>7 DEF AtRest

\* Nothing starts where nothing is scaled up.
LEMMA PodsKeepQuiet ==
  ASSUME TypeOK, NEW n \in Names, PodStarts(n) \/ PodIsStopped(n) \/ PodEnds(n)
  PROVE  /\ UNCHANGED <<setup, dep, jobs, uids, bounds, journal, pc, manifest, todo, attempt>>
         /\ \A m \in Names : Running(m)' => Running(m) \/ dep[m].replicas > 0
<1>1. pods \in [Names -> [up : Specs, ending : BOOLEAN]]
  BY Typed
<1>2. UNCHANGED <<setup, dep, jobs, uids, bounds, journal, pc, manifest, todo, attempt>>
  BY DEF PodStarts, PodIsStopped, PodEnds, World, script
<1>3. \A m \in Names \ {n} : pods'[m] = pods[m]
  BY <1>1 DEF PodStarts, PodIsStopped, PodEnds
<1>4. Running(n) \/ dep[n].replicas > 0
  <2>1. CASE PodStarts(n)
    BY <2>1 DEF PodStarts
  <2>2. CASE PodIsStopped(n)
    BY <2>2, NoPodFacts DEF PodIsStopped, Running
  <2>3. CASE PodEnds(n)
    BY <2>3, NoPodFacts DEF PodEnds, Running
  <2> QED
    BY <2>1, <2>2, <2>3
<1> QED
  BY <1>2, <1>3, <1>4 DEF Running

\* Kubernetes and Ray keep the invariant.
LEMMA WorldKeeps ==
  ASSUME IInv, TypeOK',
         UNCHANGED <<setup, dep, uids, bounds, journal, pc, manifest, todo, attempt>>,
         \A m \in Names : Running(m)' => Running(m) \/ dep[m].replicas > 0,
         jobs' = 0 \/ jobs > 0 \/ \E m \in Names : Running(m)
  PROVE  IInv'
<1>1. Recorded' = Recorded /\ (Unfinished <=> Unfinished')
  BY DEF Recorded, Unfinished
<1>2. \A m \in Names : /\ Quiet(m) => Quiet(m)'
                       /\ Exists(m) <=> Exists(m)'
                       /\ Turn(m) <=> Turn(m)'
  <2>1. ASSUME NEW m \in Names, Quiet(m)
        PROVE  Quiet(m)'
    BY <2>1 DEF Quiet
  <2> QED
    BY <2>1 DEF Exists, Turn
<1>3. \A m \in Names : ~Exists(m) => ~Running(m)'
  <2>1. ASSUME NEW m \in Names, ~Exists(m)
        PROVE  ~Running(m)'
    <3>1. ~Running(m)
      BY <2>1 DEF IInv, AbsentIsNothing
    <3>2. dep[m].replicas = 0
      BY <2>1, AbsentFacts DEF Exists
    <3> QED
      BY <3>1, <3>2
  <2> QED
    BY <2>1
<1>4. OneIsQuiet'
  BY <1>2, Consumers DEF IInv, OneIsQuiet
<1>5. AbsentIsNothing'
  BY <1>1, <1>2, <1>3, Consumers DEF IInv, AbsentIsNothing
<1>6. PhaseKnown'
  BY <1>1 DEF IInv, PhaseKnown
<1>7. ApplyKnows'
  <2>1. pc = "apply" => jobs' = 0
    <3>1. pc = "apply" => jobs = 0 /\ \A m \in Names : ~Running(m)
      BY DEF IInv, ApplyKnows, Quiet
    <3> QED
      BY <3>1
  <2> QED
    BY <1>2, <2>1, Consumers DEF IInv, ApplyKnows
<1>8. RestoreKnows'
  BY <1>1, <1>2, Consumers DEF IInv, RestoreKnows, SameRelease, Recorded
<1>9. SameObjects'
  BY <1>1, <1>2, Consumers DEF IInv, SameObjects, Recorded
<1>10. SnapshotHasIt' /\ DeployedWhenFinished'
  BY <1>1 DEF IInv, SnapshotHasIt, DeployedWhenFinished, AllDown
<1>11. JournalTruthful'
  BY <1>1, <1>2, Consumers DEF IInv, JournalTruthful, Quiet
<1>12. RolledBackIsBefore'
  BY DEF IInv, RolledBackIsBefore, SameRelease
<1> QED
  BY <1>4, <1>5, <1>6, <1>7, <1>8, <1>9, <1>10, <1>11, <1>12 DEF IInv

\* A Deployment recreated by somebody else keeps its replicas and its spec, and
\* the script relies on no uid where that can happen.
LEMMA ReplaceKeeps ==
  ASSUME IInv, TypeOK', NEW n \in Names, Replace(n)
  PROVE  IInv'
<1>1. /\ UNCHANGED <<setup, pods, jobs, journal, pc, manifest, todo, attempt>>
      /\ pc \in {"idle", "stop"} /\ Exists(n)
  BY DEF Replace, World, script
<1>2. bounds'.replacements # 0
  BY DEF IInv, TypeOK, BoundsOK, Replace, Count
<1>3. /\ \A m \in Names \ {n} : dep'[m] = dep[m]
      /\ dep'[n].uid # 0 /\ dep'[n].replicas = dep[n].replicas /\ dep'[n].spec = dep[n].spec
  <2>1. dep \in [Names -> Deployments] /\ dep[n] \in Deployments
    BY Typed DEF IInv
  <2>3. uids + 1 # 0
    BY Numbers DEF IInv
  <2>2. dep' = [dep EXCEPT ![n].uid = uids + 1]
    BY DEF Replace
  <2> QED
    BY <2>1, <2>2, <2>3 DEF Deployments, DeploymentsOf
<1>4. Exists(n)'
  BY <1>3, AbsentFacts DEF Exists
<1>5. \A m \in Names : /\ dep'[m].replicas = dep[m].replicas /\ dep'[m].spec = dep[m].spec
                       /\ Exists(m) <=> Exists(m)'
                       /\ Running(m) <=> Running(m)'
                       /\ Quiet(m) <=> Quiet(m)'
  BY <1>1, <1>3, <1>4 DEF Exists, Running, Quiet
<1>6. Recorded' = Recorded /\ (Unfinished <=> Unfinished')
  BY <1>1 DEF Recorded, Unfinished
<1>7. OneIsQuiet'
  BY <1>1, <1>5, Consumers DEF IInv, OneIsQuiet
<1>8. AbsentIsNothing'
  BY <1>1, <1>3, <1>5, <1>6, Consumers DEF IInv, AbsentIsNothing
<1>9. PhaseKnown'
  BY <1>1, <1>6 DEF IInv, PhaseKnown
<1>10. ApplyKnows' /\ RestoreKnows' /\ SameObjects'
  BY <1>1, <1>5 DEF IInv, ApplyKnows, RestoreKnows, SameObjects
<1>11. SnapshotHasIt' /\ DeployedWhenFinished'
  BY <1>1, <1>5, <1>6 DEF IInv, SnapshotHasIt, DeployedWhenFinished, AllDown
<1>12. JournalTruthful'
  BY <1>1, <1>2, <1>5, <1>6, Consumers DEF IInv, JournalTruthful
<1>13. RolledBackIsBefore'
  BY <1>1, <1>5 DEF IInv, RolledBackIsBefore, SameRelease
<1> QED
  BY <1>7, <1>8, <1>9, <1>10, <1>11, <1>12, <1>13 DEF IInv
-----------------------------------------------------------------------------
(* The steps of `apply` *)

\* `kubectl scale --replicas 0` of either Deployment keeps what is quiet quiet,
\* and what an unfinished journal says true.
LEMMA ScaleKeeps ==
  ASSUME IInv, NEW n \in Names, ScaledDown(n), UNCHANGED <<setup, pods, journal>>,
         bounds'.replacements = bounds.replacements
  PROVE  /\ OneIsQuiet' /\ AbsentIsNothing' /\ JournalTruthful'
         /\ \A m \in Names : /\ Quiet(m) => Quiet(m)'
                             /\ Exists(m) <=> Exists(m)'
                             /\ Running(m) <=> Running(m)'
                             /\ dep'[m].uid = dep[m].uid
                             /\ m # n => dep'[m] = dep[m]
         /\ dep'[n].replicas = 0 /\ Recorded' = Recorded
<1>1. /\ \A m \in Names \ {n} : dep'[m] = dep[m]
      /\ dep'[n].uid = dep[n].uid /\ dep'[n].replicas = 0
      /\ dep'[n].uid = 0 => dep'[n] = Absent
      /\ Exists(n)' <=> Exists(n)
  BY ScaleFacts DEF IInv, AbsentIsNothing
<1>2. Recorded' = Recorded
  BY DEF Recorded
<1>3. \A m \in Names : /\ Quiet(m) => Quiet(m)'
                       /\ Exists(m) <=> Exists(m)'
                       /\ Running(m) <=> Running(m)'
                       /\ dep'[m].uid = dep[m].uid
                       /\ m # n => dep'[m] = dep[m]
  BY <1>1 DEF Quiet, Exists, Running
<1>4. OneIsQuiet'
  BY <1>3, Consumers DEF IInv, OneIsQuiet
<1>5. AbsentIsNothing'
  BY <1>1, <1>2, <1>3, Consumers DEF IInv, AbsentIsNothing
<1>6. JournalTruthful'
  <2>1. /\ Quiet(Old) => dep'[Old].replicas = 0 /\ ~Running(Old)'
        /\ Quiet(New) => dep'[New].replicas = 0 /\ ~Running(New)'
    BY <1>3, Consumers DEF Quiet
  <2> QED
    BY <1>2, <1>3, <2>1, Consumers DEF IInv, JournalTruthful, Quiet
<1> QED
  BY <1>1, <1>2, <1>3, <1>4, <1>5, <1>6

\* A step of `apply` or of restore() that changes neither the cluster nor the
\* journal only has to know what it knows.
LEMMA MoveKeeps ==
  ASSUME IInv, TypeOK', UNCHANGED <<setup, pods, jobs, journal, attempt>>, Still, Counted,
         AtPlace'
  PROVE  IInv'
  BY RestFrame, Halves DEF Still, Counted

\* restore() is entered with a journal, and a command ends anywhere.
LEMMA GoneKeeps ==
  ASSUME IInv, TypeOK', UNCHANGED <<setup, pods, jobs, journal, attempt>>, Still, Counted,
         pc' = "idle" \/ (pc' = "restore" /\ journal.phase # "")
  PROVE  IInv'
<1>1. journal.phase = "" => attempt # "unnoted"
  BY DEF IInv, PhaseKnown
<1>2. AtPlace'
  BY <1>1, NothingKnown
<1> QED
  BY <1>2, MoveKeeps

\* The first steps of `apply`: nothing is changed yet.
LEMMA BeginKeeps ==
  ASSUME IInv, TypeOK', Check \/ \E m \in Manifests : Apply(m)
  PROVE  IInv'
<1>1. ASSUME NEW m \in Manifests, Apply(m)
      PROVE  IInv'
  <2>1. /\ UNCHANGED <<setup, pods, jobs, journal, attempt>> /\ Still /\ Counted
        /\ pc' = "check" /\ ~Unfinished
    BY <1>1, CountFacts DEF Apply, Here, MayDeploy, NoWrite, IInv
  <2>2. AtPlace'
    <3>1. journal.phase = "" => attempt # "unnoted"
      BY DEF IInv, PhaseKnown
    <3> QED
      BY <2>1, <3>1 DEF AtPlace, PhaseKnown, ApplyKnows, RestoreKnows, SameObjects, Unfinished
  <2> QED
    BY <2>1, <2>2, MoveKeeps
<1>2. CASE Check
  <2>1. UNCHANGED <<setup, pods, jobs, journal, attempt>> /\ Still /\ Counted /\ pc = "check"
    BY <1>2, CountFacts DEF Check, Here, NoWrite, Stop, IInv
  <2>2. CASE Stop
    BY <2>1, <2>2, GoneKeeps DEF Stop, End
  <2>3. CASE pc' = "snapshot"
    <3>1. ~Unfinished /\ (journal.phase = "" => attempt # "unnoted")
      BY <2>1 DEF IInv, PhaseKnown
    <3>2. AtPlace'
      BY <2>1, <2>3, <3>1 DEF AtPlace, PhaseKnown, ApplyKnows, RestoreKnows, SameObjects,
                              Unfinished
    <3> QED
      BY <2>1, <3>2, MoveKeeps
  <2> QED
    BY <1>2, <2>2, <2>3 DEF Check, Goto
<1> QED
  BY <1>1, <1>2

\* A snapshot of Deployments of which one runs a Consumer is worth having; of
\* Deployments that are all down it overwrites the one that was worth it.
LEMMA SnapshotKeeps ==
  ASSUME IInv, TypeOK', Snapshot
  PROVE  IInv'
<1>1. UNCHANGED <<setup, pods, jobs>> /\ Still /\ Counted /\ pc = "snapshot"
  BY CountFacts DEF Snapshot, Here, Stop, IInv
<1>2. CASE Stop /\ NoWrite
  BY <1>1, <1>2, GoneKeeps DEF Stop, End, NoWrite
<1>3. CASE /\ journal' = [phase |-> "prepared", snapshots |-> dep, newUid |-> 0,
                          fingerprint |-> manifest]
           /\ Goto("stop") /\ todo' = {n \in Names : Exists(n)}
           /\ Overwritten
  <2>1. /\ journal'.phase = "prepared" /\ journal'.snapshots = dep
        /\ dep' = dep /\ pods' = pods /\ setup' = setup /\ pc' = "stop" /\ Unfinished'
    BY <1>1, <1>3 DEF Still, Goto, Unfinished
  <2>2. \A n \in Names : /\ Exists(n) <=> Exists(n)'
                         /\ Running(n) <=> Running(n)'
                         /\ Quiet(n) <=> Quiet(n)'
                         /\ n \in Recorded' <=> Exists(n)
    BY <2>1 DEF Exists, Running, Quiet, Recorded
  <2>3. OneIsQuiet'
    <3>1. dep[New].replicas > 0 => ~Quiet(New)
      BY DEF Quiet
    <3>2. Quiet(Old) => dep[Old].replicas = 0
      BY DEF Quiet
    <3> QED
      BY <2>1, <2>2, <3>1, <3>2, Consumers DEF IInv, OneIsQuiet
  <2>4. AbsentIsNothing'
    BY <2>1, <2>2, Consumers DEF IInv, AbsentIsNothing
  <2>5. ~Unfinished
    BY <1>1 DEF IInv, PhaseKnown
  <2>6. SnapshotHasIt'
    <3> SUFFICES ASSUME setup.served, attempt' # "overwritten"
                 PROVE  \E n \in Names : dep[n].replicas > 0
      BY <2>1 DEF SnapshotHasIt
    <3>1. attempt = "noted"
      BY <1>3, Typed DEF Overwritten, IInv
    <3>2. ~AllDown
      BY <2>5, <3>1 DEF IInv, DeployedWhenFinished
    <3>3. \A n \in Names : dep[n].replicas \in 0..1
      BY Typed DEF IInv
    <3> QED
      BY <3>2, <3>3 DEF AllDown
  <2>7. DeployedWhenFinished' /\ JournalTruthful' /\ RolledBackIsBefore'
    BY <2>1 DEF DeployedWhenFinished, JournalTruthful, RolledBackIsBefore
  <2>8. AtPlace'
    <3>1. \A n \in Names \ todo' : Quiet(n)'
      <4>1. ASSUME NEW n \in Names, ~Exists(n)
            PROVE  Quiet(n)
        BY <4>1, AbsentFacts DEF IInv, AbsentIsNothing, Quiet, Exists
      <4> QED
        BY <1>3, <2>2, <4>1
    <3> QED
      BY <2>1, <3>1 DEF AtPlace, PhaseKnown, ApplyKnows, RestoreKnows, SameObjects
  <2> QED
    BY <2>3, <2>4, <2>6, <2>7, <2>8, Halves DEF AtRest
<1> QED
  BY <1>2, <1>3 DEF Snapshot

\* Each Deployment is identified, scaled down and drained, in its turn.
LEMMA StoppingKeeps ==
  ASSUME IInv, TypeOK', NEW n \in Names, StopOne(n) \/ Drain(n)
  PROVE  IInv'
<1>1. /\ UNCHANGED <<setup, pods, jobs, journal, attempt>> /\ Counted /\ Turn(n)
      /\ pc \in {"stop", "drain"}
  BY CountFacts DEF StopOne, Drain, Here, Caught, NoWrite, IInv
<1>2. journal.phase = "prepared"
  BY <1>1 DEF IInv, PhaseKnown
<1>3. Unfinished /\ Unfinished'
  BY <1>1, <1>2 DEF Unfinished
<1>4. CASE Drain(n) /\ Caught
  BY <1>1, <1>2, <1>4, GoneKeeps DEF Drain, Caught, Goto
<1>5. CASE Drain(n) /\ ~Caught
  <2>1. /\ pc = "drain" /\ pc' = "stop" /\ ~Running(n) /\ todo' = todo \ {n}
        /\ Still /\ dep' = dep
    BY <1>5 DEF Drain, Here, Goto, Still
  <2>2. \A m \in Names \ todo' : Quiet(m)
    <3>1. dep[n].replicas = 0 /\ \A m \in Names \ todo : Quiet(m)
      BY <1>1, <2>1 DEF IInv, ApplyKnows
    <3> QED
      BY <2>1, <3>1 DEF Quiet
  <2>3. \A m \in Names \ todo' : Quiet(m)'
    BY <1>1, <2>1, <2>2 DEF Quiet, Running
  <2>4. AtPlace'
    BY <1>1, <1>2, <2>1, <2>3 DEF AtPlace, PhaseKnown, ApplyKnows, RestoreKnows, SameObjects
  <2> QED
    BY <1>1, <2>1, <2>4, MoveKeeps
<1>6. CASE StopOne(n) /\ Still
  <2>1. CASE Caught
    BY <1>1, <1>2, <1>6, <2>1, GoneKeeps DEF Caught, Goto
  <2>2. CASE ScaledDown(n) /\ Goto("drain") /\ UNCHANGED todo
    <3>1. pc = "stop" /\ dep' = dep /\ pc' = "drain" /\ todo' = todo
      BY <1>6, <2>2 DEF StopOne, Here, Still, Goto
    <3>2. dep'[n].replicas = 0
      BY <2>2, ScaleFacts DEF IInv, AbsentIsNothing
    <3>3. \A m \in Names \ todo' : Quiet(m)'
      BY <1>1, <3>1 DEF IInv, ApplyKnows, Quiet, Running
    <3>4. \A m \in Names : Turn(m)' => m = n
      BY <1>1, <3>1, Consumers DEF Turn
    <3>5. AtPlace'
      BY <1>1, <1>2, <3>1, <3>2, <3>3, <3>4
         DEF AtPlace, PhaseKnown, ApplyKnows, RestoreKnows, SameObjects
    <3> QED
      BY <1>1, <1>6, <3>5, MoveKeeps
  <2> QED
    BY <1>6, <2>1, <2>2 DEF StopOne
<1>7. CASE StopOne(n) /\ ScaledDown(n)
  <2>1. /\ OneIsQuiet' /\ AbsentIsNothing' /\ JournalTruthful'
        /\ \A m \in Names : Quiet(m) => Quiet(m)'
        /\ dep'[n].replicas = 0
    BY <1>1, <1>7, ScaleKeeps DEF Counted
  <2>2. SnapshotHasIt'
    BY <1>1, <1>2 DEF IInv, SnapshotHasIt
  <2>3. DeployedWhenFinished' /\ RolledBackIsBefore'
    BY <1>1, <1>2, <1>3 DEF DeployedWhenFinished, RolledBackIsBefore
  <2>4. AtPlace'
    <3>1. CASE Caught
      BY <1>1, <1>2, <3>1, NothingKnown DEF Caught, Goto
    <3>2. CASE Goto("drain") /\ UNCHANGED todo
      <4>1. pc = "stop" /\ pc' = "drain" /\ todo' = todo
        BY <1>7, <3>2 DEF StopOne, Here, Goto
      <4>2. \A m \in Names \ todo' : Quiet(m)'
        BY <1>1, <2>1, <4>1 DEF IInv, ApplyKnows
      <4>3. \A m \in Names : Turn(m)' => m = n
        BY <1>1, <4>1, Consumers DEF Turn
      <4> QED
        BY <1>1, <1>2, <2>1, <4>1, <4>2, <4>3
           DEF AtPlace, PhaseKnown, ApplyKnows, RestoreKnows, SameObjects
    <3> QED
      BY <1>7, <3>1, <3>2 DEF StopOne
  <2> QED
    BY <2>1, <2>2, <2>3, <2>4, Halves DEF AtRest
<1> QED
  BY <1>4, <1>5, <1>6, <1>7 DEF StopOne
\* A phase is written: the Deployments and the snapshots are as they were.
LEMMA PhaseKeeps ==
  ASSUME IInv, Still, UNCHANGED <<setup, pods>>, journal.phase # "",
         journal'.phase # "", journal'.snapshots = journal.snapshots,
         attempt = "overwritten" => attempt' = "overwritten"
  PROVE  /\ OneIsQuiet' /\ AbsentIsNothing' /\ SnapshotHasIt'
         /\ \A n \in Names : /\ dep'[n] = dep[n]
                             /\ Quiet(n) <=> Quiet(n)'
                             /\ Running(n) <=> Running(n)'
                             /\ Exists(n) <=> Exists(n)'
         /\ Recorded' = Recorded
<1>1. dep' = dep /\ pods' = pods /\ Recorded' = Recorded
  BY DEF Still, Recorded
<1>2. \A n \in Names : /\ Quiet(n) <=> Quiet(n)'
                       /\ Running(n) <=> Running(n)'
                       /\ Exists(n) <=> Exists(n)'
  BY <1>1 DEF Quiet, Running, Exists
<1>3. OneIsQuiet'
  BY <1>2, Consumers DEF IInv, OneIsQuiet
<1>4. AbsentIsNothing'
  BY <1>1, <1>2, Consumers DEF IInv, AbsentIsNothing
<1>5. SnapshotHasIt'
  BY DEF IInv, SnapshotHasIt
<1> QED
  BY <1>1, <1>2, <1>3, <1>4, <1>5

\* Every Deployment has been drained, and the journal says so.
LEMMA OldStoppedKeeps ==
  ASSUME IInv, TypeOK', OldStopped
  PROVE  IInv'
<1>1. /\ UNCHANGED <<setup, pods, jobs, attempt>> /\ Still
      /\ pc = "stop" /\ todo = {} /\ pc' = "recheck"
  BY DEF OldStopped, Here, Goto
<1>2. /\ journal'.phase = "old_stopped" /\ journal'.snapshots = journal.snapshots
      /\ journal.phase = "prepared"
  BY <1>1, WriteFacts DEF OldStopped, IInv, PhaseKnown
<1>3. /\ OneIsQuiet' /\ AbsentIsNothing' /\ SnapshotHasIt'
      /\ \A n \in Names : Quiet(n) <=> Quiet(n)'
  BY <1>1, <1>2, PhaseKeeps
<1>4. \A n \in Names : Quiet(n)'
  BY <1>1, <1>3 DEF IInv, ApplyKnows
<1>5. JournalTruthful'
  <2>1. dep'[Old].replicas = 0 /\ ~Running(Old)'
    BY <1>4, Consumers DEF Quiet
  <2> QED
    BY <1>2, <2>1 DEF JournalTruthful
<1>6. DeployedWhenFinished' /\ RolledBackIsBefore'
  BY <1>2 DEF DeployedWhenFinished, RolledBackIsBefore, Unfinished
<1>7. AtPlace'
  BY <1>1, <1>2, <1>4 DEF AtPlace, PhaseKnown, ApplyKnows, RestoreKnows, SameObjects
<1> QED
  BY <1>3, <1>5, <1>6, <1>7, Halves DEF AtRest

\* The second check: from here on no job is active and none can start.
LEMMA RecheckKeeps ==
  ASSUME IInv, TypeOK', Recheck
  PROVE  IInv'
<1>1. /\ UNCHANGED <<setup, pods, jobs, journal, attempt>> /\ Still /\ Counted
      /\ pc = "recheck"
  BY CountFacts DEF Recheck, Here, NoWrite, Caught, IInv
<1>2. journal.phase = "old_stopped"
  BY <1>1 DEF IInv, PhaseKnown
<1>3. CASE Caught
  BY <1>1, <1>2, <1>3, GoneKeeps DEF Caught, Goto
<1>4. CASE DoctorPasses /\ Goto("apply")
  <2>1. pc' = "apply" /\ jobs' = 0
    BY <1>1, <1>4 DEF DoctorPasses, Goto
  <2>2. \A n \in Names : Quiet(n)'
    BY <1>1 DEF IInv, ApplyKnows, Quiet, Running, Still
  <2>3. AtPlace'
    BY <1>1, <1>2, <2>1, <2>2 DEF AtPlace, PhaseKnown, ApplyKnows, RestoreKnows, SameObjects
  <2> QED
    BY <1>1, <2>3, MoveKeeps
<1> QED
  BY <1>3, <1>4 DEF Recheck

\* The new Deployment is applied with one replica; the old one is quiet.
LEMMA StartNewKeeps ==
  ASSUME IInv, TypeOK', StartNew
  PROVE  IInv'
<1>1. /\ UNCHANGED <<setup, pods, jobs, journal, attempt>> /\ Counted
      /\ pc = "apply"
  BY CountFacts DEF StartNew, Here, NoWrite, Caught, IInv
<1>2. journal.phase = "old_stopped" /\ \A n \in Names : Quiet(n)
  BY <1>1 DEF IInv, PhaseKnown, ApplyKnows
<1>3. CASE Still /\ Caught
  BY <1>1, <1>2, <1>3, GoneKeeps DEF Caught, Goto
<1>4. CASE Applied(New, manifest, 1, TRUE)
  <2>1. /\ dep'[Old] = dep[Old] /\ dep'[New].replicas = 1
        /\ dep'[New].uid # 0 /\ Exists(New)'
    <3>1. manifest \in Specs /\ New \in Names /\ Old \in Names \ {New}
      BY Typed, Consumers DEF IInv
    <3>2. 1 \in 0..1 /\ TRUE \in BOOLEAN
      OBVIOUS
    <3> QED
      BY <1>4, <3>1, <3>2, ApplyFacts DEF IInv, AbsentIsNothing
  <2>2. /\ Quiet(Old)' /\ (Exists(Old) <=> Exists(Old)') /\ (Running(Old) <=> Running(Old)')
        /\ Recorded' = Recorded
    BY <1>1, <1>2, <2>1, Consumers DEF Quiet, Exists, Running, Recorded
  <2>3. OneIsQuiet'
    BY <1>1, <2>2 DEF IInv, OneIsQuiet
  <2>4. AbsentIsNothing'
    BY <1>1, <2>1, <2>2, Consumers DEF IInv, AbsentIsNothing
  <2>5. SnapshotHasIt' /\ DeployedWhenFinished' /\ RolledBackIsBefore'
    BY <1>1, <1>2 DEF IInv, SnapshotHasIt, DeployedWhenFinished, RolledBackIsBefore, Unfinished
  <2>6. JournalTruthful'
    BY <1>1, <1>2, <2>2 DEF JournalTruthful, Quiet
  <2>7. AtPlace'
    <3>1. CASE Caught
      BY <1>1, <1>2, <3>1, NothingKnown DEF Caught, Goto
    <3>2. CASE Goto("record")
      <4>1. pc' = "record" /\ dep'[New].replicas > 0
        BY <2>1, <3>2 DEF Goto
      <4> QED
        BY <1>1, <1>2, <4>1 DEF AtPlace, PhaseKnown, ApplyKnows, RestoreKnows, SameObjects
    <3> QED
      BY <3>1, <3>2 DEF StartNew
  <2> QED
    BY <2>3, <2>4, <2>5, <2>6, <2>7, Halves DEF AtRest
<1> QED
  BY <1>3, <1>4 DEF StartNew

\* The journal is told the object that was started, and waits for its Pod.
LEMMA RecordKeeps ==
  ASSUME IInv, TypeOK', NewStarted \/ Rollout
  PROVE  IInv'
<1>1. /\ UNCHANGED <<setup, pods, jobs, attempt>> /\ Still /\ Counted
      /\ pc \in {"record", "rollout"} /\ dep' = dep
  BY CountFacts DEF NewStarted, Rollout, Here, NoWrite, Caught, Still, IInv
<1>2. journal.phase \in {"old_stopped", "new_started"} /\ dep[New].replicas > 0
  BY <1>1 DEF IInv, PhaseKnown, ApplyKnows
<1>3. CASE Caught
  BY <1>1, <1>2, <1>3, GoneKeeps DEF Caught, Goto, NoWrite
<1>4. CASE Rollout /\ ~Caught
  <2>1. pc = "rollout" /\ pc' = "finish" /\ journal' = journal
    BY <1>4 DEF Rollout, Here, Goto, NoWrite
  <2>2. journal'.phase = "new_started"
    BY <2>1 DEF IInv, PhaseKnown
  <2>3. AtPlace'
    BY <1>1, <1>2, <2>1, <2>2 DEF AtPlace, PhaseKnown, ApplyKnows, RestoreKnows, SameObjects
  <2> QED
    BY <1>1, <2>1, <2>3, MoveKeeps
<1>5. CASE NewStarted /\ ~Caught
  <2>1. /\ pc = "record" /\ pc' = "rollout" /\ journal \in Journals
        /\ journal' = [journal EXCEPT !.phase = "new_started", !.newUid = dep[New].uid]
    BY <1>5, Typed DEF NewStarted, Here, Goto, IInv
  <2>2. /\ journal'.phase = "new_started" /\ journal'.newUid = dep[New].uid
        /\ journal'.snapshots = journal.snapshots
    BY <2>1 DEF Journals
  <2>3. journal.phase = "old_stopped"
    BY <2>1 DEF IInv, PhaseKnown
  <2>4. /\ OneIsQuiet' /\ AbsentIsNothing' /\ SnapshotHasIt'
        /\ Running(Old) <=> Running(Old)'
    BY <1>1, <2>2, <2>3, PhaseKeeps, Consumers
  <2>5. JournalTruthful'
    BY <1>1, <2>2, <2>3, <2>4 DEF IInv, JournalTruthful
  <2>6. DeployedWhenFinished' /\ RolledBackIsBefore'
    BY <2>2 DEF DeployedWhenFinished, RolledBackIsBefore, Unfinished
  <2>7. AtPlace'
    BY <1>1, <1>2, <2>1, <2>2 DEF AtPlace, PhaseKnown, ApplyKnows, RestoreKnows, SameObjects
  <2> QED
    BY <2>4, <2>5, <2>6, <2>7, Halves DEF AtRest
<1> QED
  BY <1>3, <1>4, <1>5

\* A switch is complete only with the new Consumer deployed.
LEMMA CompleteKeeps ==
  ASSUME IInv, TypeOK', Complete
  PROVE  IInv'
<1>1. /\ UNCHANGED <<setup, pods, jobs, attempt>> /\ Still /\ Counted
      /\ pc = "finish" /\ dep' = dep
  BY CountFacts DEF Complete, Here, NoWrite, Caught, Still, IInv
<1>2. journal.phase = "new_started" /\ dep[New].replicas > 0
  BY <1>1 DEF IInv, PhaseKnown, ApplyKnows
<1>3. CASE Caught
  BY <1>1, <1>2, <1>3, GoneKeeps DEF Caught, Goto, NoWrite
<1>4. CASE Write("complete") /\ End
  <2>1. /\ journal'.phase = "complete" /\ journal'.snapshots = journal.snapshots
        /\ journal'.newUid = journal.newUid /\ pc' = "idle"
    BY <1>1, <1>4, WriteFacts DEF IInv, End
  <2>2. /\ OneIsQuiet' /\ AbsentIsNothing' /\ SnapshotHasIt'
        /\ Running(Old) <=> Running(Old)'
    BY <1>1, <1>2, <2>1, PhaseKeeps, Consumers
  <2>3. JournalTruthful'
    BY <1>1, <1>2, <2>1, <2>2 DEF IInv, JournalTruthful, Counted
  <2>4. DeployedWhenFinished'
    <3>1. dep[New].replicas # 0
      BY <1>2
    <3> QED
      BY <1>1, <3>1, Consumers DEF DeployedWhenFinished, AllDown
  <2>5. RolledBackIsBefore'
    BY <2>1 DEF RolledBackIsBefore
  <2>6. AtPlace'
    BY <2>1, NothingKnown
  <2> QED
    BY <2>2, <2>3, <2>4, <2>5, <2>6, Halves DEF AtRest
<1> QED
  BY <1>3, <1>4 DEF Complete
-----------------------------------------------------------------------------
(* The steps of restore() *)

\* What NoJournal says: nothing was there.
LEMMA NoJournalFacts ==
  /\ NoJournal.phase = "" /\ \A n \in Names : NoJournal.snapshots[n] = Absent
  BY DEF NoJournal

\* A rollback begins with a journal.
LEMMA RollbackKeeps ==
  ASSUME IInv, TypeOK', Rollback
  PROVE  IInv'
<1>1. /\ UNCHANGED <<setup, pods, jobs, journal, attempt>> /\ Still /\ Counted
      /\ pc' = "restore" /\ journal.phase # ""
  BY CountFacts DEF Rollback, Here, NoWrite, IInv
<1> QED
  BY <1>1, GoneKeeps

\* The new Consumer is scaled down, once every object is the one recorded: the
\* attempt is not yet in the journal of a switch that had ended.
LEMMA StopNewKeeps ==
  ASSUME IInv, TypeOK', StopNew
  PROVE  IInv'
<1>1. /\ UNCHANGED <<setup, pods, jobs, journal>> /\ Counted /\ pc = "restore"
  BY CountFacts DEF StopNew, Here, Stop, IInv
<1>2. journal.phase # ""
  BY <1>1 DEF IInv, PhaseKnown
<1>3. CASE ~MayRestore /\ Stop /\ UNCHANGED attempt
  BY <1>1, <1>2, <1>3, GoneKeeps DEF Stop, End
<1>4. CASE MayRestore /\ Unnoted
  <2>1. ScaledDown(New) \/ Still
    BY <1>3, <1>4 DEF StopNew, Stop
  <2>2. /\ OneIsQuiet' /\ AbsentIsNothing' /\ JournalTruthful' /\ Recorded' = Recorded
        /\ \A n \in Names : /\ dep'[n].uid = dep[n].uid
                            /\ Exists(n) <=> Exists(n)'
    <3>1. CASE ScaledDown(New)
      BY <1>1, <3>1, Consumers, ScaleKeeps DEF Counted
    <3>2. CASE Still
      <4>1. /\ dep' = dep /\ Recorded' = Recorded
            /\ \A n \in Names : /\ Quiet(n) <=> Quiet(n)'
                                /\ Running(n) <=> Running(n)'
                                /\ Exists(n) <=> Exists(n)'
        BY <1>1, <3>2 DEF Still, Recorded, Quiet, Running, Exists
      <4>2. OneIsQuiet' /\ AbsentIsNothing'
        BY <1>1, <4>1, Consumers DEF IInv, OneIsQuiet, AbsentIsNothing
      <4>3. JournalTruthful'
        BY <1>1, <4>1, Consumers DEF IInv, JournalTruthful, Counted
      <4> QED
        BY <4>1, <4>2, <4>3
    <3> QED
      BY <2>1, <3>1, <3>2
  <2>3. Unfinished <=> Unfinished'
    BY <1>1 DEF Unfinished
  <2>4. attempt' = "noted" /\ ~Unfinished => attempt = "noted" /\ dep'[New].replicas # 0
    BY <1>4 DEF Unnoted
  <2>5. SnapshotHasIt'
    BY <1>1, <1>2, <1>4 DEF IInv, SnapshotHasIt, Unnoted
  <2>6. DeployedWhenFinished'
    BY <2>3, <2>4, Consumers DEF DeployedWhenFinished, AllDown
  <2>7. RolledBackIsBefore'
    <3> SUFFICES ASSUME journal.phase = "rolled_back", attempt' = "noted"
                 PROVE  \A n \in Names : SameRelease(dep'[n], journal.snapshots[n])
      BY <1>1 DEF RolledBackIsBefore, SameRelease
    <3>1. attempt = "noted" /\ dep'[New].replicas # 0
      BY <2>4 DEF Unfinished
    <3>2. ~ScaledDown(New)
      BY <3>1, ScaleFacts, Consumers DEF IInv, AbsentIsNothing
    <3> QED
      BY <2>1, <3>1, <3>2 DEF Still, IInv, RolledBackIsBefore
  <2>8. AtPlace'
    <3>1. CASE End
      BY <1>1, <1>2, <3>1, NothingKnown DEF End
    <3>2. CASE Goto("undrain") /\ (IF Exists(New) THEN ScaledDown(New) ELSE Still)
      <4>1. pc' = "undrain" /\ journal' = journal
        BY <1>1, <3>2 DEF Goto
      <4>2. dep'[New].replicas = 0
        <5>1. CASE Exists(New)
          BY <3>2, <5>1, ScaleFacts, Consumers DEF IInv, AbsentIsNothing
        <5>2. CASE ~Exists(New)
          BY <3>2, <5>2, AbsentFacts DEF Still, Exists
        <5> QED
          BY <5>1, <5>2
      <4>3. /\ \A n \in Recorded : Exists(n) /\ dep[n].uid = journal.snapshots[n].uid
            /\ New \in Recorded \/ ~Exists(New) \/ dep[New].uid = journal.newUid
        BY <1>4 DEF MayRestore, SameObject
      <4>4. SameObjects'
        BY <2>2, <4>1, <4>3, Consumers DEF SameObjects, Recorded
      <4> QED
        BY <1>2, <4>1, <4>2, <4>4 DEF AtPlace, PhaseKnown, ApplyKnows, RestoreKnows
    <3> QED
      BY <1>3, <1>4, <3>1, <3>2 DEF StopNew
  <2> QED
    BY <2>2, <2>5, <2>6, <2>7, <2>8, Halves DEF AtRest
<1> QED
  BY <1>3, <1>4 DEF StopNew

\* The new Consumer has been drained, and the journal says so: an attempt that
\* was not in it is now.
LEMMA NewStoppedKeeps ==
  ASSUME IInv, TypeOK', NewStopped
  PROVE  IInv'
<1>1. /\ UNCHANGED <<setup, pods, jobs>> /\ Still /\ Counted /\ dep' = dep
      /\ pc = "undrain"
  BY CountFacts DEF NewStopped, Here, Still, IInv
<1>2. journal.phase # "" /\ dep[New].replicas = 0
  BY <1>1 DEF IInv, PhaseKnown, RestoreKnows
<1>3. CASE Stop /\ NoWrite
  BY <1>1, <1>2, <1>3, GoneKeeps DEF Stop, End, NoWrite
<1>4. CASE ~Running(New) /\ Write("rollback_stopped_new") /\ Noted /\ Goto("idle_check")
  <2>1. /\ journal'.phase = "rollback_stopped_new"
        /\ journal'.snapshots = journal.snapshots /\ journal'.newUid = journal.newUid
        /\ pc' = "idle_check" /\ (attempt = "overwritten" => attempt' = "overwritten")
    BY <1>1, <1>4, WriteFacts DEF IInv, Goto, Noted
  <2>2. /\ OneIsQuiet' /\ AbsentIsNothing' /\ SnapshotHasIt' /\ Recorded' = Recorded
        /\ \A n \in Names : /\ Quiet(n) <=> Quiet(n)'
                            /\ Running(n) <=> Running(n)'
                            /\ Exists(n) <=> Exists(n)'
    BY <1>1, <1>2, <2>1, PhaseKeeps
  <2>3. Quiet(New)' /\ dep'[New].replicas = 0 /\ ~Running(New)'
    BY <1>1, <1>2, <1>4, <2>2, Consumers DEF Quiet
  <2>4. JournalTruthful'
    BY <2>1, <2>3 DEF JournalTruthful
  <2>5. DeployedWhenFinished' /\ RolledBackIsBefore'
    BY <2>1 DEF DeployedWhenFinished, RolledBackIsBefore, Unfinished
  <2>6. SameObjects'
    BY <1>1, <2>1, <2>2, Consumers DEF IInv, SameObjects, Recorded
  <2>7. AtPlace'
    BY <2>1, <2>3, <2>6 DEF AtPlace, PhaseKnown, ApplyKnows, RestoreKnows
  <2> QED
    BY <2>2, <2>4, <2>5, <2>7, Halves DEF AtRest
<1> QED
  BY <1>3, <1>4 DEF NewStopped

\* No job is active: what the snapshots record is about to be reapplied.
LEMMA IdleCheckKeeps ==
  ASSUME IInv, TypeOK', IdleCheck
  PROVE  IInv'
<1>1. /\ UNCHANGED <<setup, pods, jobs, journal, attempt>> /\ Still /\ Counted /\ dep' = dep
      /\ pc = "idle_check"
  BY CountFacts DEF IdleCheck, Here, NoWrite, Still, Stop, IInv
<1>2. journal.phase = "rollback_stopped_new" /\ Quiet(New)
  BY <1>1 DEF IInv, PhaseKnown, RestoreKnows
<1>3. CASE Stop
  BY <1>1, <1>2, <1>3, GoneKeeps DEF Stop, End
<1>4. CASE Goto("reapply") /\ todo' = Recorded
  <2>1. pc' = "reapply" /\ Recorded' = Recorded /\ Quiet(New)'
    BY <1>1, <1>2, <1>4 DEF Goto, Recorded, Quiet, Running
  <2>2. SameObjects'
    BY <1>1, <2>1 DEF IInv, SameObjects, Exists
  <2>3. RestoreKnows'
    BY <1>4, <2>1 DEF RestoreKnows
  <2>4. AtPlace'
    BY <1>1, <1>2, <2>1, <2>2, <2>3 DEF AtPlace, PhaseKnown, ApplyKnows
  <2> QED
    BY <1>1, <2>4, MoveKeeps
<1> QED
  BY <1>3, <1>4 DEF IdleCheck
\* A recorded Deployment gets back what its snapshot says.  Only one of the two
\* ever had a replica, and the other is quiet.
LEMMA ReappliedKeeps ==
  ASSUME IInv, TypeOK', NEW n \in Names, Reapply(n), Reapplied(n)
  PROVE  IInv'
<1>1. /\ UNCHANGED <<setup, pods, jobs, journal, attempt>> /\ Counted
      /\ pc = "reapply" /\ Turn(n) /\ n \in todo
  BY CountFacts DEF Reapply, Here, NoWrite, Turn, IInv
<1>2. /\ journal.phase = "rollback_stopped_new"
      /\ n \in Recorded /\ todo \subseteq Recorded /\ Recorded' = Recorded
      /\ Exists(n) /\ (n = New => Old \notin todo)
  BY <1>1 DEF IInv, PhaseKnown, RestoreKnows, SameObjects, Turn, Recorded
<1>3. /\ dep'[n].uid = dep[n].uid /\ dep'[n].uid # 0 /\ Exists(n)'
      /\ dep'[n].spec = journal.snapshots[n].spec
      /\ dep'[n].replicas = journal.snapshots[n].replicas
      /\ \A m \in Names \ {n} : dep'[m] = dep[m]
  <2> DEFINE was == journal.snapshots[n]
  <2>1. was.spec \in Specs /\ was.replicas \in 0..1 /\ was.owned \in BOOLEAN
    BY Typed DEF IInv
  <2>2. Applied(n, was.spec, was.replicas, was.owned)
    BY DEF Reapplied
  <2> QED
    BY <1>2, <2>1, <2>2, ApplyFacts DEF IInv, AbsentIsNothing
<1>4. \A m \in Names : /\ Exists(m) <=> Exists(m)'
                       /\ Running(m) <=> Running(m)'
                       /\ dep'[m].uid = dep[m].uid
                       /\ m # n => (Quiet(m) <=> Quiet(m)')
  BY <1>1, <1>2, <1>3 DEF Exists, Running, Quiet
<1>5. n = New \/ Old \in todo => Quiet(New)
  BY <1>1 DEF IInv, RestoreKnows
<1>6. OneIsQuiet'
  <2>1. CASE n = Old
    <3>1. Quiet(New)'
      BY <1>1, <1>4, <1>5, <2>1, Consumers
    <3>2. journal.snapshots[New].replicas > 0 =>
            Quiet(Old)' /\ journal.snapshots[Old].replicas = 0
      BY <1>3, <1>4, <2>1, Consumers DEF IInv, OneIsQuiet, Quiet
    <3> QED
      BY <1>1, <3>1, <3>2 DEF OneIsQuiet
  <2>2. CASE n = New
    <3>1. CASE journal.snapshots[New].replicas > 0
      BY <1>1, <1>4, <2>2, <3>1, Consumers DEF IInv, OneIsQuiet
    <3>2. CASE ~(journal.snapshots[New].replicas > 0)
      <4>1. dep'[New].replicas = 0
        <5>1. journal.snapshots[New].replicas \in 0..1
          BY Typed, Consumers DEF IInv
        <5> QED
          BY <1>3, <2>2, <3>2, <5>1
      <4>2. Quiet(New)'
        BY <1>4, <1>5, <2>2, <4>1, Consumers DEF Quiet
      <4> QED
        BY <1>1, <3>2, <4>2 DEF OneIsQuiet
    <3> QED
      BY <3>1, <3>2
  <2> QED
    BY <2>1, <2>2, Consumers
<1>7. AbsentIsNothing'
  BY <1>1, <1>2, <1>3, <1>4, Consumers DEF IInv, AbsentIsNothing
<1>8. SnapshotHasIt' /\ DeployedWhenFinished' /\ RolledBackIsBefore'
  BY <1>1, <1>2 DEF IInv, SnapshotHasIt, DeployedWhenFinished, RolledBackIsBefore, Unfinished
<1>9. JournalTruthful'
  <2>1. New \notin Recorded => n # New
    BY <1>2
  <2> QED
    BY <1>1, <1>2, <1>3, <1>4, <2>1, Consumers DEF IInv, JournalTruthful
<1>10. AtPlace'
  <2>1. CASE End
    BY <1>1, <1>2, <2>1, NothingKnown DEF End
  <2>2. CASE pc' \in {"reapply", "rerollout"} /\ UNCHANGED manifest
    <3>1. SameObjects'
      <4>1. /\ \A m \in Recorded : Exists(m) /\ dep[m].uid = journal.snapshots[m].uid
            /\ New \in Recorded \/ ~Exists(New) \/ dep[New].uid = journal.newUid
        BY <1>1 DEF IInv, SameObjects
      <4>2. Recorded \subseteq Names
        BY DEF Recorded
      <4> QED
        BY <1>1, <1>2, <1>4, <4>1, <4>2, Consumers DEF SameObjects
    <3>2. /\ New \notin Recorded \/ Old \in todo \/ New \in todo => Quiet(New)
          /\ \A m \in Recorded : m \notin todo => SameRelease(dep[m], journal.snapshots[m])
      BY <1>1 DEF IInv, RestoreKnows
    <3>3. SameRelease(dep'[n], journal.snapshots[n])
      BY <1>3 DEF SameRelease
    <3>4. \A m \in Recorded : m \notin todo \/ m = n =>
            SameRelease(dep'[m], journal.snapshots[m])
      BY <1>3, <3>2, <3>3 DEF Recorded
    <3>5. CASE pc' = "rerollout" /\ todo' = todo
      <4>1. \A m \in Names : Turn(m)' => m = n
        BY <1>1, <3>5, Consumers DEF Turn
      <4>2. New \notin Recorded \/ Old \in todo => Quiet(New)'
        BY <1>2, <1>4, <3>2, Consumers
      <4>3. RestoreKnows'
        BY <1>1, <1>2, <3>4, <3>5, <4>1, <4>2 DEF RestoreKnows, Recorded
      <4> QED
        BY <1>1, <1>2, <3>1, <3>5, <4>3 DEF AtPlace, PhaseKnown, ApplyKnows
    <3>6. CASE pc' = "reapply" /\ todo' = todo \ {n}
      <4>1. New \notin Recorded \/ Old \in todo' \/ New \in todo' => Quiet(New)'
        BY <1>1, <1>2, <1>4, <3>2, <3>6, Consumers
      <4>2. \A m \in Recorded : m \notin todo' => SameRelease(dep'[m], journal.snapshots[m])
        BY <3>4, <3>6
      <4>3. RestoreKnows'
        BY <1>1, <1>2, <3>6, <4>1, <4>2 DEF RestoreKnows
      <4> QED
        BY <1>1, <1>2, <3>1, <3>6, <4>3 DEF AtPlace, PhaseKnown, ApplyKnows
    <3> QED
      BY <2>2, <3>5, <3>6, <1>1 DEF Reapply, Goto, End
  <2> QED
    BY <2>1, <2>2 DEF Reapply, Goto
<1> QED
  BY <1>6, <1>7, <1>8, <1>9, <1>10, Halves DEF AtRest

\* A rollback scales a Deployment to what the journal has of it.
LEMMA ReapplyKeeps ==
  ASSUME IInv, TypeOK', NEW n \in Names, Reapply(n)
  PROVE  IInv'
<1>1. CASE Reapplied(n)
  BY <1>1, ReappliedKeeps
<1>2. CASE Still /\ Fault /\ End
  <2>1. UNCHANGED <<setup, pods, jobs, journal, attempt>> /\ Counted /\ pc' = "idle"
    BY <1>2, CountFacts DEF Reapply, Here, NoWrite, End, IInv
  <2> QED
    BY <1>2, <2>1, GoneKeeps
<1> QED
  BY <1>1, <1>2 DEF Reapply

\* Its Pod runs: the next Deployment's turn.
LEMMA RerolloutKeeps ==
  ASSUME IInv, TypeOK', NEW n \in Names, Rerollout(n)
  PROVE  IInv'
<1>1. /\ UNCHANGED <<setup, pods, jobs, journal, attempt>> /\ Still /\ Counted /\ dep' = dep
      /\ pc = "rerollout" /\ Turn(n)
  BY CountFacts DEF Rerollout, Here, NoWrite, Still, Stop, IInv
<1>2. /\ journal.phase = "rollback_stopped_new"
      /\ todo \subseteq Recorded /\ Recorded' = Recorded
      /\ New \notin Recorded \/ Old \in todo => Quiet(New)
      /\ \A m \in Recorded : m \notin todo \/ Turn(m) => SameRelease(dep[m], journal.snapshots[m])
  BY <1>1 DEF IInv, PhaseKnown, RestoreKnows, Recorded
<1>3. CASE Stop
  BY <1>1, <1>2, <1>3, GoneKeeps DEF Stop, End
<1>4. CASE Goto("reapply") /\ todo' = todo \ {n}
  <2>1. pc' = "reapply" /\ (Quiet(New)' <=> Quiet(New))
    BY <1>1, <1>4 DEF Goto, Quiet, Running
  <2>2. SameObjects'
    BY <1>1, <1>2, <2>1 DEF IInv, SameObjects, Exists
  <2>3. New \notin Recorded \/ Old \in todo' \/ New \in todo' => Quiet(New)
    BY <1>1, <1>2, <1>4, Consumers DEF Turn
  <2>4. \A m \in Recorded : m \notin todo' => SameRelease(dep[m], journal.snapshots[m])
    BY <1>1, <1>2, <1>4
  <2>5. RestoreKnows'
    BY <1>1, <1>2, <1>4, <2>1, <2>3, <2>4 DEF RestoreKnows
  <2>6. AtPlace'
    BY <1>1, <1>2, <2>1, <2>2, <2>5 DEF AtPlace, PhaseKnown, ApplyKnows
  <2> QED
    BY <1>1, <2>6, MoveKeeps
<1> QED
  BY <1>3, <1>4 DEF Rerollout

\* What was not there before the switch is deleted, and is quiet by then.
LEMMA RemoveNewKeeps ==
  ASSUME IInv, TypeOK', RemoveNew
  PROVE  IInv'
<1>1. /\ UNCHANGED <<setup, pods, jobs, journal, attempt>> /\ Counted
      /\ pc = "reapply" /\ todo = {}
  BY CountFacts DEF RemoveNew, Here, NoWrite, IInv
<1>2. /\ journal.phase = "rollback_stopped_new" /\ Recorded' = Recorded
      /\ New \notin Recorded => Quiet(New)
      /\ \A n \in Recorded : SameRelease(dep[n], journal.snapshots[n])
  BY <1>1 DEF IInv, PhaseKnown, RestoreKnows, Recorded
<1>3. Old \notin Recorded => SameRelease(dep[Old], journal.snapshots[Old])
  <2>1. Old \notin Recorded => dep[Old] = Absent /\ journal.snapshots[Old] = Absent
    BY <1>2, Consumers DEF IInv, AbsentIsNothing, Exists, Recorded
  <2> QED
    BY <2>1 DEF SameRelease
<1>4. ASSUME End, Still
      PROVE  IInv'
  BY <1>1, <1>4, GoneKeeps DEF End
<1>5. CASE New \in Recorded /\ Goto("rolled_back") /\ Still
  <2>1. pc' = "rolled_back" /\ dep' = dep
    BY <1>5 DEF Goto, Still
  <2>2. RestoreKnows'
    BY <1>1, <1>2, <1>3, <1>5, <2>1, Consumers DEF RestoreKnows, SameRelease
  <2>3. AtPlace'
    BY <1>1, <1>2, <2>1, <2>2 DEF AtPlace, PhaseKnown, ApplyKnows, SameObjects
  <2> QED
    BY <1>1, <1>5, <2>3, MoveKeeps
<1>6. CASE New \notin Recorded /\ Deleted
  <2>1. /\ dep'[Old] = dep[Old] /\ dep'[New] = Absent /\ dep'[New].replicas = 0
        /\ ~Exists(New)' /\ (Exists(Old) <=> Exists(Old)')
    BY <1>6, DeleteFacts, AbsentFacts DEF IInv, Exists
  <2>2. /\ ~Running(New)' /\ Quiet(New)' /\ (Running(Old) <=> Running(Old)')
        /\ (Quiet(Old) <=> Quiet(Old)')
    BY <1>1, <1>2, <1>6, <2>1 DEF Quiet, Running
  <2>3. OneIsQuiet'
    BY <1>1, <2>2 DEF IInv, OneIsQuiet
  <2>4. AbsentIsNothing'
    BY <1>1, <1>2, <2>1, <2>2, Consumers DEF IInv, AbsentIsNothing
  <2>5. SnapshotHasIt' /\ DeployedWhenFinished' /\ RolledBackIsBefore'
    BY <1>1, <1>2 DEF IInv, SnapshotHasIt, DeployedWhenFinished, RolledBackIsBefore, Unfinished
  <2>6. JournalTruthful'
    BY <1>1, <1>2, <2>1, <2>2 DEF JournalTruthful
  <2>7. AtPlace'
    <3>1. CASE End
      BY <1>1, <1>2, <3>1, NothingKnown DEF End
    <3>2. CASE Goto("rolled_back")
      <4>1. pc' = "rolled_back"
        BY <3>2 DEF Goto
      <4>2. SameRelease(dep'[New], journal.snapshots[New])
        <5>1. journal.snapshots[New] = Absent
          BY <1>6, Consumers DEF Recorded
        <5> QED
          BY <2>1, <5>1 DEF SameRelease
      <4>3. SameRelease(dep'[Old], journal.snapshots[Old])
        BY <1>2, <1>3, <2>1
      <4>4. RestoreKnows'
        BY <1>1, <4>1, <4>2, <4>3, Consumers DEF RestoreKnows
      <4> QED
        BY <1>1, <1>2, <4>1, <4>4 DEF AtPlace, PhaseKnown, ApplyKnows, SameObjects
    <3> QED
      BY <1>6, <3>1, <3>2 DEF RemoveNew
  <2> QED
    BY <2>3, <2>4, <2>5, <2>6, <2>7, Halves DEF AtRest
<1> QED
  BY <1>4, <1>5, <1>6 DEF RemoveNew

\* Everything is as the snapshots say, and one of them had a Consumer.
LEMMA RolledBackKeeps ==
  ASSUME IInv, TypeOK', RolledBack
  PROVE  IInv'
<1>1. /\ UNCHANGED <<setup, pods, jobs, attempt>> /\ Still /\ dep' = dep
      /\ pc = "rolled_back" /\ pc' = "idle"
  BY DEF RolledBack, Here, Still, End
<1>2. /\ journal.phase = "rollback_stopped_new"
      /\ \A n \in Names : SameRelease(dep[n], journal.snapshots[n])
  BY <1>1 DEF IInv, PhaseKnown, RestoreKnows
<1>3. journal'.phase = "rolled_back" /\ journal'.snapshots = journal.snapshots
  BY <1>1, WriteFacts DEF RolledBack, IInv
<1>4. OneIsQuiet' /\ AbsentIsNothing' /\ SnapshotHasIt'
  BY <1>1, <1>2, <1>3, PhaseKeeps
<1>5. JournalTruthful'
  BY <1>3 DEF JournalTruthful
<1>6. RolledBackIsBefore'
  BY <1>1, <1>2, <1>3 DEF RolledBackIsBefore, SameRelease
<1>7. DeployedWhenFinished'
  <2> SUFFICES ASSUME setup.served, attempt = "noted"
               PROVE  ~AllDown'
    BY <1>1 DEF DeployedWhenFinished
  <2>1. PICK n \in Names : journal.snapshots[n].replicas > 0
    BY <1>2 DEF IInv, SnapshotHasIt
  <2>2. dep'[n].replicas # 0
    BY <1>1, <1>2, <2>1 DEF SameRelease
  <2> QED
    BY <2>2 DEF AllDown
<1>8. AtPlace'
  BY <1>1, <1>3, NothingKnown
<1> QED
  BY <1>4, <1>5, <1>6, <1>7, <1>8, Halves DEF AtRest

\* A script that is killed; between the two renames of a new snapshot it takes
\* the journal of a switch that had ended with it.
LEMMA KillKeeps ==
  ASSUME IInv, TypeOK', Kill
  PROVE  IInv'
<1>1. /\ UNCHANGED <<setup, dep, pods, jobs, uids>> /\ Counted /\ Still /\ pc' = "idle"
  BY CountFacts DEF Kill, cluster, End, Still, IInv
<1>2. CASE NoWrite
  BY <1>1, <1>2, GoneKeeps DEF NoWrite
<1>3. CASE pc = "snapshot" /\ journal' = NoJournal /\ Overwritten
  <2>1. /\ journal'.phase = "" /\ \A n \in Names : journal'.snapshots[n].replicas = 0
    BY <1>3, NoJournalFacts, AbsentFacts
  <2>2. ~Unfinished /\ attempt' # "unnoted"
        /\ (attempt' # "overwritten" => attempt = "noted")
    BY <1>3, Typed DEF IInv, PhaseKnown, Overwritten
  <2>3. \A n \in Names : /\ Quiet(n) <=> Quiet(n)'
                         /\ Running(n) <=> Running(n)'
                         /\ Exists(n) <=> Exists(n)'
    BY <1>1 DEF Quiet, Running, Exists
  <2>4. OneIsQuiet'
    <3>1. ~(journal'.snapshots[New].replicas > 0)
      <4>1. journal'.snapshots[New].replicas = 0
        BY <2>1, Consumers
      <4> QED
        BY <4>1
    <3> QED
      BY <2>3, <3>1, Consumers DEF IInv, OneIsQuiet
  <2>5. AbsentIsNothing'
    BY <1>1, <2>1, <2>3 DEF IInv, AbsentIsNothing
  <2>6. SnapshotHasIt' /\ DeployedWhenFinished'
    BY <1>1, <2>1, <2>2 DEF IInv, SnapshotHasIt, DeployedWhenFinished, AllDown
  <2>7. JournalTruthful' /\ RolledBackIsBefore'
    BY <2>1 DEF JournalTruthful, RolledBackIsBefore
  <2>8. AtPlace'
    BY <1>1, <2>2, NothingKnown
  <2> QED
    BY <2>4, <2>5, <2>6, <2>7, <2>8, Halves DEF AtRest
<1> QED
  BY <1>2, <1>3 DEF Kill
-----------------------------------------------------------------------------
(* The theorems *)

\* The program starts with no journal, no command, and at most one Consumer.
LEMMA InitIInv == Init => IInv
<1> SUFFICES ASSUME Init
             PROVE  IInv
  OBVIOUS
<1>1. PICK n \in Names, owned \in BOOLEAN :
        LET first == [uid |-> 1, spec |-> Before, replicas |-> 1,
                      owned |-> owned /\ n = New]
            here(m) == setup.served /\ m = n
        IN /\ dep = [m \in Names |-> IF here(m) THEN first ELSE Absent]
           /\ pods = [m \in Names |-> IF here(m) THEN [up |-> Before, ending |-> FALSE]
                                     ELSE NoPod]
  <2>1. (IF setup.migrate THEN Names ELSE {New}) \subseteq Names
    BY Consumers
  <2> QED
    BY <2>1 DEF Init
<1> DEFINE first == [uid |-> 1, spec |-> Before, replicas |-> 1, owned |-> owned /\ n = New]
           pod   == [up |-> Before, ending |-> FALSE]
<1>2. /\ setup \in [migrate : BOOLEAN, served : BOOLEAN]
      /\ uids = 1 /\ jobs = 0 /\ journal = NoJournal
      /\ pc = "idle" /\ manifest = "" /\ todo = {} /\ attempt = "noted"
      /\ bounds = [commands |-> 0, faults |-> 0, kills |-> 0, replacements |-> 0]
  BY DEF Init
<1>3. /\ dep = [m \in Names |-> IF setup.served /\ m = n THEN first ELSE Absent]
      /\ pods = [m \in Names |-> IF setup.served /\ m = n THEN pod ELSE NoPod]
  BY <1>1
<1>4. first \in Deployments /\ Absent \in Deployments /\ first.uid = 1 /\ first.replicas = 1
  <2>1. 1 \in 0..1 /\ 1 \in Nat /\ (owned /\ n = New) \in BOOLEAN
    OBVIOUS
  <2>2. Absent \in Deployments
    BY <1>2, <2>1, AbsentFacts DEF Deployments
  <2>3. first \in Deployments
    BY <1>2, <2>1 DEF Deployments, DeploymentsOf, Specs
  <2> QED
    BY <2>2, <2>3
<1>5. pod \in [up : Specs, ending : BOOLEAN] /\ NoPod \in [up : Specs, ending : BOOLEAN]
  BY DEF Specs, NoPod
<1> HIDE DEF first, pod
<1>6. TypeOK
  <2>1. dep \in [Names -> Deployments]
    BY <1>3, <1>4
  <2>2. pods \in [Names -> [up : Specs, ending : BOOLEAN]]
    BY <1>3, <1>5
  <2>3. jobs \in 0..MaxJobs /\ uids \in Nat /\ 0 \in 0..uids
    <3>1. MaxJobs \in Nat
      BY DeployAssumption
    <3>2. uids = 1 /\ jobs = 0
      BY <1>2
    <3> QED
      BY <3>1, <3>2
  <2>4. ClusterOK
    BY <1>2, <2>1, <2>2, <2>3 DEF ClusterOK
  <2>5. journal \in Journals
    <3>1. [m \in Names |-> Absent] \in [Names -> Deployments]
      BY <1>4
    <3> QED
      BY <1>2, <2>3, <3>1 DEF NoJournal, Journals
  <2>6. ScriptOK
    BY <1>2, <2>5 DEF ScriptOK
  <2>7. BoundsOK
    BY <1>2 DEF BoundsOK
  <2> QED
    BY <2>4, <2>6, <2>7 DEF TypeOK
<1>7. /\ journal.phase = "" /\ \A m \in Names : journal.snapshots[m] = Absent
      /\ ~(journal.snapshots[New].replicas > 0)
  <2>1. journal.phase = "" /\ \A m \in Names : journal.snapshots[m] = Absent
    BY <1>2, NoJournalFacts
  <2>2. journal.snapshots[New].replicas = 0
    BY <2>1, AbsentFacts, Consumers
  <2>3. ~(journal.snapshots[New].replicas > 0)
    BY <2>2
  <2> QED
    BY <2>1, <2>3
<1>8. \A m \in Names : m # n \/ ~setup.served => dep[m] = Absent /\ ~Running(m) /\ Quiet(m)
  BY <1>3, AbsentFacts DEF Running, Quiet
<1>9. setup.served => dep[n] = first /\ dep[n].uid = 1 /\ dep[n].replicas > 0
  BY <1>3, <1>4
<1>10. OneIsQuiet
  BY <1>7, <1>8, Consumers DEF OneIsQuiet
<1>11. AbsentIsNothing
  <2>1. setup.served => dep[n].uid # 0
    BY <1>9
  <2>2. setup.served => Exists(n)
    BY <2>1, AbsentFacts DEF Exists
  <2>3. CASE setup.served
    BY <1>7, <1>8, <2>1, <2>2, <2>3 DEF AbsentIsNothing
  <2>4. CASE ~setup.served
    BY <1>7, <1>8, <2>4 DEF AbsentIsNothing
  <2> QED
    BY <2>3, <2>4
<1>12. SnapshotHasIt /\ DeployedWhenFinished
  <2>1. setup.served => ~AllDown
    BY <1>9 DEF AllDown
  <2> QED
    BY <1>7, <2>1 DEF SnapshotHasIt, DeployedWhenFinished
<1>13. JournalTruthful /\ RolledBackIsBefore
  BY <1>7 DEF JournalTruthful, RolledBackIsBefore
<1>14. PhaseKnown /\ ApplyKnows /\ RestoreKnows /\ SameObjects
  BY <1>2, <1>7 DEF PhaseKnown, ApplyKnows, RestoreKnows, SameObjects
<1> QED
  BY <1>6, <1>10, <1>11, <1>12, <1>13, <1>14 DEF IInv

\* Every step keeps the invariant.
LEMMA NextIInv == IInv /\ [Next]_vars => IInv'
<1> SUFFICES ASSUME IInv, [Next]_vars
             PROVE  IInv'
  OBVIOUS
<1>1. TypeOK /\ AbsentIsNothing
  BY DEF IInv
<1>2. CASE Deploying
  <2>1. TypeOK'
    BY <1>1, <1>2, DeployingTyped
  <2> QED
    BY <1>2, <2>1, BeginKeeps, SnapshotKeeps, StoppingKeeps, OldStoppedKeeps, RecheckKeeps,
       StartNewKeeps, RecordKeeps, CompleteKeeps DEF Deploying
<1>3. CASE Restoring
  <2>1. TypeOK'
    BY <1>1, <1>3, RestoringTyped
  <2> QED
    BY <1>3, <2>1, RollbackKeeps, StopNewKeeps, NewStoppedKeeps, IdleCheckKeeps, ReapplyKeeps,
       RerolloutKeeps, RemoveNewKeeps, RolledBackKeeps DEF Restoring
<1>4. CASE Kill
  BY <1>1, <1>4, OthersTyped, KillKeeps
<1>5. ASSUME JobStarts \/ JobEnds
      PROVE  IInv'
  <2>1. TypeOK'
    BY <1>1, <1>5, OthersTyped
  <2>2. /\ UNCHANGED <<setup, dep, pods, uids, bounds, journal, pc, manifest, todo, attempt>>
        /\ jobs > 0 \/ \E m \in Names : Running(m)
    BY <1>5 DEF JobStarts, JobEnds, World, script
  <2>3. \A m \in Names : Running(m)' => Running(m)
    BY <2>2 DEF Running
  <2> QED
    BY <2>1, <2>2, <2>3, WorldKeeps
<1>6. ASSUME NEW n \in Names, PodStarts(n) \/ PodIsStopped(n) \/ PodEnds(n)
      PROVE  IInv'
  <2>1. TypeOK'
    BY <1>1, <1>6, OthersTyped
  <2>2. /\ UNCHANGED <<setup, dep, jobs, uids, bounds, journal, pc, manifest, todo, attempt>>
        /\ \A m \in Names : Running(m)' => Running(m) \/ dep[m].replicas > 0
    BY <1>1, <1>6, PodsKeepQuiet
  <2>3. jobs' = 0 \/ jobs > 0
    BY <1>1, <2>2, Numbers
  <2> QED
    BY <2>1, <2>2, <2>3, WorldKeeps
<1>7. ASSUME NEW n \in Names, Replace(n)
      PROVE  IInv'
  BY <1>1, <1>7, OthersTyped, ReplaceKeeps
<1>8. CASE UNCHANGED vars
  <2>1. UNCHANGED <<setup, dep, pods, jobs, uids, journal, pc, manifest, todo, attempt, bounds>>
    BY <1>8 DEF vars, cluster, script
  <2>2. TypeOK'
    BY <1>1, <2>1 DEF TypeOK, ClusterOK, ScriptOK, BoundsOK, Deployments, Journals
  <2>3. /\ \A m \in Names : Running(m)' => Running(m)
        /\ jobs' = 0 \/ jobs > 0
    BY <1>1, <2>1, Numbers DEF Running
  <2> QED
    BY <2>1, <2>2, <2>3, WorldKeeps
<1> QED
  BY <1>2, <1>3, <1>4, <1>5, <1>6, <1>7, <1>8 DEF Next

\* The inductive invariant holds in every reachable state.
THEOREM Inductive == Spec => []IInv
<1> QED
  BY InitIInv, NextIInv, PTL DEF Spec

\* Every variable has its type, the uids in the journal included.
THEOREM TypeCorrect == Spec => []TypeOK
<1>1. IInv => TypeOK
  BY DEF IInv
<1> QED
  BY <1>1, Inductive, PTL

\* However calls fail and commands are killed, the Pods of the old and of the
\* new Consumer are never there together.
THEOREM NeverBoth == Spec => []OneConsumer
<1>1. IInv => OneConsumer
  BY DEF IInv, OneIsQuiet, Quiet, OneConsumer
<1> QED
  BY <1>1, Inductive, PTL

\* The journal an interrupted command leaves behind is true of the cluster,
\* still has a Consumer that ran at the start, and a finished rollback leads
\* back to it: for any faults, kills, jobs and recreated Deployments.
THEOREM JournalIsGood == Spec => []JournalLeadsBack
<1>1. IInv => JournalLeadsBack
  <2> SUFFICES ASSUME IInv
               PROVE  ConsumerNotForgotten
    BY DEF IInv, JournalLeadsBack
  <2> SUFFICES ASSUME setup.served, attempt # "overwritten"
               PROVE  Somewhere
    BY DEF ConsumerNotForgotten
  <2>1. CASE journal.phase = ""
    <3>1. ~AllDown /\ \A n \in Names : dep[n].replicas \in 0..1
      BY <2>1, Typed DEF IInv, SnapshotHasIt
    <3> QED
      BY <3>1 DEF AllDown, Somewhere
  <2>2. CASE journal.phase # ""
    BY <2>2 DEF IInv, SnapshotHasIt, Somewhere
  <2> QED
    BY <2>1, <2>2
<1> QED
  BY <1>1, Inductive, PTL

\* A new release is started only with no Ray job active and no Pod left.
THEOREM OnlyStartedWhenIdle == Spec => StartsWhenIdle
<1>1. IInv /\ [Next]_vars =>
        [pc = "apply" /\ dep'[New].replicas > dep[New].replicas =>
           jobs = 0 /\ \A n \in Names : ~Running(n)]_vars
  BY DEF IInv, ApplyKnows, Quiet
<1> QED
  BY <1>1, Inductive, PTL DEF Spec, StartsWhenIdle
\* Which steps change a Deployment while restore() is at work: scaling the new
\* one down, a reapplied snapshot, and the deletion of the new one.
LEMMA RestoreTouches ==
  ASSUME IInv, [Next]_vars, pc \in {"restore", "reapply"}, dep' # dep
  PROVE  \/ pc = "restore" /\ MayRestore /\ ScaledDown(New)
         \/ pc = "reapply" /\ \E n \in todo : Reapplied(n)
         \/ pc = "reapply" /\ New \notin Recorded /\ Deleted
<1>1. CASE StopNew
  BY <1>1 DEF StopNew, Here, Stop, Still
<1>2. ASSUME NEW n \in Names, Reapply(n)
      PROVE  pc = "reapply" /\ \E m \in todo : Reapplied(m)
  BY <1>2 DEF Reapply, Here, Turn, Still
<1>3. CASE RemoveNew
  BY <1>3 DEF RemoveNew, Here, Still
<1>4. ~Deploying
  BY DEF Deploying, Apply, Check, Snapshot, OldStopped, Recheck, StartNew, NewStarted, Rollout,
         Complete, StopOne, Drain, Here
<1>5. CASE Restoring
  <2>1. ~Rollback /\ ~NewStopped /\ ~IdleCheck /\ ~RolledBack
        /\ \A n \in Names : ~Rerollout(n)
    BY DEF Rollback, NewStopped, IdleCheck, RolledBack, Rerollout, Here
  <2> QED
    BY <1>1, <1>2, <1>3, <1>5, <2>1 DEF Restoring
<1>6. ~Kill /\ ~JobStarts /\ ~JobEnds /\ ~UNCHANGED vars
      /\ \A n \in Names : ~PodStarts(n) /\ ~PodIsStopped(n) /\ ~PodEnds(n) /\ ~Replace(n)
  BY DEF Kill, JobStarts, JobEnds, PodStarts, PodIsStopped, PodEnds, Replace, cluster, vars
<1> QED
  BY <1>4, <1>5, <1>6 DEF Next

\* A rollback changes no Deployment but those the journal has recorded: what
\* somebody recreated under the same name is left alone.
THEOREM RecreatedIsLeftAlone == Spec => ReplacedIsLeftAlone
<1>1. ASSUME IInv, [Next]_vars, NEW n \in Names, pc \in {"restore", "reapply"},
             Exists(n), dep'[n] # dep[n]
      PROVE  dep[n].uid \in {journal.newUid, journal.snapshots[n].uid}
  <2>1. dep' # dep
    BY <1>1
  <2>2. CASE pc = "restore" /\ MayRestore /\ ScaledDown(New)
    <3>1. n = New
      BY <1>1, <2>2, ScaleFacts, Consumers DEF IInv, AbsentIsNothing
    <3> QED
      BY <1>1, <2>2, <3>1 DEF MayRestore, SameObject, Recorded
  <2>3. CASE pc = "reapply" /\ \E m \in todo : Reapplied(m)
    <3>1. todo \subseteq Recorded /\ Recorded \subseteq Names
          /\ \A m \in Recorded : dep[m].uid = journal.snapshots[m].uid
      <4>1. todo \subseteq Recorded
        BY <1>1, <2>3 DEF IInv, RestoreKnows
      <4>2. \A m \in Recorded : dep[m].uid = journal.snapshots[m].uid
        BY <1>1, <2>3 DEF IInv, SameObjects
      <4> QED
        BY <4>1, <4>2 DEF Recorded
    <3>2. PICK m \in todo : Reapplied(m)
      BY <2>3
    <3>3. n = m
      <4> DEFINE was == journal.snapshots[m]
      <4>1. m \in Names /\ was.spec \in Specs /\ was.replicas \in 0..1 /\ was.owned \in BOOLEAN
        BY <1>1, <3>1, Typed DEF IInv
      <4>2. Applied(m, was.spec, was.replicas, was.owned)
        BY <3>2 DEF Reapplied
      <4>3. TypeOK /\ \A k \in Names : dep[k].uid = 0 => dep[k] = Absent
        BY <1>1 DEF IInv, AbsentIsNothing
      <4>4. \A k \in Names \ {m} : dep'[k] = dep[k]
        BY <4>1, <4>2, <4>3, ApplyFacts
      <4> QED
        BY <1>1, <4>4
    <3> QED
      BY <3>1, <3>3
  <2>4. CASE pc = "reapply" /\ New \notin Recorded /\ Deleted
    <3>1. n = New
      BY <1>1, <2>4, DeleteFacts, Consumers DEF IInv
    <3> QED
      BY <1>1, <2>4, <3>1 DEF IInv, SameObjects
  <2> QED
    BY <1>1, <2>1, <2>2, <2>3, <2>4, RestoreTouches
<1>2. IInv /\ [Next]_vars =>
        [\A n \in Names :
           pc \in {"restore", "reapply"} /\ Exists(n) /\ dep'[n] # dep[n] =>
             dep[n].uid \in {journal.newUid, journal.snapshots[n].uid}]_vars
  BY <1>1
<1> QED
  BY <1>2, Inductive, PTL DEF Spec, ReplacedIsLeftAlone

=============================================================================
