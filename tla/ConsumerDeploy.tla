--------------------------- MODULE ConsumerDeploy ---------------------------
(***************************************************************************)
(* The Consumer-only deployer: `deploy.py apply` and `deploy.py rollback`. *)
(* It stops the Consumers it replaces, starts the new one, and goes back   *)
(* when that fails, with a journal (state.json) for the case that it       *)
(* cannot.  Kubernetes runs the Pods behind its back, the Consumers admit  *)
(* Ray jobs, kubectl calls fail before or after their effect, the script   *)
(* is killed at any point, and somebody may recreate a Deployment between  *)
(* two commands.  A lock on the output directory keeps commands apart.     *)
(***************************************************************************)
EXTENDS Naturals, FiniteSets

CONSTANTS
  Manifests,      \* what `apply` may be asked to deploy
  Before,         \* what the Deployments of the start ran
  MaxCommands,    \* bound: commands given
  MaxJobs,        \* bound: Ray jobs active at a time
  MaxFaults,      \* bound: kubectl calls that fail
  MaxKills,       \* bound: the script is killed
  MaxReplacements \* bound: Deployments recreated by somebody else

ASSUME DeployAssumption ==
  /\ Manifests # {} /\ Before \notin Manifests
  /\ {MaxCommands, MaxJobs, MaxFaults, MaxKills, MaxReplacements} \subseteq Nat

VARIABLES
  setup,    \* [migrate, served]: settings.old_deployment is given; a Consumer
            \* ran at the start
  dep,      \* the Deployments: [uid, spec, replicas, owned], or Absent
  pods,     \* the Consumers: [up, ending], up the spec of the running Pod
  jobs,     \* active Ray jobs of the Consumers
  journal,  \* state.json, or NoJournal
  pc,       \* where the script is; "idle" between commands
  manifest, \* what this command deploys
  todo,     \* the Deployments this step has still to deal with
  uids,     \* uids given so far
  attempt,  \* history: "unnoted" once a rollback has scaled the new Consumer down
            \* and the journal does not know, "overwritten" once a snapshot has
            \* been taken of that
  bounds    \* [commands, faults, kills, replacements] so far

cluster == <<dep, pods, jobs, uids>>
script  == <<journal, pc, manifest, todo, attempt>>
vars    == <<setup, cluster, script, bounds>>

Old == "old"         \* settings.old_deployment
New == "new"         \* settings.name
Names == {Old, New}

Absent    == [uid |-> 0, spec |-> "", replicas |-> 0, owned |-> FALSE]
NoPod     == [up |-> "", ending |-> FALSE]
NoJournal == [phase |-> "", snapshots |-> [n \in Names |-> Absent],
              newUid |-> 0, fingerprint |-> ""]

Exists(n)    == dep[n] # Absent
Running(n)   == pods[n] # NoPod
Unfinished   == journal.phase \notin {"", "complete", "rolled_back"}
Recorded     == {n \in Names : journal.snapshots[n] # Absent}

Init ==
  /\ setup \in [migrate : BOOLEAN, served : BOOLEAN]
  /\ \E n \in (IF setup.migrate THEN Names ELSE {New}), owned \in BOOLEAN :
       LET first == [uid |-> 1, spec |-> Before, replicas |-> 1,
                     owned |-> owned /\ n = New]
           here(m) == setup.served /\ m = n
       IN /\ dep = [m \in Names |-> IF here(m) THEN first ELSE Absent]
          /\ pods = [m \in Names |-> IF here(m) THEN [up |-> Before, ending |-> FALSE]
                                    ELSE NoPod]
  /\ uids = 1
  /\ jobs = 0
  /\ journal = NoJournal
  /\ pc = "idle" /\ manifest = "" /\ todo = {} /\ attempt = "noted"
  /\ bounds = [commands |-> 0, faults |-> 0, kills |-> 0, replacements |-> 0]

Count(kind, limit) ==
  bounds[kind] < limit /\ bounds' = [bounds EXCEPT ![kind] = @ + 1]

-----------------------------------------------------------------------------
(* Kubernetes, Ray and other people *)

World == UNCHANGED <<setup, script>>

\* One replica; a Pod of another template has to be gone first (Recreate).
PodStarts(n) ==
  /\ dep[n].replicas > 0 /\ pods[n].up = ""
  /\ pods' = [pods EXCEPT ![n].up = dep[n].spec]
  /\ UNCHANGED <<dep, jobs, uids, bounds>> /\ World

PodIsStopped(n) ==
  /\ pods[n].up # "" /\ ~pods[n].ending
  /\ dep[n].replicas = 0 \/ dep[n].spec # pods[n].up
  /\ pods' = [pods EXCEPT ![n] = [up |-> "", ending |-> TRUE]]
  /\ UNCHANGED <<dep, jobs, uids, bounds>> /\ World

PodEnds(n) ==
  /\ pods[n].ending
  /\ pods' = [pods EXCEPT ![n].ending = FALSE]
  /\ UNCHANGED <<dep, jobs, uids, bounds>> /\ World

\* A Consumer, or one that is shutting down, submits a task it has read.
JobStarts ==
  /\ jobs < MaxJobs /\ \E n \in Names : Running(n)
  /\ jobs' = jobs + 1
  /\ UNCHANGED <<dep, pods, uids, bounds>> /\ World

JobEnds ==
  /\ jobs > 0 /\ jobs' = jobs - 1
  /\ UNCHANGED <<dep, pods, uids, bounds>> /\ World

\* A Deployment is deleted and created again under its name, between two
\* commands or while others are being stopped.
Replace(n) ==
  /\ pc \in {"idle", "stop"} /\ Exists(n) /\ Count("replacements", MaxReplacements)
  /\ uids' = uids + 1
  /\ dep' = [dep EXCEPT ![n].uid = uids + 1]
  /\ UNCHANGED <<pods, jobs>> /\ World

-----------------------------------------------------------------------------
(* Steps of the script *)

Goto(place) == pc' = place /\ UNCHANGED manifest

Here(place) == pc = place /\ UNCHANGED <<setup, pods, jobs>>

Still == UNCHANGED <<dep, uids>>

NoFault == UNCHANGED bounds

\* A kubectl call raises, before its effect or, its answer lost, after it.
Fault == Count("faults", MaxFaults)

ScaledDown(n) == dep' = [dep EXCEPT ![n].replicas = 0] /\ UNCHANGED uids

\* Server-side identity: an object that exists keeps its uid.
Applied(n, spec, replicas, owned) ==
  LET uid == IF Exists(n) THEN dep[n].uid ELSE uids + 1
  IN /\ dep' = [dep EXCEPT ![n] = [uid |-> uid, spec |-> spec,
                                   replicas |-> replicas, owned |-> owned]]
     /\ uids' = IF Exists(n) THEN uids ELSE uids + 1

Write(phase) == journal' = [journal EXCEPT !.phase = phase]

NoWrite == UNCHANGED <<journal, attempt>>

\* assert_identity(name, uid, managed=name is settings.name)
SameObject(n, uid) == Exists(n) /\ dep[n].uid = uid /\ (n = New => dep[n].owned)

\* check(): the doctor finds everything in order, and no active job.
DoctorPasses == jobs = 0

\* Mutant: a failed command leaves its list of Deployments behind.
End_KeepsList == pc' = "idle" /\ manifest' = "" /\ todo' = todo

\* A command that ends, and one that fails with nothing changed.
End == pc' = "idle" /\ manifest' = "" /\ todo' = {}

Stop == End /\ Still /\ NoFault

-----------------------------------------------------------------------------
(* apply *)

\* Mutant: an unfinished switch is no obstacle.
MayDeploy_Anyway(m) ==
  /\ ~(journal.phase = "complete" /\ journal.fingerprint = m)
  /\ Exists(New) => dep[New].owned

\* The refusals and the unchanged release leave everything as it is.
MayDeploy(m) ==
  /\ ~Unfinished
  /\ ~(journal.phase = "complete" /\ journal.fingerprint = m)
  /\ Exists(New) => dep[New].owned

Apply(m) ==
  /\ Here("idle") /\ Count("commands", MaxCommands)
  /\ MayDeploy(m)
  /\ pc' = "check" /\ manifest' = m /\ todo' = {}
  /\ Still /\ NoWrite

Check ==
  /\ Here("check") /\ NoWrite
  /\ \/ DoctorPasses /\ Goto("snapshot") /\ UNCHANGED todo /\ Still /\ NoFault
     \/ Stop

Overwritten ==
  attempt' = IF attempt = "unnoted" THEN "overwritten" ELSE attempt

Snapshot ==
  /\ Here("snapshot")
  /\ \/ /\ setup.migrate => Exists(Old)
        /\ journal' = [phase |-> "prepared", snapshots |-> dep, newUid |-> 0,
                       fingerprint |-> manifest]
        /\ Goto("stop") /\ todo' = {n \in Names : Exists(n)}
        /\ Overwritten
        /\ Still /\ NoFault
     \/ Stop /\ NoWrite

\* The snapshots are stopped in their order: the old Deployment first.
Turn(n) == n \in todo /\ (n = New => Old \notin todo)

Caught == Goto("restore") /\ todo' = {} /\ NoWrite

StopOne(n) ==
  /\ Here("stop") /\ Turn(n)
  /\ \/ /\ SameObject(n, journal.snapshots[n].uid)
        /\ ScaledDown(n) /\ NoFault
        /\ Goto("drain") /\ NoWrite /\ UNCHANGED todo
     \/ ~SameObject(n, journal.snapshots[n].uid) /\ Still /\ NoFault /\ Caught
     \/ (ScaledDown(n) \/ Still) /\ Fault /\ Caught

\* Mutant: scale_down() returns without waiting for the Pods.
Drain_NoWait(n) ==
  /\ Here("drain") /\ Turn(n) /\ Still /\ NoFault
  /\ todo' = todo \ {n} /\ Goto("stop") /\ NoWrite

Drain(n) ==
  /\ Here("drain") /\ Turn(n) /\ Still /\ NoFault
  /\ \/ /\ ~Running(n)
        /\ todo' = todo \ {n} /\ Goto("stop") /\ NoWrite
     \/ Caught                          \* E_DRAIN, or kubectl get failed

OldStopped ==
  /\ Here("stop") /\ todo = {} /\ Still /\ NoFault
  /\ Write("old_stopped") /\ Goto("recheck") /\ UNCHANGED <<todo, attempt>>

\* Mutant: the first check is taken to be enough.
Recheck_Skipped ==
  Here("recheck") /\ Still /\ NoFault /\ Goto("apply") /\ NoWrite /\ UNCHANGED todo

Recheck ==
  /\ Here("recheck") /\ Still /\ NoFault
  /\ \/ DoctorPasses /\ Goto("apply") /\ NoWrite /\ UNCHANGED todo
     \/ Caught

StartNew ==
  /\ Here("apply")
  /\ \/ /\ Applied(New, manifest, 1, TRUE) /\ NoFault
        /\ Goto("record") /\ NoWrite /\ UNCHANGED todo
     \/ (Applied(New, manifest, 1, TRUE) \/ Still) /\ Fault /\ Caught

NewStarted ==
  /\ Here("record") /\ Still
  /\ \/ /\ journal' = [journal EXCEPT !.phase = "new_started", !.newUid = dep[New].uid]
        /\ NoFault /\ Goto("rollout") /\ UNCHANGED <<todo, attempt>>
     \/ Fault /\ Caught

Rollout ==
  /\ Here("rollout") /\ Still /\ NoFault
  /\ \/ pods[New].up = manifest /\ Goto("finish") /\ NoWrite /\ UNCHANGED todo
     \/ Caught

Complete ==
  /\ Here("finish") /\ Still
  /\ \/ Write("complete") /\ NoFault /\ End /\ UNCHANGED attempt
     \/ Fault /\ Caught

-----------------------------------------------------------------------------
(* restore(): after a failed apply, and as the rollback command *)

Rollback ==
  /\ Here("idle") /\ journal.phase # "" /\ Count("commands", MaxCommands)
  /\ pc' = "restore" /\ UNCHANGED manifest /\ todo' = {}
  /\ Still /\ NoWrite

\* Mutant: the name is enough.
MayRestore_ByName == \A n \in Recorded : Exists(n)

MayRestore ==
  /\ \A n \in Recorded : SameObject(n, journal.snapshots[n].uid)
  /\ IF journal.newUid # 0 THEN SameObject(New, journal.newUid)
     ELSE New \in Recorded \/ ~Exists(New)

\* The journal is behind the cluster until the new Consumer is drained.
Noted == attempt' = IF attempt = "unnoted" THEN "noted" ELSE attempt

Unnoted ==
  attempt' = IF attempt = "noted" /\ ~Unfinished /\ dep'[New].replicas = 0
             THEN "unnoted" ELSE attempt

StopNew ==
  /\ Here("restore") /\ UNCHANGED journal
  /\ \/ /\ MayRestore /\ NoFault
        /\ IF Exists(New) THEN ScaledDown(New) ELSE Still
        /\ Goto("undrain") /\ Unnoted /\ UNCHANGED todo
     \/ ~MayRestore /\ Stop /\ UNCHANGED attempt
     \/ /\ MayRestore /\ Exists(New) /\ Fault
        /\ ScaledDown(New) \/ Still
        /\ End /\ Unnoted

NewStopped ==
  /\ Here("undrain") /\ Still /\ NoFault
  /\ \/ /\ ~Running(New)
        /\ Write("rollback_stopped_new") /\ Noted
        /\ Goto("idle_check") /\ UNCHANGED todo
     \/ Stop /\ NoWrite

IdleCheck ==
  /\ Here("idle_check") /\ NoWrite
  /\ \/ /\ DoctorPasses /\ Goto("reapply") /\ todo' = Recorded
        /\ Still /\ NoFault
     \/ Stop

Reapplied(n) ==
  LET was == journal.snapshots[n] IN Applied(n, was.spec, was.replicas, was.owned)

Reapply(n) ==
  /\ Here("reapply") /\ Turn(n) /\ NoWrite
  /\ \/ /\ Reapplied(n) /\ NoFault
        /\ IF journal.snapshots[n].replicas > 0
           THEN Goto("rerollout") /\ UNCHANGED todo
           ELSE Goto("reapply") /\ todo' = todo \ {n}
     \/ (Reapplied(n) \/ Still) /\ Fault /\ End

Rerollout(n) ==
  /\ Here("rerollout") /\ Turn(n) /\ NoWrite
  /\ \/ /\ pods[n].up = journal.snapshots[n].spec
        /\ Goto("reapply") /\ todo' = todo \ {n}
        /\ Still /\ NoFault
     \/ Stop

Deleted == dep' = [dep EXCEPT ![New] = Absent] /\ UNCHANGED uids

RemoveNew ==
  /\ Here("reapply") /\ todo = {} /\ NoWrite
  /\ \/ New \in Recorded /\ Goto("rolled_back") /\ UNCHANGED todo /\ Still /\ NoFault
     \/ New \notin Recorded /\ Deleted /\ NoFault /\ Goto("rolled_back") /\ UNCHANGED todo
     \/ New \notin Recorded /\ (Deleted \/ Still) /\ Fault /\ End

RolledBack ==
  /\ Here("rolled_back") /\ Write("rolled_back") /\ End /\ UNCHANGED attempt
  /\ Still /\ NoFault

-----------------------------------------------------------------------------

\* SIGKILL, or the machine goes down: the lock is released with the process.
\* Between the two renames of a new snapshot there is no state.json at all.
Kill ==
  /\ pc # "idle" /\ Count("kills", MaxKills)
  /\ End /\ UNCHANGED <<setup, cluster>>
  /\ \/ NoWrite
     \/ /\ pc = "snapshot" /\ (setup.migrate => Exists(Old))
        /\ journal' = NoJournal /\ Overwritten

Deploying ==
  \/ \E m \in Manifests : Apply(m)
  \/ Check \/ Snapshot \/ OldStopped \/ Recheck \/ StartNew \/ NewStarted
  \/ Rollout \/ Complete
  \/ \E n \in Names : StopOne(n) \/ Drain(n)

Restoring ==
  \/ Rollback
  \/ StopNew \/ NewStopped \/ IdleCheck \/ RemoveNew \/ RolledBack
  \/ \E n \in Names : Reapply(n) \/ Rerollout(n)

Next ==
  \/ Deploying \/ Restoring \/ Kill
  \/ JobStarts \/ JobEnds
  \/ \E n \in Names : PodStarts(n) \/ PodIsStopped(n) \/ PodEnds(n) \/ Replace(n)

Spec == Init /\ [][Next]_vars

-----------------------------------------------------------------------------
(* Properties *)

Specs == Manifests \cup {Before, ""}

DeploymentsOf(most) == [uid : 0..most, spec : Specs, replicas : 0..1, owned : BOOLEAN]

Deployments == DeploymentsOf(uids)

Journals == [phase : {"", "prepared", "old_stopped", "new_started", "complete",
                      "rollback_stopped_new", "rolled_back"},
             snapshots : [Names -> Deployments], newUid : 0..uids,
             fingerprint : Manifests \cup {""}]

ClusterOK ==
  /\ setup \in [migrate : BOOLEAN, served : BOOLEAN]
  /\ uids \in Nat
  /\ dep \in [Names -> Deployments]
  /\ pods \in [Names -> [up : Specs, ending : BOOLEAN]]
  /\ jobs \in 0..MaxJobs

ScriptOK ==
  /\ journal \in Journals
  /\ pc \in {"idle", "check", "snapshot", "stop", "drain", "recheck", "apply",
             "record", "rollout", "finish", "restore", "undrain", "idle_check",
             "reapply", "rerollout", "rolled_back"}
  /\ manifest \in Manifests \cup {""} /\ todo \subseteq Names
  /\ pc = "idle" => todo = {} /\ manifest = ""
  /\ attempt \in {"noted", "unnoted", "overwritten"}

BoundsOK == bounds \in [commands : Nat, faults : Nat, kills : Nat, replacements : Nat]

\* Every variable has its type; a snapshot and the journal's new_uid name
\* objects that existed.
TypeOK == ClusterOK /\ ScriptOK /\ BoundsOK

\* Whatever fails or is killed, the Pods of the old and of the new Consumer
\* are never there together, not even while one is shutting down.
OneConsumer == ~(Running(Old) /\ Running(New))

\* A new release is started only with no Ray job active and no Consumer left
\* that could admit one, although jobs are admitted while the first check runs.
StartsWhenIdle ==
  [][pc = "apply" /\ dep'[New].replicas > dep[New].replicas =>
       jobs = 0 /\ \A n \in Names : ~Running(n)]_vars

Somewhere ==
  \E n \in Names : dep[n].replicas > 0 \/ journal.snapshots[n].replicas > 0

\* Where a Consumer ran at the start, one runs, or the journal has what it
\* takes to start it again: the snapshot of an unfinished switch is never
\* overwritten by one of Deployments that are scaled down.
ConsumerNotForgotten == setup.served /\ attempt # "overwritten" => Somewhere

\* What the error of an unfinished switch says of the snapshot ("do not
\* overwrite the recovery snapshot"), with no exception.
SnapshotSurvives == setup.served => Somewhere

\* The phase an operator reads after a failure is true of the cluster: the old
\* Consumer is down from old_stopped on and the new one from
\* rollback_stopped_new on, and the journal knows the object it has started.
JournalTruthful ==
  /\ journal.phase \in {"old_stopped", "new_started", "complete"} =>
       dep[Old].replicas = 0 /\ ~Running(Old)
  /\ journal.phase = "rollback_stopped_new" /\ New \notin Recorded =>
       dep[New].replicas = 0 /\ ~Running(New)
  /\ journal.phase \in {"new_started", "complete"} /\ bounds.replacements = 0 =>
       dep[New].uid = journal.newUid

SameRelease(a, b) == a.spec = b.spec /\ a.replicas = b.replicas

\* After a rollback every Deployment runs what it ran before the switch, as
\* often as it did, and one that was not there is gone.
RolledBackIsBefore ==
  journal.phase = "rolled_back" /\ attempt = "noted" =>
    \A n \in Names : SameRelease(dep[n], journal.snapshots[n])

\* The journal an interrupted command leaves behind is true, leads back to the
\* Consumers of the start, and back exactly there.
JournalLeadsBack == JournalTruthful /\ ConsumerNotForgotten /\ RolledBackIsBefore

\* A rollback changes no Deployment but those the journal has recorded: one
\* that somebody recreated under the same name is left alone.
ReplacedIsLeftAlone ==
  [][\A n \in Names :
       pc \in {"restore", "reapply"} /\ Exists(n) /\ dep'[n] # dep[n] =>
         dep[n].uid \in {journal.newUid, journal.snapshots[n].uid}]_vars

-----------------------------------------------------------------------------
(* The inductive invariant *)

\* Nothing of n runs, and nothing will until somebody scales it up.
Quiet(n) == dep[n].replicas = 0 /\ ~Running(n)

AllDown == \A n \in Names : dep[n].replicas = 0

\* Stronger than OneConsumer: one of the two cannot even start.  The snapshots
\* keep it so when they are reapplied.
OneIsQuiet ==
  /\ Quiet(Old) \/ Quiet(New)
  /\ journal.snapshots[New].replicas > 0 =>
       Quiet(Old) /\ journal.snapshots[Old].replicas = 0

\* A Deployment that is not there has no uid and no Pod, and the old one is
\* neither created nor deleted once there is a journal.
AbsentIsNothing ==
  /\ \A n \in Names : dep[n].uid = 0 => dep[n] = Absent
  /\ \A n \in Names : ~Exists(n) => ~Running(n)
  /\ journal.phase # "" => (Exists(Old) <=> Old \in Recorded)

\* The phase of the journal at each place of the script.
PhaseKnown ==
  /\ journal.phase = "" => pc \in {"idle", "check", "snapshot"} /\ attempt # "unnoted"
  /\ pc \in {"check", "snapshot"} => ~Unfinished
  /\ pc \in {"stop", "drain"} => journal.phase = "prepared"
  /\ pc \in {"recheck", "apply", "record"} => journal.phase = "old_stopped"
  /\ pc \in {"rollout", "finish"} => journal.phase = "new_started"
  /\ pc \in {"idle_check", "reapply", "rerollout", "rolled_back"} =>
       journal.phase = "rollback_stopped_new"

\* What `apply` has brought about where it is.
ApplyKnows ==
  /\ pc \in {"stop", "drain"} => \A n \in Names \ todo : Quiet(n)
  /\ pc = "drain" => \A n \in Names : Turn(n) => dep[n].replicas = 0
  /\ pc \in {"recheck", "apply"} => \A n \in Names : Quiet(n)
  /\ pc = "apply" => jobs = 0
  /\ pc \in {"record", "rollout", "finish"} => dep[New].replicas > 0

\* What restore() has brought about where it is.
RestoreKnows ==
  /\ pc = "undrain" => dep[New].replicas = 0
  /\ pc = "idle_check" => Quiet(New)
  /\ pc \in {"reapply", "rerollout"} =>
       /\ todo \subseteq Recorded
       /\ New \notin Recorded \/ Old \in todo \/ (pc = "reapply" /\ New \in todo) => Quiet(New)
       /\ \A n \in Recorded :
            n \notin todo \/ (pc = "rerollout" /\ Turn(n)) =>
              SameRelease(dep[n], journal.snapshots[n])
  /\ pc = "rolled_back" => \A n \in Names : SameRelease(dep[n], journal.snapshots[n])

\* The identities restore() has asserted are still those of the objects.
SameObjects ==
  pc \in {"undrain", "idle_check", "reapply", "rerollout"} =>
    /\ \A n \in Recorded : Exists(n) /\ dep[n].uid = journal.snapshots[n].uid
    /\ New \in Recorded \/ ~Exists(New) \/ dep[New].uid = journal.newUid

\* Why the Consumer is not forgotten: the snapshot of a journal has it, and
\* where there is no journal, or none that is unfinished, it is deployed.
SnapshotHasIt ==
  setup.served /\ attempt # "overwritten" =>
    IF journal.phase = "" THEN ~AllDown
    ELSE \E n \in Names : journal.snapshots[n].replicas > 0

DeployedWhenFinished == setup.served /\ attempt = "noted" /\ ~Unfinished => ~AllDown

\* Types, what each place of the script knows, and the journal.
IInv ==
  /\ TypeOK
  /\ OneIsQuiet /\ AbsentIsNothing /\ PhaseKnown
  /\ ApplyKnows /\ RestoreKnows /\ SameObjects
  /\ SnapshotHasIt /\ DeployedWhenFinished
  /\ JournalTruthful /\ RolledBackIsBefore
=============================================================================
