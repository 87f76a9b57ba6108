--------------------------- MODULE PlatformSwitch ---------------------------
(***************************************************************************)
(* The platform deployer: `deploy.py apply` and `deploy.py rollback` of a  *)
(* complete release (RayCluster, preflight Job, Consumer).  The release is *)
(* created beside the Consumer it replaces, checked by a Job inside it,    *)
(* and then the old Consumer is scaled down and the new one up.  The state *)
(* of the switch is in switch.json.  kubectl calls fail before or after    *)
(* their effect, the script is killed at any point, and between commands,  *)
(* or in the minutes of the preflight, the operator scales a Deployment or *)
(* somebody recreates one.  Nothing locks the output directory: commands   *)
(* are given one at a time.                                                *)
(***************************************************************************)
EXTENDS Naturals

CONSTANTS
  Configs,      \* the configurations `apply` is given, by their spec digest
  MaxReplicas,  \* bound: replicas of the old Consumer
  MaxCommands,  \* bound: commands given
  MaxFaults,    \* bound: kubectl calls that fail
  MaxKills,     \* bound: the script is killed
  MaxEdits      \* bound: changes made by hand

Foreign == "foreign"  \* an object of that name, without the deployer's label
NoSpec  == ""

ASSUME PlatformAssumption ==
  /\ Configs # {} /\ Configs \cap {Foreign, NoSpec} = {}
  /\ MaxReplicas \in Nat \ {0}
  /\ {MaxCommands, MaxFaults, MaxKills, MaxEdits} \subseteq Nat

VARIABLES
  setup,    \* [migrate, replicas]: --previous-consumer is given; its replicas at the start
  dep,      \* the two Deployments: [uid, spec, replicas], or Absent
  ray,      \* the digest the ConfigMap and the RayCluster carry
  check,    \* the preflight Job: [spec, status, command], command the one that created it
  paused,   \* the operator has paused the upstream
  jobs,     \* PENDING or RUNNING jobs of the old Ray cluster
  journal,  \* switch.json, or NoJournal
  pc,       \* where the script is; "idle" between commands
  config,   \* the digest of this command's configuration
  seen,     \* [uid, replicas]: the old Deployment as this command read it at first
  outcome,  \* history: how the last command ended
  touched,  \* history: changed by hand since the last command began
  uids,     \* uids given so far
  bounds    \* [commands, faults, kills, edits] so far

cluster == <<dep, ray, check, uids>>
upstream == <<paused, jobs>>
script  == <<journal, pc, config, seen, outcome>>
vars    == <<setup, cluster, upstream, script, touched, bounds>>

Old == "old"  \* --previous-consumer
New == "new"  \* <name>-consumer
Names == {Old, New}

Absent    == [uid |-> 0, spec |-> NoSpec, replicas |-> 0]
NoCheck   == [spec |-> NoSpec, status |-> "absent", command |-> 0]
NotSeen   == [uid |-> 0, replicas |-> 0]
NoJournal == [state |-> "none", spec |-> NoSpec, consumerUid |-> 0,
              previousUid |-> 0, previousReplicas |-> 0]

Exists(n) == dep[n].uid # 0
Saved     == journal # NoJournal

\* A journal of the releases before switch states: no state, no uids.
Legacy == [state |-> "legacy", spec |-> CHOOSE c \in Configs : TRUE,
           consumerUid |-> 0, previousUid |-> 0, previousReplicas |-> setup.replicas]

OldAtStart(replicas) ==
  IF setup.migrate THEN [uid |-> 1, spec |-> Foreign, replicas |-> replicas] ELSE Absent

InitFresh ==
  /\ dep = [n \in Names |-> IF n = Old THEN OldAtStart(setup.replicas) ELSE Absent]
  /\ ray = NoSpec /\ journal = NoJournal

\* Something else has the new Consumer's name.
InitTaken ==
  /\ dep = [n \in Names |-> IF n = Old THEN OldAtStart(setup.replicas)
                           ELSE [uid |-> 2, spec |-> Foreign, replicas |-> 0]]
  /\ ray = NoSpec /\ journal = NoJournal

\* The release was installed and switched to by an earlier deployer.
InitLegacy ==
  /\ dep = [n \in Names |->
              IF n = Old THEN OldAtStart(0)
              ELSE [uid |-> 2, spec |-> Legacy.spec, replicas |-> 1]]
  /\ ray = Legacy.spec /\ journal = Legacy

Init ==
  /\ setup \in [migrate : BOOLEAN, replicas : 0..MaxReplicas]
  /\ setup.migrate \/ setup.replicas = 0
  /\ InitFresh \/ InitTaken \/ InitLegacy
  /\ check = NoCheck
  /\ paused = FALSE /\ jobs \in 0..1
  /\ pc = "idle" /\ config = NoSpec /\ seen = NotSeen /\ outcome = ""
  /\ touched = FALSE /\ uids = 2
  /\ bounds = [commands |-> 0, faults |-> 0, kills |-> 0, edits |-> 0]

Count(kind, limit) ==
  bounds[kind] < limit /\ bounds' = [bounds EXCEPT ![kind] = @ + 1]

-----------------------------------------------------------------------------
(* The upstream, Ray, Kubernetes and the operator *)

\* README of the deployer: upstream is paused for a switch, and resumed after.
Pause == pc = "idle" /\ paused' = ~paused
         /\ UNCHANGED <<setup, cluster, jobs, script, touched, bounds>>

JobStarts ==
  /\ ~paused /\ dep[Old].replicas > 0 /\ jobs = 0 /\ jobs' = 1
  /\ UNCHANGED <<setup, cluster, paused, script, touched, bounds>>

JobEnds ==
  /\ jobs = 1 /\ jobs' = 0
  /\ UNCHANGED <<setup, cluster, paused, script, touched, bounds>>

CheckEnds ==
  /\ check.status = "active"
  /\ \E status \in {"complete", "failed"} : check' = [check EXCEPT !.status = status]
  /\ UNCHANGED <<setup, dep, ray, uids, upstream, script, touched, bounds>>

\* By hand, and never both Consumers at once.
Edit == pc \in {"idle", "poll"} /\ Count("edits", MaxEdits) /\ touched' = TRUE
        /\ UNCHANGED <<setup, ray, check, upstream, script>>

Rescale(n, replicas) ==
  /\ Edit /\ Exists(n) /\ \A m \in Names \ {n} : dep[m].replicas = 0
  /\ replicas # dep[n].replicas
  /\ dep' = [dep EXCEPT ![n].replicas = replicas] /\ UNCHANGED uids

Recreate(n, spec) ==
  /\ Edit /\ Exists(n) /\ spec \in {dep[n].spec, Foreign}
  /\ uids' = uids + 1
  /\ dep' = [dep EXCEPT ![n] = [uid |-> uids + 1, spec |-> spec, replicas |-> @.replicas]]

-----------------------------------------------------------------------------
(* Steps of the script *)

Begin(place) ==
  /\ pc = "idle" /\ paused /\ Count("commands", MaxCommands)
  /\ pc' = place /\ outcome' = "" /\ touched' = FALSE
  /\ UNCHANGED <<setup, cluster, upstream, journal, seen>>

Here(place)  == pc = place /\ UNCHANGED <<setup, upstream, touched>>
Goto(place)  == pc' = place /\ UNCHANGED <<config, seen, outcome>>
Still        == UNCHANGED cluster
NoWrite      == UNCHANGED journal
NoFault      == UNCHANGED bounds
Fault        == Count("faults", MaxFaults)

End(result) ==
  pc' = "idle" /\ config' = NoSpec /\ seen' = NotSeen /\ outcome' = result

Scaled(n, replicas) ==
  dep' = [dep EXCEPT ![n].replicas = replicas] /\ UNCHANGED <<ray, check, uids>>

\* `kubectl scale`, then `kubectl rollout status`, which changes nothing.
Scale(n, replicas, next, failed) ==
  \/ Scaled(n, replicas) /\ NoFault /\ next
  \/ (Scaled(n, replicas) \/ Still) /\ Fault /\ failed

\* Mutant: the names are enough.
ValidTargets_ByName(j) == Exists(New) /\ (setup.migrate => Exists(Old))

\* validate_switch_targets()
ValidTargets(j) ==
  /\ Exists(New) /\ dep[New].spec = j.spec /\ j.spec \in Configs
  /\ j.consumerUid \in {0, dep[New].uid}
  /\ setup.migrate => Exists(Old) /\ j.previousUid \in {0, dep[Old].uid}

Apply(c) == (Saved => journal.spec = c) /\ Begin("preflight") /\ config' = c

\* Nothing of these names, or what this very configuration has created.
MayCreate == {ray, dep[New].spec, check.spec} \subseteq {config, NoSpec}

Preflight ==
  /\ Here("preflight") /\ Still /\ NoWrite /\ NoFault
  /\ \/ /\ setup.migrate => Exists(Old)
        /\ MayCreate
        /\ pc' = "decide" /\ UNCHANGED <<config, outcome>>
        /\ seen' = [uid |-> dep[Old].uid, replicas |-> dep[Old].replicas]
     \/ End("failed")   \* one of these, or of the nodes, the PVC and the Secret

LegacyActive ==
  /\ journal.state = "legacy" /\ dep[New].replicas > 0
  /\ setup.migrate => seen.replicas = 0

Finished == journal.state \in {"none", "active", "rolled_back"} \/ LegacyActive

\* Mutant: a journal that says so is believed.
Already_ByJournal == Finished /\ journal.state = "active"

\* The release of this configuration runs, and no rollback says it should not.
Already ==
  /\ Finished /\ dep[New].replicas > 0
  /\ Saved => ValidTargets(journal) /\ journal.state # "rolled_back"

MayInstall ==
  /\ journal.state \in {"none", "rolled_back"} /\ dep[New].replicas = 0
  /\ Saved => ValidTargets(journal)

AlreadySaved ==
  journal' = IF LegacyActive
             THEN [journal EXCEPT !.state = "active", !.consumerUid = dep[New].uid,
                                  !.previousUid = seen.uid]
             ELSE journal

Decide ==
  /\ Here("decide") /\ Still
  /\ \/ Already /\ AlreadySaved /\ NoFault /\ End("applied")
     \/ Already /\ NoWrite /\ Fault /\ End("failed")
     \/ MayInstall /\ NoWrite /\ NoFault /\ Goto("create")
     \/ ~Already /\ ~MayInstall /\ NoWrite /\ NoFault /\ End("failed")

RayApplied == ray' = config /\ UNCHANGED check

NewApplied ==
  IF Exists(New)
  THEN dep' = [dep EXCEPT ![New].spec = config, ![New].replicas = 0] /\ UNCHANGED uids
  ELSE /\ dep' = [dep EXCEPT ![New] = [uid |-> uids + 1, spec |-> config, replicas |-> 0]]
       /\ uids' = uids + 1

\* The list is applied object by object, the Deployment last.
Create ==
  /\ Here("create") /\ NoWrite
  /\ \/ RayApplied /\ NewApplied /\ NoFault /\ Goto("uncheck")
     \/ /\ Fault /\ End("failed")
        /\ Still \/ (RayApplied /\ (NewApplied \/ UNCHANGED <<dep, uids>>))

\* Mutant: a preflight that has passed is not repeated.
Uncheck_KeepsPassed ==
  /\ Here("uncheck") /\ NoWrite /\ NoFault /\ UNCHANGED <<dep, ray, uids>>
  /\ IF check.status = "complete" THEN UNCHANGED check /\ Goto("poll")
     ELSE check' = NoCheck /\ Goto("check")

\* Once cluster and Pods are ready, the Job of an earlier attempt is deleted.
Uncheck ==
  /\ Here("uncheck") /\ NoWrite /\ UNCHANGED <<dep, ray, uids>>
  /\ \/ check' = NoCheck /\ NoFault /\ Goto("check")
     \/ check' \in {check, NoCheck} /\ Fault /\ End("failed")

NewCheck == [spec |-> config, status |-> "active", command |-> bounds.commands]

CreateCheck ==
  /\ Here("check") /\ NoWrite /\ UNCHANGED <<dep, ray, uids>>
  /\ \/ check' = NewCheck /\ NoFault /\ Goto("poll")
     \/ check' \in {check, NewCheck} /\ Fault /\ End("failed")

Poll ==
  /\ Here("poll") /\ Still /\ NoWrite
  /\ \/ check.status = "complete" /\ NoFault /\ Goto("probe")
     \/ check.status # "complete" /\ NoFault /\ End("failed")  \* failed, or 250 seconds
     \/ Fault /\ End("failed")

\* Mutant: a release that has been switched to before needs no second look.
Probe_FirstTime ==
  /\ Here("probe") /\ Still /\ NoWrite /\ NoFault
  /\ IF Saved \/ seen.replicas = 0 \/ jobs = 0 THEN Goto("record") ELSE End("failed")

\* An old Consumer that runs is asked for the active jobs of its cluster.
Probe ==
  /\ Here("probe") /\ Still /\ NoWrite
  /\ \/ NoFault /\ (IF seen.replicas = 0 \/ jobs = 0 THEN Goto("record") ELSE End("failed"))
     \/ seen.replicas > 0 /\ Fault /\ End("failed")

ToSave ==
  IF Saved THEN journal
  ELSE [NoJournal EXCEPT !.spec = config, !.consumerUid = dep[New].uid,
                         !.previousUid = seen.uid, !.previousReplicas = seen.replicas]

\* Mutant: the journal is complete in memory, and never written.
Record_Unsaved == Here("record") /\ Still /\ NoFault /\ NoWrite /\ Goto("stop")

Record ==
  /\ Here("record") /\ Still /\ NoFault
  /\ IF ValidTargets(ToSave)
     THEN journal' = [ToSave EXCEPT !.state = "switching"] /\ Goto("stop")
     ELSE NoWrite /\ End("failed")

StopOld ==
  /\ Here("stop") /\ NoWrite
  /\ IF setup.migrate THEN Scale(Old, 0, Goto("start"), Goto("restore"))
     ELSE Still /\ NoFault /\ Goto("start")

StartNew ==
  Here("start") /\ NoWrite /\ Scale(New, 1, Goto("finish"), Goto("restore"))

Finish ==
  /\ Here("finish") /\ Still
  /\ \/ journal' = [journal EXCEPT !.state = "active"] /\ NoFault /\ End("applied")
     \/ NoWrite /\ Fault /\ End("failed")

-----------------------------------------------------------------------------
(* restore_switch(): after a failed switch, and as the rollback command *)

Rollback == Saved /\ Begin("restore") /\ UNCHANGED config

\* Mutant: the old Consumer is restored even if the new one was not stopped.
RestoreNew_GoesOn ==
  /\ Here("restore") /\ NoWrite /\ ValidTargets(journal)
  /\ Scale(New, 0, Goto("restore_old"), Goto("restore_old"))

RestoreNew ==
  /\ Here("restore") /\ NoWrite
  /\ IF ValidTargets(journal)
     THEN Scale(New, 0, Goto("restore_old"), End("failed"))
     ELSE Still /\ NoFault /\ End("failed")

RestoreOld ==
  /\ Here("restore_old") /\ NoWrite
  /\ IF setup.migrate
     THEN Scale(Old, journal.previousReplicas, Goto("restored"), End("failed"))
     ELSE Still /\ NoFault /\ Goto("restored")

\* The command succeeds; an apply that was restored has failed all the same.
Restored ==
  /\ Here("restored") /\ Still /\ NoFault
  /\ journal' = [journal EXCEPT !.state = "rolled_back"]
  /\ End(IF config = NoSpec THEN "rolled_back" ELSE "failed")

-----------------------------------------------------------------------------

\* A signal, or the machine goes down: `except Exception` sees neither.
Kill ==
  /\ pc # "idle" /\ Count("kills", MaxKills) /\ End("failed")
  /\ UNCHANGED <<setup, cluster, upstream, journal, touched>>

Installing ==
  \/ \E c \in Configs : Apply(c)
  \/ Preflight \/ Decide \/ Create \/ Uncheck \/ CreateCheck \/ Poll \/ Probe

Switching == Record \/ StopOld \/ StartNew \/ Finish

Restoring == Rollback \/ RestoreNew \/ RestoreOld \/ Restored

World ==
  \/ Pause \/ JobStarts \/ JobEnds \/ CheckEnds
  \/ \E n \in Names, r \in 0..MaxReplicas : Rescale(n, r)
  \/ \E n \in Names, s \in Configs \cup {Foreign} : Recreate(n, s)

Next == Installing \/ Switching \/ Restoring \/ Kill \/ World

Spec == Init /\ [][Next]_vars

-----------------------------------------------------------------------------
(* Properties *)

Specs == Configs \cup {NoSpec, Foreign}
Deployments == [uid : Nat, spec : Specs, replicas : 0..MaxReplicas]
Checks == [spec : Specs, status : {"absent", "active", "complete", "failed"},
           command : 0..MaxCommands]
Journals == [state : {"legacy", "switching", "active", "rolled_back"}, spec : Configs,
             consumerUid : Nat, previousUid : Nat, previousReplicas : 0..MaxReplicas]

ClusterOK ==
  /\ setup \in [migrate : BOOLEAN, replicas : 0..MaxReplicas]
  /\ dep \in [Names -> Deployments] /\ ray \in Specs /\ check \in Checks /\ uids \in Nat
  /\ jobs \in 0..1 /\ {paused, touched} \subseteq BOOLEAN

BoundsOK ==
  bounds \in [commands : 0..MaxCommands, faults : 0..MaxFaults,
              kills : 0..MaxKills, edits : 0..MaxEdits]

JournalOK == Saved => journal \in Journals

ScriptOK ==
  /\ pc \in {"idle", "preflight", "decide", "create", "uncheck", "check", "poll",
             "probe", "record", "stop", "start", "finish", "restore",
             "restore_old", "restored"}
  /\ config \in Configs \cup {NoSpec}
  /\ seen \in [uid : Nat, replicas : 0..MaxReplicas]
  /\ outcome \in {"", "applied", "rolled_back", "failed"}
  /\ pc = "idle" => config = NoSpec /\ seen = NotSeen

\* Every variable has its type; the journal has a configuration, and a command
\* that is not running has left nothing behind.
TypeOK == ClusterOK /\ BoundsOK /\ JournalOK /\ ScriptOK

\* Whatever call fails and wherever the script is killed, the old and the new
\* Consumer are never both wanted: not while switching, not while going back.
NeverBoth == dep[Old].replicas = 0 \/ dep[New].replicas = 0

\* A command that says it succeeded has done what it says, also when the one
\* before it failed half way and the journal is behind the cluster.
SuccessIsTrue ==
  pc = "idle" /\ ~touched =>
    /\ outcome = "applied" => dep[New].replicas > 0 /\ dep[Old].replicas = 0
    /\ outcome = "rolled_back" =>
         dep[New].replicas = 0 /\ dep[Old].replicas = journal.previousReplicas

\* With nothing changed by hand the way back stays open, whatever fails and is
\* killed: rollback accepts whatever journal there is, and it says how many
\* replicas served at the start; without one they are still wanted.
RollbackLeadsBack ==
  bounds.edits = 0 =>
    IF Saved THEN ValidTargets(journal) /\ journal.previousReplicas = setup.replicas
    ELSE dep[Old].replicas = setup.replicas

\* A rollback that is complete has restored what ran before the switch.
RolledBackIsBefore ==
  bounds.edits = 0 /\ journal.state = "rolled_back" =>
    dep[New].replicas = 0 /\ dep[Old].replicas = setup.replicas

\* The objects of a release never carry two configurations, although they are
\* created one by one by commands that may fail or be killed in between.
OneConfiguration ==
  \A a, b \in {ray, dep[New].spec, check.spec} \ {NoSpec, Foreign} : a = b

\* A Deployment without the deployer's label is never written by it, but the
\* one it was asked to replace.
ForeignIsLeftAlone ==
  [][pc \notin {"idle", "poll"} /\ dep[New].spec = Foreign => dep'[New] = dep[New]]_vars

Recorded(n) == IF n = New THEN journal.consumerUid ELSE journal.previousUid

\* The switch scales the two objects it has recorded, and no other that has
\* taken their names, not even one that did so while the preflight ran.
ReplacedIsLeftAlone ==
  [][\A n \in Names :
       pc \notin {"idle", "poll"} /\ dep'[n].replicas # dep[n].replicas =>
         Recorded(n) \in {0, dep[n].uid}]_vars

\* A command changes no Deployment but its own and the one it was told to
\* replace, whatever has taken their names.
OthersAreLeftAlone == ForeignIsLeftAlone /\ ReplacedIsLeftAlone

\* The new Consumer is started only after the preflight Job of this very
\* command has passed in the release's own cluster.
CheckedBeforeStart ==
  [][pc = "start" /\ dep'[New].replicas > dep[New].replicas =>
       check = [spec |-> config, status |-> "complete", command |-> bounds.commands]]_vars

\* With the upstream paused, the old Consumer is not stopped while a job of its
\* cluster is active, whatever earlier attempts have left behind.
StoppedWhenIdle ==
  [][pc = "stop" /\ ~touched /\ dep'[Old].replicas < dep[Old].replicas => jobs = 0]_vars

-----------------------------------------------------------------------------
(* The inductive invariant of the proofs *)

BeforeSwitch == {"decide", "create", "uncheck", "check", "poll", "probe", "record"}

\* What the place of the script says about the journal, the objects it has
\* checked and the Consumers.
AtPlace ==
  /\ pc \in BeforeSwitch \cup {"preflight", "stop", "start", "finish"} =>
       config \in Configs /\ (Saved => journal.spec = config)
  /\ pc \in {"decide", "create", "uncheck", "check"} => MayCreate
  /\ pc = "decide" => seen = [uid |-> dep[Old].uid, replicas |-> dep[Old].replicas]
  /\ pc = "create" => dep[New].replicas = 0
  /\ pc = "poll" => check.spec = config /\ check.command = bounds.commands
  /\ pc \in {"probe", "record", "stop", "start"} =>
       check = [spec |-> config, status |-> "complete", command |-> bounds.commands]
  /\ pc \in {"stop", "start", "finish", "restore", "restore_old", "restored"} => Saved
  /\ pc \in {"stop", "start", "finish", "restore_old", "restored"} => ValidTargets(journal)
  /\ pc \in {"stop", "start", "finish"} => journal.state = "switching"
  /\ pc = "start" => dep[Old].replicas = 0
  /\ pc = "finish" => dep[New].replicas > 0
  /\ pc \in {"restore_old", "restored"} => dep[New].replicas = 0
  /\ pc = "restored" => dep[Old].replicas = journal.previousReplicas

NothingBefore ==
  ~setup.migrate =>
    /\ dep[Old] = Absent /\ setup.replicas = 0
    /\ seen.replicas = 0 /\ journal.previousReplicas = 0

\* The journal leads back to the start.
Unedited ==
  bounds.edits = 0 =>
    IF Saved THEN ValidTargets(journal) /\ journal.previousReplicas = setup.replicas
    ELSE /\ dep[Old].replicas = setup.replicas
         /\ pc \in BeforeSwitch => seen.replicas = setup.replicas

Drained ==
  /\ pc # "idle" => paused
  /\ ~touched /\ pc \in BeforeSwitch \cup {"stop"} => seen.replicas = dep[Old].replicas
  /\ pc \in {"record", "stop"} => seen.replicas = 0 \/ jobs = 0

\* Every property of a state above follows from it, and every step keeps it.
IInv ==
  /\ TypeOK /\ AtPlace /\ NothingBefore /\ Unedited /\ Drained
  /\ NeverBoth /\ OneConfiguration /\ SuccessIsTrue /\ RolledBackIsBefore
=============================================================================
