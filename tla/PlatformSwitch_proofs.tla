----------------------- MODULE PlatformSwitch_proofs -----------------------
(***************************************************************************)
(* Proofs about PlatformSwitch, for any configurations, replicas, commands *)
(* failed calls, kills and changes by hand.                                *)
(***************************************************************************)
EXTENDS PlatformSwitch, TLAPS

-----------------------------------------------------------------------------
(* Facts the steps rest on *)

\* The assumptions, and what follows from them about the names of states.
LEMMA Constants ==
  /\ MaxReplicas \in Nat /\ MaxReplicas > 0
  /\ MaxCommands \in Nat /\ MaxFaults \in Nat /\ MaxKills \in Nat /\ MaxEdits \in Nat
  /\ Foreign \notin Configs /\ NoSpec \notin Configs /\ Foreign # NoSpec
  /\ Legacy.spec \in Configs
<1>1. Legacy.spec \in Configs
  BY PlatformAssumption DEF Legacy
<1>2. Foreign # NoSpec
  BY DEF Foreign, NoSpec
<1> QED
  BY <1>1, <1>2, PlatformAssumption

\* There are two Consumers.
LEMMA Consumers ==
  Old # New /\ Old \in Names /\ New \in Names /\ \A n \in Names : n = Old \/ n = New
  BY DEF Old, New, Names

\* What every step of a command leaves of the counters.
SameCounts ==
  BoundsOK' /\ bounds'.edits = bounds.edits /\ bounds'.commands = bounds.commands

\* A failed call is counted, and so is a kill.
LEMMA FaultCounts ==
  ASSUME BoundsOK, Fault \/ NoFault \/ Count("kills", MaxKills)
  PROVE  SameCounts
  BY Constants DEF SameCounts, BoundsOK, Fault, NoFault, Count

\* `kubectl scale` changes the replicas of one Deployment and nothing else.
LEMMA ScaledFacts ==
  ASSUME ClusterOK, NEW n \in Names, NEW r \in 0..MaxReplicas, Scaled(n, r)
  PROVE  /\ dep' \in [Names -> Deployments] /\ dep'[n].replicas = r
         /\ dep'[n].uid = dep[n].uid /\ dep'[n].spec = dep[n].spec
         /\ \A m \in Names \ {n} : dep'[m] = dep[m]
         /\ ray' = ray /\ check' = check /\ uids' = uids
  BY DEF ClusterOK, Scaled, Deployments

\* A command that ends leaves nothing behind.
LEMMA EndFacts ==
  ASSUME NEW result \in {"applied", "rolled_back", "failed"}, End(result)
  PROVE  /\ ScriptOK' /\ AtPlace' /\ pc' = "idle" /\ config' = NoSpec
         /\ seen'.replicas = 0 /\ outcome' = result
<1>1. NotSeen \in [uid : Nat, replicas : 0..MaxReplicas] /\ NotSeen.replicas = 0
  BY Constants DEF NotSeen
<1>2. ScriptOK' /\ pc' = "idle" /\ seen'.replicas = 0 /\ config' = NoSpec /\ outcome' = result
  BY <1>1 DEF End, ScriptOK
<1>3. AtPlace'
  BY <1>2 DEF AtPlace, BeforeSwitch
<1> QED
  BY <1>2, <1>3

\* A new state of the switch is written, and the rest of switch.json is kept.
LEMMA StateWritten ==
  ASSUME JournalOK, Saved, NEW state \in {"switching", "active", "rolled_back"},
         journal' = [journal EXCEPT !.state = state]
  PROVE  /\ JournalOK' /\ Saved' /\ journal'.state = state
         /\ journal'.spec = journal.spec
         /\ journal'.consumerUid = journal.consumerUid
         /\ journal'.previousUid = journal.previousUid
         /\ journal'.previousReplicas = journal.previousReplicas
<1>1. journal \in Journals
  BY DEF JournalOK
<1>2. /\ journal' \in Journals
      /\ journal'.state = state /\ journal'.spec = journal.spec
      /\ journal'.consumerUid = journal.consumerUid
      /\ journal'.previousUid = journal.previousUid
      /\ journal'.previousReplicas = journal.previousReplicas
  BY <1>1 DEF Journals
<1>3. journal' # NoJournal
  BY <1>2 DEF NoJournal
<1> QED
  BY <1>2, <1>3 DEF JournalOK, Saved

\* There is no preflight Job, or none any more.
LEMMA NoCheckFacts == NoCheck \in Checks /\ NoCheck.spec = NoSpec
  BY Constants DEF NoCheck, Checks, Specs

-----------------------------------------------------------------------------
(* The initial states *)

\* A fresh cluster, a name that is taken and an old release all satisfy the invariant.
LEMMA InitIInv == Init => IInv
<1> SUFFICES ASSUME Init PROVE IInv
  OBVIOUS
<1>1. /\ setup.migrate \in BOOLEAN /\ setup.replicas \in 0..MaxReplicas
      /\ ~setup.migrate => setup.replicas = 0
  BY Constants DEF Init
<1>2. \A r \in 0..MaxReplicas :
        /\ OldAtStart(r) \in Deployments /\ OldAtStart(r).spec \in {Foreign, NoSpec}
        /\ IF setup.migrate THEN OldAtStart(r).uid = 1 /\ OldAtStart(r).replicas = r
           ELSE OldAtStart(r) = Absent /\ Absent.replicas = 0 /\ Absent.uid = 0
  <2> SUFFICES ASSUME NEW r \in 0..MaxReplicas
               PROVE  /\ OldAtStart(r) \in Deployments /\ OldAtStart(r).spec \in {Foreign, NoSpec}
                      /\ IF setup.migrate THEN OldAtStart(r).uid = 1 /\ OldAtStart(r).replicas = r
                         ELSE OldAtStart(r) = Absent /\ Absent.replicas = 0 /\ Absent.uid = 0
    OBVIOUS
  <2>1. CASE setup.migrate
    BY <2>1, Constants DEF OldAtStart, Deployments, Specs
  <2>2. CASE ~setup.migrate
    BY <2>2, Constants DEF OldAtStart, Deployments, Specs, Absent
  <2> QED
    BY <2>1, <2>2, <1>1
<1>3. ASSUME InitFresh \/ InitTaken
      PROVE  /\ dep \in [Names -> Deployments] /\ dep[Old] = OldAtStart(setup.replicas)
             /\ dep[New].replicas = 0 /\ dep[New].spec \in {NoSpec, Foreign}
             /\ ray = NoSpec /\ ~Saved /\ journal = NoJournal
  <2>1. Absent \in Deployments /\ Absent.replicas = 0 /\ Absent.spec = NoSpec
    BY Constants DEF Absent, Deployments, Specs
  <2>2. OldAtStart(setup.replicas) \in Deployments
    BY <1>1, <1>2
  <2>3. ray = NoSpec /\ journal = NoJournal /\ ~Saved
    BY <1>3 DEF InitFresh, InitTaken, Saved
  <2>4. CASE InitFresh
    BY <2>1, <2>2, <2>3, <2>4, Consumers DEF InitFresh
  <2>5. CASE InitTaken
    <3>1. [uid |-> 2, spec |-> Foreign, replicas |-> 0] \in Deployments
      BY Constants DEF Deployments, Specs
    <3> QED
      BY <2>2, <2>3, <2>5, <3>1, Consumers DEF InitTaken
  <2> QED
    BY <1>3, <2>4, <2>5
<1>4. ASSUME InitLegacy
      PROVE  /\ dep \in [Names -> Deployments] /\ dep[Old] = OldAtStart(0)
             /\ dep[New] = [uid |-> 2, spec |-> Legacy.spec, replicas |-> 1]
             /\ ray = Legacy.spec /\ Saved /\ journal = Legacy
             /\ Legacy.spec \in Configs /\ Legacy.state = "legacy"
             /\ Legacy.consumerUid = 0 /\ Legacy.previousUid = 0
             /\ Legacy.previousReplicas = setup.replicas
  <2>1. [uid |-> 2, spec |-> Legacy.spec, replicas |-> 1] \in Deployments
    BY Constants DEF Deployments, Specs
  <2>2. OldAtStart(0) \in Deployments
    BY <1>2, Constants
  <2>3. /\ Legacy.state = "legacy" /\ Legacy.consumerUid = 0 /\ Legacy.previousUid = 0
        /\ Legacy.previousReplicas = setup.replicas
    BY DEF Legacy
  <2>4. Legacy # NoJournal
    BY <2>3 DEF NoJournal
  <2> QED
    BY <1>4, <2>1, <2>2, <2>3, <2>4, Consumers, Constants DEF InitLegacy, Saved
<1>5. Init => InitFresh \/ InitTaken \/ InitLegacy
  BY DEF Init
<1>6. ClusterOK
  <2>1. dep \in [Names -> Deployments] /\ ray \in Specs
    BY <1>3, <1>4, <1>5 DEF Specs
  <2>2. check \in Checks
    BY NoCheckFacts DEF Init
  <2>3. /\ setup \in [migrate : BOOLEAN, replicas : 0..MaxReplicas]
        /\ uids \in Nat /\ jobs \in 0..1 /\ {paused, touched} \subseteq BOOLEAN
    BY DEF Init
  <2> QED
    BY <2>1, <2>2, <2>3 DEF ClusterOK
<1>7. BoundsOK /\ bounds.edits = 0
  <2>1. bounds = [commands |-> 0, faults |-> 0, kills |-> 0, edits |-> 0]
    BY DEF Init
  <2> QED
    BY <2>1, Constants DEF BoundsOK
<1>8. JournalOK
  <2>1. CASE InitLegacy
    <3>1. Legacy \in Journals
      BY <1>1, Constants DEF Legacy, Journals
    <3> QED
      BY <1>4, <2>1, <3>1 DEF JournalOK
  <2> QED
    BY <1>3, <1>5, <2>1 DEF JournalOK
<1>9. ScriptOK /\ seen.replicas = 0 /\ pc = "idle" /\ outcome = ""
  <2>1. NotSeen \in [uid : Nat, replicas : 0..MaxReplicas] /\ NotSeen.replicas = 0
    BY Constants DEF NotSeen
  <2> QED
    BY <2>1 DEF Init, ScriptOK
<1>10. AtPlace /\ Drained /\ SuccessIsTrue
  BY <1>9 DEF AtPlace, Drained, SuccessIsTrue, BeforeSwitch
<1>11. NothingBefore
  <2>1. NoJournal.previousReplicas = 0 /\ 0 \in 0..MaxReplicas
    BY Constants DEF NoJournal
  <2> QED
    BY <1>1, <1>2, <1>3, <1>4, <1>5, <1>9, <2>1 DEF NothingBefore
<1>12. Unedited /\ RolledBackIsBefore
  <2>1. CASE InitLegacy
    <3>1. setup.migrate => dep[Old].uid = 1
      BY <1>2, <1>4, <2>1, Constants
    <3>2. ValidTargets(journal)
      BY <1>4, <2>1, <3>1 DEF ValidTargets, Exists
    <3> QED
      BY <1>4, <2>1, <3>2 DEF Unedited, RolledBackIsBefore
  <2>2. CASE InitFresh \/ InitTaken
    <3>1. dep[Old].replicas = setup.replicas
      BY <1>1, <1>2, <1>3, <2>2
    <3>2. NoJournal.state = "none"
      BY DEF NoJournal
    <3> QED
      BY <1>3, <1>9, <2>2, <3>1, <3>2 DEF Unedited, BeforeSwitch, RolledBackIsBefore
  <2> QED
    BY <1>5, <2>1, <2>2
<1>13. NeverBoth /\ OneConfiguration
  <2>1. check.spec = NoSpec
    BY DEF Init, NoCheck
  <2>2. CASE InitLegacy
    <3>1. dep[Old].replicas = 0
      BY <1>2, <1>4, <2>2, Constants
    <3> QED
      BY <1>4, <2>1, <2>2, <3>1 DEF NeverBoth, OneConfiguration
  <2>3. CASE InitFresh \/ InitTaken
    BY <1>3, <2>1, <2>3 DEF NeverBoth, OneConfiguration
  <2> QED
    BY <1>5, <2>2, <2>3
<1> QED
  BY <1>6, <1>7, <1>8, <1>9, <1>10, <1>11, <1>12, <1>13 DEF IInv, TypeOK

-----------------------------------------------------------------------------
(* Installing *)

\* What steps that leave the Deployments and the journal alone keep.
LEMMA Undisturbed ==
  ASSUME IInv, SameCounts, UNCHANGED <<setup, dep, ray, uids, upstream, touched, journal>>,
         seen'.replicas = seen.replicas \/ seen'.replicas = 0
  PROVE  /\ JournalOK' /\ NeverBoth' /\ RolledBackIsBefore' /\ NothingBefore'
         /\ check' \in Checks => ClusterOK'
         /\ check'.spec \in {check.spec, NoSpec, Foreign} => OneConfiguration'
<1>1. /\ UNCHANGED <<setup, dep, ray, uids, paused, jobs, touched, journal>>
      /\ bounds'.edits = bounds.edits
  BY DEF SameCounts, upstream
<1>2. JournalOK' /\ (check' \in Checks => ClusterOK')
  BY <1>1 DEF IInv, TypeOK, JournalOK, ClusterOK, Saved
<1>3. NeverBoth' /\ RolledBackIsBefore' /\ NothingBefore'
  BY <1>1 DEF IInv, NeverBoth, RolledBackIsBefore, NothingBefore
<1>4. check'.spec \in {check.spec, NoSpec, Foreign} => OneConfiguration'
  BY <1>1 DEF IInv, OneConfiguration
<1> QED
  BY <1>2, <1>3, <1>4

\* A command that fails before it has changed a Deployment or the journal.
LEMMA Failed ==
  ASSUME IInv, SameCounts, UNCHANGED <<setup, dep, ray, uids, upstream, touched, journal>>,
         check' \in Checks, OneConfiguration', End("failed")
  PROVE  IInv'
<1>1. ScriptOK' /\ AtPlace' /\ pc' = "idle" /\ outcome' = "failed" /\ seen'.replicas = 0
  BY EndFacts
<1>2. Unedited' /\ Drained' /\ SuccessIsTrue'
  BY <1>1 DEF IInv, SameCounts, Unedited, Saved, ValidTargets, Exists, BeforeSwitch,
     Drained, SuccessIsTrue
<1> QED
  BY <1>1, <1>2, Undisturbed DEF IInv, TypeOK, SameCounts

\* Reading the cluster: the command ends, or remembers what it has read.
LEMMA PreflightStep == ASSUME IInv, Preflight PROVE IInv'
<1>1. SameCounts /\ UNCHANGED <<setup, dep, ray, check, uids, upstream, touched, journal>>
  BY FaultCounts DEF IInv, TypeOK, Preflight, Here, Still, NoWrite, cluster
<1>2. OneConfiguration' /\ check' \in Checks
  BY <1>1 DEF IInv, TypeOK, ClusterOK, OneConfiguration
<1>3. CASE End("failed")
  BY <1>1, <1>2, <1>3, Failed
<1>4. CASE ~End("failed")
  <2>1. /\ MayCreate /\ (setup.migrate => Exists(Old)) /\ pc = "preflight" /\ pc' = "decide"
        /\ UNCHANGED <<config, outcome>>
        /\ seen' = [uid |-> dep[Old].uid, replicas |-> dep[Old].replicas]
    BY <1>4 DEF Preflight, Here
  <2>2. seen' \in [uid : Nat, replicas : 0..MaxReplicas] /\ seen'.replicas = dep[Old].replicas
    BY <2>1, Consumers DEF IInv, TypeOK, ClusterOK, Deployments
  <2>3. TypeOK'
    BY <1>1, <2>1, <2>2 DEF IInv, TypeOK, ClusterOK, JournalOK, ScriptOK, SameCounts, Saved, upstream
  <2>4. AtPlace'
    BY <1>1, <2>1 DEF IInv, AtPlace, BeforeSwitch, MayCreate, Saved
  <2>5. NothingBefore'
    BY <1>1, <2>2 DEF IInv, NothingBefore, Absent
  <2>6. Unedited' /\ Drained' /\ SuccessIsTrue'
    BY <1>1, <2>1, <2>2 DEF IInv, SameCounts, Unedited, Saved, ValidTargets, Exists,
       BeforeSwitch, Drained, SuccessIsTrue, upstream
  <2>7. NeverBoth' /\ RolledBackIsBefore'
    BY <1>1 DEF IInv, SameCounts, NeverBoth, RolledBackIsBefore
  <2> QED
    BY <1>2, <2>3, <2>4, <2>5, <2>6, <2>7 DEF IInv
<1> QED
  BY <1>3, <1>4

\* A command that goes on without having changed a Deployment or the journal.
LEMMA GoesOn ==
  ASSUME IInv, SameCounts, UNCHANGED <<setup, dep, ray, uids, upstream, touched, journal>>,
         check' \in Checks, OneConfiguration', UNCHANGED <<config, seen, outcome>>,
         pc \in BeforeSwitch, pc' \in BeforeSwitch, AtPlace',
         pc' = "record" => seen.replicas = 0 \/ jobs = 0
  PROVE  IInv'
<1>1. pc' # "idle" /\ ScriptOK'
  BY DEF IInv, TypeOK, ScriptOK, BeforeSwitch
<1>2. Unedited' /\ Drained' /\ SuccessIsTrue'
  BY <1>1 DEF IInv, SameCounts, Unedited, Saved, ValidTargets, Exists, BeforeSwitch,
     Drained, SuccessIsTrue, upstream
<1> QED
  BY <1>1, <1>2, Undisturbed DEF IInv, TypeOK, SameCounts

\* An installed release is reported; otherwise the installation may begin.
LEMMA DecideStep == ASSUME IInv, Decide PROVE IInv'
<1>1. /\ SameCounts /\ UNCHANGED <<setup, dep, ray, check, uids, upstream, touched>>
      /\ pc = "decide"
  BY FaultCounts DEF IInv, TypeOK, Decide, Here, Still, cluster
<1>2. OneConfiguration' /\ check' \in Checks
  BY <1>1 DEF IInv, TypeOK, ClusterOK, OneConfiguration
<1>3. CASE NoWrite /\ End("failed")
  BY <1>1, <1>2, <1>3, Failed DEF NoWrite
<1>4. CASE MayInstall /\ NoWrite /\ Goto("create")
  <2>1. /\ UNCHANGED <<config, seen, outcome, journal>> /\ pc' = "create"
        /\ dep[New].replicas = 0
    BY <1>4 DEF NoWrite, Goto, MayInstall
  <2>2. AtPlace'
    BY <1>1, <2>1 DEF IInv, AtPlace, BeforeSwitch, MayCreate, Saved
  <2> QED
    BY <1>1, <1>2, <2>1, <2>2, GoesOn DEF BeforeSwitch
<1>5. CASE Already /\ AlreadySaved /\ End("applied")
  <2>1. ScriptOK' /\ AtPlace' /\ pc' = "idle" /\ outcome' = "applied" /\ seen'.replicas = 0
    BY <1>5, EndFacts
  <2>2. /\ JournalOK' /\ (Saved' <=> Saved)
        /\ journal'.previousReplicas = journal.previousReplicas
        /\ journal'.state = journal.state \/ journal'.state = "active"
        /\ ValidTargets(journal) => ValidTargets(journal')
    <3>1. CASE LegacyActive
      <4>1. Saved /\ journal \in Journals
        BY <3>1 DEF IInv, TypeOK, JournalOK, LegacyActive, Saved, NoJournal
      <4>2. /\ seen.uid = dep[Old].uid
            /\ dep[New].uid \in Nat /\ dep[Old].uid \in Nat
        BY <1>1, Consumers DEF IInv, TypeOK, ClusterOK, Deployments, AtPlace
      <4>3. /\ journal' \in Journals /\ journal'.state = "active"
            /\ journal'.spec = journal.spec /\ journal'.consumerUid = dep[New].uid
            /\ journal'.previousUid = dep[Old].uid
            /\ journal'.previousReplicas = journal.previousReplicas
        BY <1>5, <3>1, <4>1, <4>2 DEF Journals, AlreadySaved
      <4>4. Saved'
        BY <4>3 DEF Saved, NoJournal
      <4> QED
        BY <4>1, <4>3, <4>4 DEF JournalOK, ValidTargets
    <3>2. CASE ~LegacyActive
      BY <1>5, <3>2 DEF IInv, TypeOK, JournalOK, Saved, AlreadySaved
    <3> QED
      BY <3>1, <3>2
  <2>3. dep[New].replicas > 0 /\ dep[Old].replicas = 0
    BY <1>5, Consumers DEF IInv, NeverBoth, TypeOK, ClusterOK, Deployments, Already
  <2>4. SuccessIsTrue'
    BY <1>1, <2>1, <2>3 DEF SuccessIsTrue
  <2>5. ClusterOK' /\ NothingBefore' /\ NeverBoth'
    BY <1>1, <2>1, <2>2 DEF IInv, TypeOK, ClusterOK, NothingBefore, NeverBoth, upstream
  <2>6. Unedited' /\ Drained' /\ RolledBackIsBefore'
    BY <1>1, <2>1, <2>2 DEF IInv, SameCounts, Unedited, Drained, RolledBackIsBefore,
       ValidTargets, Exists, BeforeSwitch
  <2> QED
    BY <1>1, <1>2, <2>1, <2>2, <2>4, <2>5, <2>6 DEF IInv, TypeOK, SameCounts
<1> QED
  BY <1>3, <1>4, <1>5 DEF Decide

\* Applying the objects one by one, with the new Consumer at no replicas.
LEMMA CreateStep == ASSUME IInv, Create PROVE IInv'
<1>1. /\ SameCounts /\ UNCHANGED <<setup, upstream, touched, journal>>
      /\ pc = "create" /\ MayCreate /\ config \in Configs /\ dep[New].replicas = 0
      /\ Saved => journal.spec = config
  BY FaultCounts DEF IInv, TypeOK, Create, Here, NoWrite, AtPlace, BeforeSwitch
<1>2. /\ dep' \in [Names -> Deployments] /\ uids' \in Nat /\ dep'[Old] = dep[Old]
      /\ dep'[New].replicas = 0 /\ dep'[New].spec \in {dep[New].spec, config}
      /\ Exists(New) => dep'[New].uid = dep[New].uid
  <2>1. CASE NewApplied /\ Exists(New)
    BY <1>1, <2>1, Constants, Consumers DEF IInv, TypeOK, ClusterOK, Deployments, Specs, NewApplied
  <2>2. CASE NewApplied /\ ~Exists(New)
    <3>1. [uid |-> uids + 1, spec |-> config, replicas |-> 0] \in Deployments
      BY <1>1, Constants DEF IInv, TypeOK, ClusterOK, Deployments, Specs
    <3> QED
      BY <2>2, <3>1, Consumers DEF IInv, TypeOK, ClusterOK, NewApplied
  <2>3. CASE UNCHANGED <<dep, uids>>
    BY <1>1, <2>3 DEF IInv, TypeOK, ClusterOK
  <2> QED
    BY <2>1, <2>2, <2>3 DEF Create, Still, cluster
<1>3. ray' \in {ray, config} /\ check' = check
  BY DEF Create, RayApplied, Still, cluster
<1>4. ClusterOK' /\ JournalOK'
  BY <1>1, <1>2, <1>3 DEF IInv, TypeOK, ClusterOK, JournalOK, Saved, Specs, upstream
<1>5. OneConfiguration' /\ {ray', dep'[New].spec, check'.spec} \subseteq {config, NoSpec}
  BY <1>1, <1>2, <1>3 DEF MayCreate, OneConfiguration
<1>6. NeverBoth'
  BY <1>2 DEF NeverBoth
<1>7. Saved => (ValidTargets(journal) => ValidTargets(journal)')
  BY <1>1, <1>2, Consumers DEF ValidTargets, Exists
<1>8. RolledBackIsBefore'
  BY <1>1, <1>2 DEF IInv, RolledBackIsBefore, SameCounts
<1>9. CASE End("failed")
  <2>1. ScriptOK' /\ AtPlace' /\ pc' = "idle" /\ outcome' = "failed" /\ seen'.replicas = 0
    BY <1>9, EndFacts
  <2>2. NothingBefore' /\ Unedited' /\ Drained' /\ SuccessIsTrue'
    BY <1>1, <1>2, <1>7, <2>1 DEF IInv, SameCounts, NothingBefore, Unedited, Saved,
       BeforeSwitch, Drained, SuccessIsTrue
  <2> QED
    BY <1>1, <1>4, <1>5, <1>6, <1>8, <2>1, <2>2 DEF IInv, TypeOK, SameCounts
<1>10. CASE Goto("uncheck")
  <2>1. pc' = "uncheck" /\ UNCHANGED <<config, seen, outcome>>
    BY <1>10 DEF Goto
  <2>2. ScriptOK' /\ AtPlace'
    BY <1>1, <1>5, <2>1 DEF IInv, TypeOK, ScriptOK, AtPlace, BeforeSwitch, MayCreate, Saved
  <2>3. NothingBefore' /\ Unedited' /\ Drained' /\ SuccessIsTrue'
    BY <1>1, <1>2, <1>7, <2>1 DEF IInv, SameCounts, NothingBefore, Unedited, Saved,
       BeforeSwitch, Drained, SuccessIsTrue, upstream
  <2> QED
    BY <1>1, <1>4, <1>5, <1>6, <1>8, <2>2, <2>3 DEF IInv, TypeOK, SameCounts
<1> QED
  BY <1>9, <1>10 DEF Create

\* The Job of an earlier attempt is deleted.
LEMMA UncheckStep == ASSUME IInv, Uncheck PROVE IInv'
<1>1. /\ SameCounts /\ UNCHANGED <<setup, dep, ray, uids, upstream, touched, journal>>
      /\ pc = "uncheck" /\ check' \in {check, NoCheck}
  BY FaultCounts DEF IInv, TypeOK, Uncheck, Here, NoWrite
<1>2. check' \in Checks /\ check'.spec \in {check.spec, NoSpec, Foreign}
  BY <1>1, NoCheckFacts DEF IInv, TypeOK, ClusterOK
<1>3. OneConfiguration'
  BY <1>1, <1>2 DEF IInv, OneConfiguration
<1>4. CASE End("failed")
  BY <1>1, <1>2, <1>3, <1>4, Failed
<1>5. CASE check' = NoCheck /\ Goto("check")
  <2>1. pc' = "check" /\ UNCHANGED <<config, seen, outcome>>
    BY <1>5 DEF Goto
  <2>2. AtPlace'
    BY <1>1, <1>5, <2>1, NoCheckFacts DEF IInv, AtPlace, BeforeSwitch, MayCreate, Saved
  <2> QED
    BY <1>1, <1>2, <1>3, <2>1, <2>2, GoesOn DEF BeforeSwitch
<1> QED
  BY <1>4, <1>5 DEF Uncheck

\* The Job of this command is created.
LEMMA CreateCheckStep == ASSUME IInv, CreateCheck PROVE IInv'
<1>1. /\ SameCounts /\ UNCHANGED <<setup, dep, ray, uids, upstream, touched, journal>>
      /\ pc = "check" /\ check' \in {check, NewCheck}
  BY FaultCounts DEF IInv, TypeOK, CreateCheck, Here, NoWrite
<1>2. MayCreate /\ config \in Configs /\ (Saved => journal.spec = config)
  BY <1>1 DEF IInv, AtPlace, BeforeSwitch
<1>3. /\ NewCheck \in Checks /\ NewCheck.spec = config
      /\ NewCheck.command = bounds.commands
  BY <1>2 DEF IInv, TypeOK, BoundsOK, NewCheck, Checks, Specs
<1>4. check' \in Checks /\ check'.spec \in {config, NoSpec}
  BY <1>1, <1>2, <1>3 DEF IInv, TypeOK, ClusterOK, MayCreate
<1>5. OneConfiguration'
  BY <1>1, <1>2, <1>4 DEF OneConfiguration, MayCreate
<1>6. CASE End("failed")
  BY <1>1, <1>4, <1>5, <1>6, Failed
<1>7. CASE check' = NewCheck /\ Goto("poll")
  <2>1. pc' = "poll" /\ UNCHANGED <<config, seen, outcome>>
    BY <1>7 DEF Goto
  <2>2. AtPlace'
    BY <1>1, <1>2, <1>3, <1>7, <2>1 DEF AtPlace, BeforeSwitch, Saved, SameCounts
  <2> QED
    BY <1>1, <1>4, <1>5, <2>1, <2>2, GoesOn DEF BeforeSwitch
<1> QED
  BY <1>6, <1>7 DEF CreateCheck

\* The command goes on only with a Job that is complete.
LEMMA PollStep == ASSUME IInv, Poll PROVE IInv'
<1>1. /\ SameCounts /\ UNCHANGED <<setup, dep, ray, check, uids, upstream, touched, journal>>
      /\ pc = "poll"
  BY FaultCounts DEF IInv, TypeOK, Poll, Here, Still, NoWrite, cluster
<1>2. OneConfiguration' /\ check \in Checks
  BY <1>1 DEF IInv, TypeOK, ClusterOK, OneConfiguration
<1>3. CASE End("failed")
  BY <1>1, <1>2, <1>3, Failed
<1>4. CASE check.status = "complete" /\ Goto("probe")
  <2>1. pc' = "probe" /\ UNCHANGED <<config, seen, outcome>>
    BY <1>4 DEF Goto
  <2>2. check = [spec |-> config, status |-> "complete", command |-> bounds.commands]
    BY <1>1, <1>2, <1>4 DEF IInv, AtPlace, Checks
  <2>3. AtPlace'
    BY <1>1, <2>1, <2>2 DEF IInv, AtPlace, BeforeSwitch, Saved, SameCounts
  <2> QED
    BY <1>1, <1>2, <2>1, <2>3, GoesOn DEF BeforeSwitch
<1> QED
  BY <1>3, <1>4 DEF Poll

\* The old Consumer is asked for active jobs.
LEMMA ProbeStep == ASSUME IInv, Probe PROVE IInv'
<1>1. /\ SameCounts /\ UNCHANGED <<setup, dep, ray, check, uids, upstream, touched, journal>>
      /\ pc = "probe"
  BY FaultCounts DEF IInv, TypeOK, Probe, Here, Still, NoWrite, cluster
<1>2. OneConfiguration' /\ check' \in Checks
  BY <1>1 DEF IInv, TypeOK, ClusterOK, OneConfiguration
<1>3. CASE End("failed")
  BY <1>1, <1>2, <1>3, Failed
<1>4. CASE (seen.replicas = 0 \/ jobs = 0) /\ Goto("record")
  <2>1. pc' = "record" /\ UNCHANGED <<config, seen, outcome>>
    BY <1>4 DEF Goto
  <2>2. AtPlace'
    BY <1>1, <2>1 DEF IInv, AtPlace, BeforeSwitch, Saved, SameCounts
  <2> QED
    BY <1>1, <1>2, <1>4, <2>1, <2>2, GoesOn DEF BeforeSwitch
<1> QED
  BY <1>3, <1>4 DEF Probe

-----------------------------------------------------------------------------
(* Switching and restoring *)

\* The switch is recorded, with the targets that are there.
LEMMA RecordStep == ASSUME IInv, Record PROVE IInv'
<1>1. /\ SameCounts /\ UNCHANGED <<setup, dep, ray, check, uids, upstream, touched>>
      /\ pc = "record"
  BY FaultCounts DEF IInv, TypeOK, Record, Here, Still, cluster
<1>2. OneConfiguration' /\ check' \in Checks
  BY <1>1 DEF IInv, TypeOK, ClusterOK, OneConfiguration
<1>3. CASE ~ValidTargets(ToSave)
  BY <1>1, <1>2, <1>3, Failed DEF Record, NoWrite
<1>4. CASE ValidTargets(ToSave)
  <2>1. /\ journal' = [ToSave EXCEPT !.state = "switching"] /\ pc' = "stop"
        /\ UNCHANGED <<config, seen, outcome>>
    BY <1>4 DEF Record, Goto
  <2>2. /\ config \in Configs /\ (Saved => journal.spec = config)
        /\ check = [spec |-> config, status |-> "complete", command |-> bounds.commands]
        /\ ~touched => seen.replicas = dep[Old].replicas
        /\ seen.replicas = 0 \/ jobs = 0
        /\ seen.uid \in Nat /\ seen.replicas \in 0..MaxReplicas
    BY <1>1 DEF IInv, TypeOK, ScriptOK, AtPlace, BeforeSwitch, Drained
  <2>3. /\ JournalOK' /\ Saved' /\ journal'.state = "switching" /\ journal'.spec = config
        /\ journal'.consumerUid = ToSave.consumerUid
        /\ journal'.previousUid = ToSave.previousUid
        /\ journal'.previousReplicas = ToSave.previousReplicas
        /\ ToSave.spec = config
    <3>1. CASE Saved
      BY <2>1, <2>2, <3>1, StateWritten DEF IInv, TypeOK, ToSave
    <3>2. CASE ~Saved
      <4>1. /\ ToSave = [state |-> "none", spec |-> config, consumerUid |-> dep[New].uid,
                         previousUid |-> seen.uid, previousReplicas |-> seen.replicas]
            /\ dep[New].uid \in Nat
        BY <3>2, Consumers DEF IInv, TypeOK, ClusterOK, Deployments, ToSave, NoJournal
      <4>2. journal' = [state |-> "switching", spec |-> config, consumerUid |-> dep[New].uid,
                        previousUid |-> seen.uid, previousReplicas |-> seen.replicas]
        BY <2>1, <4>1
      <4>3. journal' \in Journals /\ journal' # NoJournal
        BY <2>2, <4>1, <4>2 DEF Journals, NoJournal
      <4> QED
        BY <4>1, <4>2, <4>3 DEF JournalOK, Saved
    <3> QED
      BY <3>1, <3>2
  <2>4. ValidTargets(journal)'
    BY <1>1, <1>4, <2>3 DEF ValidTargets, Exists
  <2>5. TypeOK'
    BY <1>1, <1>2, <2>1, <2>3 DEF IInv, TypeOK, ClusterOK, ScriptOK, SameCounts, upstream
  <2>6. AtPlace'
    BY <1>1, <2>1, <2>2, <2>3, <2>4 DEF AtPlace, BeforeSwitch, SameCounts
  <2>7. ToSave.previousReplicas = IF Saved THEN journal.previousReplicas ELSE seen.replicas
    BY DEF ToSave, NoJournal
  <2>8. NothingBefore' /\ Unedited'
    BY <1>1, <2>1, <2>3, <2>4, <2>7 DEF IInv, SameCounts, NothingBefore, Unedited, BeforeSwitch
  <2>9. Drained' /\ NeverBoth' /\ SuccessIsTrue' /\ RolledBackIsBefore'
    BY <1>1, <2>1, <2>2, <2>3 DEF IInv, Drained, BeforeSwitch, NeverBoth, SuccessIsTrue,
       RolledBackIsBefore, upstream
  <2> QED
    BY <1>2, <2>5, <2>6, <2>8, <2>9 DEF IInv
<1> QED
  BY <1>3, <1>4

\* A switch or its restoration scales one of the two Consumers, or none, and
\* goes to a place that does not install.
LEMMA Rescaled ==
  ASSUME IInv, SameCounts, UNCHANGED <<setup, ray, check, uids, upstream, touched, journal>>,
         dep' \in [Names -> Deployments],
         \A n \in Names : dep'[n].uid = dep[n].uid /\ dep'[n].spec = dep[n].spec,
         ~setup.migrate => dep'[Old] = dep[Old],
         seen'.replicas = seen.replicas \/ seen'.replicas = 0,
         Saved, ScriptOK', pc' \in {"start", "finish", "restore", "restore_old", "restored"}
                           \/ (pc' = "idle" /\ outcome' = "failed"),
         pc \in {"stop", "start", "restore", "restore_old"}
  PROVE  /\ TypeOK' /\ NothingBefore' /\ Unedited' /\ Drained' /\ OneConfiguration'
         /\ SuccessIsTrue' /\ (ValidTargets(journal) => ValidTargets(journal)')
<1>1. ValidTargets(journal) => ValidTargets(journal)'
  BY Consumers DEF ValidTargets, Exists
<1>2. TypeOK'
  BY DEF IInv, TypeOK, ClusterOK, JournalOK, SameCounts, Saved, upstream
<1>3. NothingBefore' /\ Unedited'
  BY <1>1 DEF IInv, SameCounts, NothingBefore, Unedited, Saved
<1>4. Drained' /\ SuccessIsTrue'
  BY DEF IInv, Drained, BeforeSwitch, SuccessIsTrue, upstream
<1>5. OneConfiguration'
  BY Consumers DEF IInv, OneConfiguration
<1> QED
  BY <1>1, <1>2, <1>3, <1>4, <1>5

\* The old Consumer is scaled down, or the switch is restored.
LEMMA StopOldStep == ASSUME IInv, StopOld PROVE IInv'
<1>1. /\ SameCounts /\ UNCHANGED <<setup, upstream, touched, journal, config, seen, outcome>>
      /\ pc = "stop" /\ pc' \in {"start", "restore"}
  BY FaultCounts DEF IInv, TypeOK, StopOld, Here, NoWrite, Scale, Goto
<1>2. /\ Saved /\ ValidTargets(journal) /\ journal.state = "switching" /\ config \in Configs
      /\ journal.spec = config
      /\ check = [spec |-> config, status |-> "complete", command |-> bounds.commands]
  BY <1>1 DEF IInv, AtPlace
<1>3. /\ dep' \in [Names -> Deployments] /\ UNCHANGED <<ray, check, uids>>
      /\ \A n \in Names : dep'[n].uid = dep[n].uid /\ dep'[n].spec = dep[n].spec
      /\ dep'[Old].replicas \in {0, dep[Old].replicas} /\ dep'[New] = dep[New]
      /\ pc' = "start" => dep'[Old].replicas = 0
      /\ ~setup.migrate => dep'[Old] = dep[Old]
  <2>1. CASE setup.migrate /\ Scaled(Old, 0)
    BY <2>1, ScaledFacts, Constants, Consumers DEF IInv, TypeOK
  <2>2. CASE setup.migrate /\ Still /\ pc' = "restore"
    BY <2>2 DEF IInv, TypeOK, ClusterOK, Still, cluster
  <2>3. CASE ~setup.migrate /\ Still
    <3>1. dep[Old].replicas = 0
      BY <2>3 DEF IInv, NothingBefore, Absent
    <3> QED
      BY <2>3, <3>1 DEF IInv, TypeOK, ClusterOK, Still, cluster
  <2> QED
    BY <2>1, <2>2, <2>3 DEF StopOld, Scale, Goto
<1>4. ScriptOK'
  BY <1>1 DEF IInv, TypeOK, ScriptOK
<1>5. /\ TypeOK' /\ NothingBefore' /\ Unedited' /\ Drained' /\ OneConfiguration'
      /\ SuccessIsTrue' /\ ValidTargets(journal)'
  BY <1>1, <1>2, <1>3, <1>4, Rescaled
<1>6. AtPlace'
  BY <1>1, <1>2, <1>3, <1>5 DEF AtPlace, BeforeSwitch, SameCounts, Saved
<1>7. NeverBoth' /\ RolledBackIsBefore'
  BY <1>1, <1>2, <1>3 DEF IInv, NeverBoth, RolledBackIsBefore
<1> QED
  BY <1>5, <1>6, <1>7 DEF IInv

\* The new Consumer is scaled up, or the switch is restored.
LEMMA StartNewStep == ASSUME IInv, StartNew PROVE IInv'
<1>1. /\ SameCounts /\ UNCHANGED <<setup, upstream, touched, journal, config, seen, outcome>>
      /\ pc = "start" /\ pc' \in {"finish", "restore"}
  BY FaultCounts DEF IInv, TypeOK, StartNew, Here, NoWrite, Scale, Goto
<1>2. /\ Saved /\ ValidTargets(journal) /\ journal.state = "switching" /\ config \in Configs
      /\ journal.spec = config /\ dep[Old].replicas = 0
  BY <1>1 DEF IInv, AtPlace
<1>3. /\ dep' \in [Names -> Deployments] /\ UNCHANGED <<ray, check, uids>>
      /\ \A n \in Names : dep'[n].uid = dep[n].uid /\ dep'[n].spec = dep[n].spec
      /\ dep'[Old] = dep[Old]
      /\ pc' = "finish" => dep'[New].replicas > 0
  <2>1. CASE Scaled(New, 1)
    BY <2>1, ScaledFacts, Constants, Consumers DEF IInv, TypeOK
  <2>2. CASE Still /\ pc' = "restore"
    BY <2>2 DEF IInv, TypeOK, ClusterOK, Still, cluster
  <2> QED
    BY <2>1, <2>2 DEF StartNew, Scale, Goto
<1>4. ScriptOK'
  BY <1>1 DEF IInv, TypeOK, ScriptOK
<1>5. /\ TypeOK' /\ NothingBefore' /\ Unedited' /\ Drained' /\ OneConfiguration'
      /\ SuccessIsTrue' /\ ValidTargets(journal)'
  BY <1>1, <1>2, <1>3, <1>4, Rescaled
<1>6. AtPlace'
  BY <1>1, <1>2, <1>3, <1>5 DEF AtPlace, BeforeSwitch, SameCounts, Saved
<1>7. NeverBoth' /\ RolledBackIsBefore'
  BY <1>1, <1>2, <1>3 DEF IInv, NeverBoth, RolledBackIsBefore
<1> QED
  BY <1>5, <1>6, <1>7 DEF IInv

\* The switch is recorded as complete.
LEMMA FinishStep == ASSUME IInv, Finish PROVE IInv'
<1>1. /\ SameCounts /\ UNCHANGED <<setup, dep, ray, check, uids, upstream, touched>>
      /\ pc = "finish"
  BY FaultCounts DEF IInv, TypeOK, Finish, Here, Still, cluster
<1>2. OneConfiguration' /\ check' \in Checks
  BY <1>1 DEF IInv, TypeOK, ClusterOK, OneConfiguration
<1>3. CASE NoWrite /\ End("failed")
  BY <1>1, <1>2, <1>3, Failed DEF NoWrite
<1>4. CASE journal' = [journal EXCEPT !.state = "active"] /\ End("applied")
  <2>1. ScriptOK' /\ AtPlace' /\ pc' = "idle" /\ outcome' = "applied" /\ seen'.replicas = 0
    BY <1>4, EndFacts
  <2>2. Saved /\ ValidTargets(journal) /\ dep[New].replicas > 0
    BY <1>1 DEF IInv, AtPlace
  <2>3. /\ JournalOK' /\ Saved' /\ journal'.state = "active"
        /\ journal'.spec = journal.spec /\ journal'.consumerUid = journal.consumerUid
        /\ journal'.previousUid = journal.previousUid
        /\ journal'.previousReplicas = journal.previousReplicas
    BY <1>4, <2>2, StateWritten DEF IInv, TypeOK
  <2>4. ValidTargets(journal)'
    BY <1>1, <2>2, <2>3 DEF ValidTargets, Exists
  <2>5. dep[Old].replicas = 0
    BY <2>2, Constants DEF IInv, NeverBoth
  <2>6. NothingBefore' /\ Unedited' /\ Drained' /\ RolledBackIsBefore'
    BY <1>1, <2>1, <2>2, <2>3, <2>4 DEF IInv, SameCounts, NothingBefore, Unedited, Drained,
       BeforeSwitch, RolledBackIsBefore
  <2>7. SuccessIsTrue' /\ NeverBoth'
    BY <1>1, <2>1, <2>2, <2>5 DEF SuccessIsTrue, NeverBoth
  <2>8. ClusterOK'
    BY <1>1 DEF IInv, TypeOK, ClusterOK, upstream
  <2> QED
    BY <1>1, <1>2, <2>1, <2>3, <2>6, <2>7, <2>8 DEF IInv, TypeOK, SameCounts
<1> QED
  BY <1>3, <1>4 DEF Finish

\* Going back, the new Consumer is stopped first.
LEMMA RestoreNewStep == ASSUME IInv, RestoreNew PROVE IInv'
<1>1. /\ SameCounts /\ UNCHANGED <<setup, upstream, touched, journal>> /\ pc = "restore"
  BY FaultCounts DEF IInv, TypeOK, RestoreNew, Here, NoWrite, Scale
<1>2. Saved
  BY <1>1 DEF IInv, AtPlace
<1>3. CASE ~ValidTargets(journal)
  <2>1. UNCHANGED <<dep, ray, check, uids>> /\ End("failed")
    BY <1>3 DEF RestoreNew, Still, cluster
  <2>2. OneConfiguration' /\ check' \in Checks
    BY <2>1 DEF IInv, TypeOK, ClusterOK, OneConfiguration
  <2> QED
    BY <1>1, <2>1, <2>2, Failed
<1>4. CASE ValidTargets(journal)
  <2>1. /\ dep' \in [Names -> Deployments] /\ UNCHANGED <<ray, check, uids>>
        /\ \A n \in Names : dep'[n].uid = dep[n].uid /\ dep'[n].spec = dep[n].spec
        /\ dep'[Old] = dep[Old] /\ dep'[New].replicas \in {0, dep[New].replicas}
    <3>1. CASE Scaled(New, 0)
      BY <3>1, ScaledFacts, Constants, Consumers DEF IInv, TypeOK
    <3>2. CASE Still
      BY <3>2 DEF IInv, TypeOK, ClusterOK, Still, cluster
    <3> QED
      BY <1>4, <3>1, <3>2 DEF RestoreNew, Scale
  <2>2. NeverBoth' /\ RolledBackIsBefore'
    BY <1>1, <2>1 DEF IInv, NeverBoth, RolledBackIsBefore, SameCounts
  <2>3. CASE End("failed")
    <3>1. ScriptOK' /\ AtPlace' /\ pc' = "idle" /\ outcome' = "failed" /\ seen'.replicas = 0
      BY <2>3, EndFacts
    <3>2. /\ TypeOK' /\ NothingBefore' /\ Unedited' /\ Drained' /\ OneConfiguration'
          /\ SuccessIsTrue'
      BY <1>1, <1>2, <2>1, <3>1, Rescaled
    <3> QED
      BY <2>2, <3>1, <3>2 DEF IInv
  <2>4. CASE Scaled(New, 0) /\ Goto("restore_old")
    <3>1. pc' = "restore_old" /\ UNCHANGED <<config, seen, outcome>>
      BY <2>4 DEF Goto
    <3>2. dep'[New].replicas = 0
      BY <2>4, ScaledFacts, Constants, Consumers DEF IInv, TypeOK
    <3>3. ScriptOK'
      BY <1>1, <3>1 DEF IInv, TypeOK, ScriptOK
    <3>4. /\ TypeOK' /\ NothingBefore' /\ Unedited' /\ Drained' /\ OneConfiguration'
          /\ SuccessIsTrue' /\ ValidTargets(journal)'
      BY <1>1, <1>2, <1>4, <2>1, <3>1, <3>3, Rescaled
    <3>5. AtPlace'
      BY <1>1, <1>2, <3>1, <3>2, <3>4 DEF AtPlace, BeforeSwitch, Saved
    <3> QED
      BY <2>2, <3>4, <3>5 DEF IInv
  <2> QED
    BY <1>4, <2>3, <2>4 DEF RestoreNew, Scale
<1> QED
  BY <1>3, <1>4

\* The old Consumer is started only when the new one is stopped.
LEMMA RestoreOldStep == ASSUME IInv, RestoreOld PROVE IInv'
<1>1. /\ SameCounts /\ UNCHANGED <<setup, upstream, touched, journal>> /\ pc = "restore_old"
  BY FaultCounts DEF IInv, TypeOK, RestoreOld, Here, NoWrite, Scale
<1>2. Saved /\ ValidTargets(journal) /\ dep[New].replicas = 0
  BY <1>1 DEF IInv, AtPlace
<1>3. journal.previousReplicas \in 0..MaxReplicas
  BY <1>2 DEF IInv, TypeOK, JournalOK, Journals
<1>4. /\ dep' \in [Names -> Deployments] /\ UNCHANGED <<ray, check, uids>>
      /\ \A n \in Names : dep'[n].uid = dep[n].uid /\ dep'[n].spec = dep[n].spec
      /\ dep'[New] = dep[New]
      /\ dep'[Old].replicas \in {journal.previousReplicas, dep[Old].replicas}
      /\ pc' = "restored" => dep'[Old].replicas = journal.previousReplicas
      /\ ~setup.migrate => dep'[Old] = dep[Old]
  <2>1. CASE setup.migrate /\ Scaled(Old, journal.previousReplicas)
    BY <1>3, <2>1, ScaledFacts, Consumers DEF IInv, TypeOK
  <2>2. CASE setup.migrate /\ Still /\ End("failed")
    BY <2>2 DEF IInv, TypeOK, ClusterOK, Still, cluster, End
  <2>3. CASE ~setup.migrate /\ Still
    <3>1. dep[Old].replicas = 0 /\ journal.previousReplicas = 0
      BY <2>3 DEF IInv, NothingBefore, Absent
    <3> QED
      BY <2>3, <3>1 DEF IInv, TypeOK, ClusterOK, Still, cluster
  <2> QED
    BY <2>1, <2>2, <2>3 DEF RestoreOld, Scale
<1>5. NeverBoth'
  BY <1>2, <1>4 DEF NeverBoth
<1>6. RolledBackIsBefore'
  BY <1>1, <1>2, <1>4 DEF IInv, RolledBackIsBefore, Unedited, SameCounts
<1>7. CASE End("failed")
  <2>1. ScriptOK' /\ AtPlace' /\ pc' = "idle" /\ outcome' = "failed" /\ seen'.replicas = 0
    BY <1>7, EndFacts
  <2>2. /\ TypeOK' /\ NothingBefore' /\ Unedited' /\ Drained' /\ OneConfiguration'
        /\ SuccessIsTrue'
    BY <1>1, <1>2, <1>4, <2>1, Rescaled
  <2> QED
    BY <1>5, <1>6, <2>1, <2>2 DEF IInv
<1>8. CASE Goto("restored")
  <2>1. pc' = "restored" /\ UNCHANGED <<config, seen, outcome>>
    BY <1>8 DEF Goto
  <2>2. ScriptOK'
    BY <1>1, <2>1 DEF IInv, TypeOK, ScriptOK
  <2>3. /\ TypeOK' /\ NothingBefore' /\ Unedited' /\ Drained' /\ OneConfiguration'
        /\ SuccessIsTrue' /\ ValidTargets(journal)'
    BY <1>1, <1>2, <1>4, <2>1, <2>2, Rescaled
  <2>4. AtPlace'
    BY <1>1, <1>2, <1>4, <2>1, <2>3 DEF AtPlace, BeforeSwitch, Saved
  <2> QED
    BY <1>5, <1>6, <2>3, <2>4 DEF IInv
<1> QED
  BY <1>7, <1>8 DEF RestoreOld, Scale

\* The rollback is recorded as complete.
LEMMA RestoredStep == ASSUME IInv, Restored PROVE IInv'
<1>1. /\ SameCounts /\ UNCHANGED <<setup, dep, ray, check, uids, upstream, touched>>
      /\ pc = "restored"
  BY FaultCounts DEF IInv, TypeOK, Restored, Here, Still, cluster
<1>2. /\ Saved /\ ValidTargets(journal) /\ dep[New].replicas = 0
      /\ dep[Old].replicas = journal.previousReplicas
  BY <1>1 DEF IInv, AtPlace
<1>3. /\ JournalOK' /\ Saved' /\ journal'.state = "rolled_back"
      /\ journal'.spec = journal.spec /\ journal'.consumerUid = journal.consumerUid
      /\ journal'.previousUid = journal.previousUid
      /\ journal'.previousReplicas = journal.previousReplicas
  BY <1>2, StateWritten DEF IInv, TypeOK, Restored
<1>4. /\ ScriptOK' /\ AtPlace' /\ pc' = "idle" /\ seen'.replicas = 0
      /\ outcome' \in {"rolled_back", "failed"}
  BY EndFacts DEF Restored
<1>5. ValidTargets(journal)'
  BY <1>1, <1>2, <1>3 DEF ValidTargets, Exists
<1>6. NothingBefore' /\ Unedited' /\ Drained'
  BY <1>1, <1>2, <1>3, <1>4, <1>5 DEF IInv, SameCounts, NothingBefore, Unedited, Drained,
     BeforeSwitch
<1>7. SuccessIsTrue' /\ NeverBoth'
  BY <1>1, <1>2, <1>3, <1>4 DEF SuccessIsTrue, NeverBoth
<1>8. RolledBackIsBefore'
  BY <1>1, <1>2 DEF IInv, Unedited, RolledBackIsBefore, SameCounts
<1>9. ClusterOK' /\ OneConfiguration'
  BY <1>1 DEF IInv, TypeOK, ClusterOK, OneConfiguration, upstream
<1> QED
  BY <1>1, <1>3, <1>4, <1>6, <1>7, <1>8, <1>9 DEF IInv, TypeOK, SameCounts

\* A killed command leaves the cluster and the journal as they are.
LEMMA KillStep == ASSUME IInv, Kill PROVE IInv'
<1>1. SameCounts /\ UNCHANGED <<setup, dep, ray, check, uids, upstream, touched, journal>>
  BY FaultCounts DEF IInv, TypeOK, Kill, cluster
<1>2. OneConfiguration' /\ check' \in Checks
  BY <1>1 DEF IInv, TypeOK, ClusterOK, OneConfiguration
<1> QED
  BY <1>1, <1>2, Failed DEF Kill

\* Beginning a command changes nothing but the script.
LEMMA BeginStep ==
  ASSUME IInv, NEW place \in {"preflight", "restore"}, Begin(place),
         config' \in Configs \cup {NoSpec}, AtPlace'
  PROVE  IInv'
<1>1. /\ UNCHANGED <<setup, dep, ray, check, uids, upstream, journal, seen>>
      /\ paused /\ pc = "idle" /\ pc' = place /\ outcome' = "" /\ touched' = FALSE
  BY DEF Begin, cluster
<1>2. BoundsOK' /\ bounds'.edits = bounds.edits
  <2>1. bounds.commands < MaxCommands /\ bounds' = [bounds EXCEPT !["commands"] = @ + 1]
    BY DEF Begin, Count
  <2> QED
    BY <2>1, Constants DEF IInv, TypeOK, BoundsOK
<1>3. ClusterOK' /\ JournalOK' /\ OneConfiguration'
  BY <1>1 DEF IInv, TypeOK, ClusterOK, JournalOK, Saved, OneConfiguration, upstream
<1>4. ScriptOK'
  BY <1>1 DEF IInv, TypeOK, ScriptOK
<1>5. NothingBefore' /\ NeverBoth' /\ RolledBackIsBefore'
  BY <1>1, <1>2 DEF IInv, NothingBefore, NeverBoth, RolledBackIsBefore
<1>6. Unedited' /\ SuccessIsTrue'
  BY <1>1, <1>2 DEF IInv, Unedited, Saved, ValidTargets, Exists, BeforeSwitch, SuccessIsTrue
<1>7. Drained'
  BY <1>1 DEF Drained, BeforeSwitch, upstream
<1> QED
  BY <1>2, <1>3, <1>4, <1>5, <1>6, <1>7 DEF IInv, TypeOK

\* An apply of the recorded configuration, or of any if none is recorded.
LEMMA ApplyStep == ASSUME IInv, NEW c \in Configs, Apply(c) PROVE IInv'
<1>1. Begin("preflight") /\ config' = c /\ (Saved => journal.spec = c)
  BY DEF Apply
<1>2. AtPlace'
  BY <1>1 DEF Begin, AtPlace, BeforeSwitch, Saved
<1> QED
  BY <1>1, <1>2, BeginStep

\* A rollback of a recorded switch.
LEMMA RollbackStep == ASSUME IInv, Rollback PROVE IInv'
<1>1. Begin("restore") /\ Saved /\ config' = config
  BY DEF Rollback
<1>2. AtPlace'
  BY <1>1 DEF Begin, AtPlace, BeforeSwitch, Saved
<1>3. config' \in Configs \cup {NoSpec}
  BY <1>1 DEF IInv, TypeOK, ScriptOK
<1> QED
  BY <1>1, <1>2, <1>3, BeginStep

-----------------------------------------------------------------------------
(* The upstream, Kubernetes and the operator *)

\* What changes neither the script nor the Deployments.
LEMMA OutsideStep ==
  ASSUME IInv, UNCHANGED <<setup, dep, ray, uids, script, touched, bounds>>,
         check' \in Checks, check'.spec = check.spec, check'.command = check.command,
         check.status # "active" => check' = check,
         paused' \in BOOLEAN, jobs' \in 0..1,
         pc # "idle" => paused' = paused /\ jobs' <= jobs
  PROVE  IInv'
<1>1. /\ UNCHANGED <<setup, dep, ray, uids, touched, bounds>>
      /\ UNCHANGED <<journal, pc, config, seen, outcome>>
  BY DEF script
<1>2. ClusterOK'
  BY <1>1 DEF IInv, TypeOK, ClusterOK
<1>3. BoundsOK' /\ JournalOK' /\ ScriptOK'
  BY <1>1 DEF IInv, TypeOK, BoundsOK, JournalOK, Saved, ScriptOK
<1>4. ValidTargets(journal)' <=> ValidTargets(journal)
  BY <1>1 DEF ValidTargets, Exists
<1>5. AtPlace'
  BY <1>1, <1>4 DEF IInv, AtPlace, BeforeSwitch, MayCreate, Saved
<1>6. NothingBefore' /\ Unedited'
  BY <1>1, <1>4 DEF IInv, NothingBefore, Unedited, Saved
<1>7. Drained'
  <2>1. jobs = 0 => jobs' = 0 \/ pc = "idle"
    BY Constants DEF IInv, TypeOK, ClusterOK
  <2> QED
    BY <1>1, <2>1 DEF IInv, Drained, BeforeSwitch
<1>8. NeverBoth' /\ OneConfiguration' /\ SuccessIsTrue' /\ RolledBackIsBefore'
  BY <1>1 DEF IInv, NeverBoth, OneConfiguration, SuccessIsTrue, RolledBackIsBefore
<1> QED
  BY <1>2, <1>3, <1>5, <1>6, <1>7, <1>8 DEF IInv, TypeOK

\* Between commands the upstream is paused and resumed.
LEMMA PauseStep == ASSUME IInv, Pause PROVE IInv'
<1>1. /\ pc = "idle" /\ paused' = ~paused
      /\ UNCHANGED <<setup, dep, ray, check, uids, jobs, script, touched, bounds>>
  BY DEF Pause, cluster
<1>2. paused' \in BOOLEAN /\ jobs' \in 0..1 /\ check' \in Checks
  BY <1>1 DEF IInv, TypeOK, ClusterOK
<1> QED
  BY <1>1, <1>2, OutsideStep

\* A job starts only while the upstream is not paused.
LEMMA JobStartsStep == ASSUME IInv, JobStarts PROVE IInv'
<1>1. /\ ~paused /\ jobs' = 1
      /\ UNCHANGED <<setup, dep, ray, check, uids, paused, script, touched, bounds>>
  BY DEF JobStarts, cluster
<1>2. pc = "idle"
  BY <1>1 DEF IInv, Drained
<1>3. paused' \in BOOLEAN /\ jobs' \in 0..1 /\ check' \in Checks
  BY <1>1 DEF IInv, TypeOK, ClusterOK
<1> QED
  BY <1>1, <1>2, <1>3, OutsideStep

\* A job that ends leaves the old cluster idle.
LEMMA JobEndsStep == ASSUME IInv, JobEnds PROVE IInv'
<1>1. /\ jobs = 1 /\ jobs' = 0
      /\ UNCHANGED <<setup, dep, ray, check, uids, paused, script, touched, bounds>>
  BY DEF JobEnds, cluster
<1>2. paused' \in BOOLEAN /\ jobs' \in 0..1 /\ check' \in Checks
  BY <1>1 DEF IInv, TypeOK, ClusterOK
<1> QED
  BY <1>1, <1>2, OutsideStep

\* The preflight Job completes or fails.
LEMMA CheckEndsStep == ASSUME IInv, CheckEnds PROVE IInv'
<1>1. /\ check.status = "active"
      /\ UNCHANGED <<setup, dep, ray, uids, paused, jobs, script, touched, bounds>>
  BY DEF CheckEnds, upstream
<1>2. PICK status \in {"complete", "failed"} : check' = [check EXCEPT !.status = status]
  BY DEF CheckEnds
<1>3. check' \in Checks /\ check'.spec = check.spec /\ check'.command = check.command
  BY <1>2 DEF IInv, TypeOK, ClusterOK, Checks
<1>4. paused' \in BOOLEAN /\ jobs' \in 0..1
  BY <1>1 DEF IInv, TypeOK, ClusterOK
<1> QED
  BY <1>1, <1>3, <1>4, OutsideStep

\* Whatever is changed by hand, when it may be, keeps the invariant if it keeps
\* the types, the absence of an old Consumer, and the two facts about both.
LEMMA EditStep ==
  ASSUME IInv, Edit, dep' \in [Names -> Deployments], uids' \in Nat,
         ~setup.migrate => dep'[Old] = dep[Old],
         dep'[New].spec \in {dep[New].spec, Foreign}, NeverBoth'
  PROVE  IInv'
<1>1. /\ UNCHANGED <<setup, ray, check, paused, jobs, journal, pc, config, seen, outcome>>
      /\ pc \in {"idle", "poll"} /\ touched' = TRUE
  BY DEF Edit, upstream, script
<1>2. BoundsOK' /\ bounds'.edits # 0 /\ bounds'.commands = bounds.commands
  <2>1. bounds.edits < MaxEdits /\ bounds' = [bounds EXCEPT !["edits"] = @ + 1]
    BY DEF Edit, Count
  <2> QED
    BY <2>1, Constants DEF IInv, TypeOK, BoundsOK
<1>3. ClusterOK' /\ JournalOK' /\ ScriptOK'
  BY <1>1 DEF IInv, TypeOK, ClusterOK, JournalOK, Saved, ScriptOK
<1>4. AtPlace'
  BY <1>1, <1>2 DEF IInv, AtPlace, BeforeSwitch, Saved
<1>5. NothingBefore'
  BY <1>1 DEF IInv, NothingBefore
<1>6. Unedited' /\ RolledBackIsBefore' /\ SuccessIsTrue' /\ Drained'
  BY <1>1, <1>2 DEF IInv, Unedited, RolledBackIsBefore, SuccessIsTrue, Drained, BeforeSwitch
<1>7. OneConfiguration'
  BY <1>1 DEF IInv, OneConfiguration
<1> QED
  BY <1>2, <1>3, <1>4, <1>5, <1>6, <1>7 DEF IInv, TypeOK

\* A Deployment is scaled by hand.
LEMMA RescaleStep ==
  ASSUME IInv, NEW n \in Names, NEW replicas \in 0..MaxReplicas, Rescale(n, replicas)
  PROVE  IInv'
<1>1. /\ Edit /\ Exists(n) /\ UNCHANGED uids
      /\ dep' = [dep EXCEPT ![n].replicas = replicas]
      /\ \A m \in Names \ {n} : dep[m].replicas = 0
  BY DEF Rescale
<1>2. /\ dep' \in [Names -> Deployments] /\ dep'[n].spec = dep[n].spec
      /\ \A m \in Names \ {n} : dep'[m] = dep[m]
  BY <1>1 DEF IInv, TypeOK, ClusterOK, Deployments
<1>3. NeverBoth' /\ dep'[New].spec = dep[New].spec
  BY <1>1, <1>2, Consumers DEF NeverBoth
<1>4. ~setup.migrate => n # Old
  BY <1>1 DEF IInv, NothingBefore, Exists, Absent
<1> QED
  BY <1>1, <1>2, <1>3, <1>4, EditStep, Consumers DEF IInv, TypeOK, ClusterOK

\* A Deployment is deleted and created again by hand.
LEMMA RecreateStep ==
  ASSUME IInv, NEW n \in Names, NEW spec \in Configs \cup {Foreign}, Recreate(n, spec)
  PROVE  IInv'
<1>1. /\ Edit /\ Exists(n) /\ uids' = uids + 1 /\ spec \in {dep[n].spec, Foreign}
      /\ dep' = [dep EXCEPT ![n] = [uid |-> uids + 1, spec |-> spec, replicas |-> @.replicas]]
  BY DEF Recreate
<1>2. uids' \in Nat
  BY <1>1 DEF IInv, TypeOK, ClusterOK
<1>3. /\ dep' \in [Names -> Deployments]
      /\ dep'[n].spec = spec /\ dep'[n].replicas = dep[n].replicas
      /\ \A m \in Names \ {n} : dep'[m] = dep[m]
  <2> DEFINE d == [uid |-> uids + 1, spec |-> spec, replicas |-> dep[n].replicas]
  <2>1. dep \in [Names -> Deployments] /\ spec \in Specs
    BY DEF IInv, TypeOK, ClusterOK, Specs
  <2>2. dep[n].replicas \in 0..MaxReplicas
    BY <2>1 DEF Deployments
  <2>3. dep' = [dep EXCEPT ![n] = d]
    BY <1>1
  <2>4. d \in Deployments
    BY <1>1, <1>2, <2>1, <2>2 DEF Deployments
  <2> QED
    BY <2>1, <2>3, <2>4
<1>4. NeverBoth' /\ dep'[New].spec \in {dep[New].spec, Foreign}
  BY <1>1, <1>3, Consumers DEF IInv, NeverBoth
<1>5. ~setup.migrate => n # Old
  BY <1>1 DEF IInv, NothingBefore, Exists, Absent
<1> QED
  BY <1>1, <1>2, <1>3, <1>4, <1>5, EditStep, Consumers

\* A step in which nothing happens.
LEMMA StutterStep == ASSUME IInv, UNCHANGED vars PROVE IInv'
<1>1. UNCHANGED <<setup, dep, ray, check, uids, paused, jobs, script, touched, bounds>>
  BY DEF vars, cluster, upstream
<1>2. check' \in Checks /\ paused' \in BOOLEAN /\ jobs' \in 0..1 /\ jobs' <= jobs
  BY <1>1 DEF IInv, TypeOK, ClusterOK
<1> QED
  BY <1>1, <1>2, OutsideStep

-----------------------------------------------------------------------------
(* Every behaviour *)

\* Every step keeps the inductive invariant.
LEMMA NextIInv == IInv /\ [Next]_vars => IInv'
<1> SUFFICES ASSUME IInv, [Next]_vars PROVE IInv'
  OBVIOUS
<1>1. CASE Installing
  BY <1>1, ApplyStep, PreflightStep, DecideStep, CreateStep, UncheckStep, CreateCheckStep,
     PollStep, ProbeStep DEF Installing
<1>2. CASE Switching
  BY <1>2, RecordStep, StopOldStep, StartNewStep, FinishStep DEF Switching
<1>3. CASE Restoring
  BY <1>3, RollbackStep, RestoreNewStep, RestoreOldStep, RestoredStep DEF Restoring
<1>4. CASE Kill
  BY <1>4, KillStep
<1>5. CASE World
  BY <1>5, PauseStep, JobStartsStep, JobEndsStep, CheckEndsStep, RescaleStep, RecreateStep
     DEF World
<1>6. CASE UNCHANGED vars
  BY <1>6, StutterStep
<1> QED
  BY <1>1, <1>2, <1>3, <1>4, <1>5, <1>6 DEF Next

\* The inductive invariant holds in every state of every behaviour.
THEOREM Inductive == Spec => []IInv
  BY InitIInv, NextIInv, PTL DEF Spec

\* Every variable keeps its type, and a command leaves nothing behind.
THEOREM TypeCorrect == Spec => []TypeOK
<1>1. IInv => TypeOK
  BY DEF IInv
<1> QED
  BY <1>1, Inductive, PTL

\* However calls fail and wherever the script is killed, the two Consumers are
\* never both wanted.
THEOREM NeverTwoConsumers == Spec => []NeverBoth
<1>1. IInv => NeverBoth
  BY DEF IInv
<1> QED
  BY <1>1, Inductive, PTL

\* An apply or a rollback that reports success has done what it reports.
THEOREM ReportsTruth == Spec => []SuccessIsTrue
<1>1. IInv => SuccessIsTrue
  BY DEF IInv
<1> QED
  BY <1>1, Inductive, PTL

\* With nothing changed by hand, rollback accepts its own journal and leads back
\* to the replicas of the start.
THEOREM WayBack == Spec => []RollbackLeadsBack
<1>1. IInv => RollbackLeadsBack
  BY DEF IInv, Unedited, RollbackLeadsBack
<1> QED
  BY <1>1, Inductive, PTL

\* A complete rollback has restored the replicas of the start.
THEOREM RollbackRestores == Spec => []RolledBackIsBefore
<1>1. IInv => RolledBackIsBefore
  BY DEF IInv
<1> QED
  BY <1>1, Inductive, PTL

\* The objects of a release never carry two configurations.
THEOREM NeverMixed == Spec => []OneConfiguration
<1>1. IInv => OneConfiguration
  BY DEF IInv
<1> QED
  BY <1>1, Inductive, PTL

\* What a step writes to the Deployments while a command is not waiting for its
\* preflight: the installation writes the new one, and only one that is its own
\* or not there; the switch and its restoration scale the two that are recorded.
LEMMA Writes ==
  ASSUME IInv, [Next]_vars, pc \notin {"idle", "poll"}
  PROVE  \/ dep' = dep
         \/ pc = "create" /\ MayCreate /\ dep'[Old] = dep[Old] /\ dep'[New].replicas = 0
         \/ pc = "stop" /\ ValidTargets(journal) /\ setup.migrate /\ Scaled(Old, 0)
         \/ pc = "start" /\ ValidTargets(journal) /\ Scaled(New, 1)
         \/ pc = "restore" /\ ValidTargets(journal) /\ Scaled(New, 0)
         \/ /\ pc = "restore_old" /\ ValidTargets(journal) /\ setup.migrate
            /\ Scaled(Old, journal.previousReplicas)
<1>1. CASE Create
  <2>1. pc = "create" /\ MayCreate
    BY <1>1 DEF IInv, AtPlace, Create, Here
  <2>2. dep' = dep \/ NewApplied
    BY <1>1 DEF Create, Still, cluster
  <2>3. NewApplied => dep'[Old] = dep[Old] /\ dep'[New].replicas = 0
    <3>1. dep \in [Names -> Deployments]
      BY DEF IInv, TypeOK, ClusterOK
    <3>2. CASE Exists(New)
      <4>1. DOMAIN dep[New] = {"uid", "spec", "replicas"}
        BY <3>1, Consumers DEF Deployments
      <4> DEFINE d == [uid |-> dep[New].uid, spec |-> config, replicas |-> 0]
      <4>2. NewApplied => dep' = [dep EXCEPT ![New] = d]
        BY <3>1, <3>2, <4>1, Consumers DEF NewApplied, Deployments
      <4> QED
        BY <3>1, <4>2, Consumers
    <3>3. CASE ~Exists(New)
      BY <3>1, <3>3, Consumers DEF NewApplied
    <3> QED
      BY <3>2, <3>3
  <2> QED
    BY <2>1, <2>2, <2>3
<1>2. CASE StopOld
  BY <1>2 DEF IInv, AtPlace, StopOld, Here, Scale, Still, cluster
<1>3. CASE StartNew
  BY <1>3 DEF IInv, AtPlace, StartNew, Here, Scale, Still, cluster
<1>4. CASE RestoreNew
  BY <1>4 DEF RestoreNew, Here, Scale, Still, cluster
<1>5. CASE RestoreOld
  BY <1>5 DEF IInv, AtPlace, RestoreOld, Here, Scale, Still, cluster
<1>6. CASE \/ Preflight \/ Decide \/ Uncheck \/ CreateCheck \/ Poll \/ Probe
           \/ Record \/ Finish \/ Restored \/ Kill
  BY <1>6 DEF Preflight, Decide, Uncheck, CreateCheck, Poll, Probe, Record, Finish, Restored,
     Kill, Still, cluster
<1>7. CASE (\E c \in Configs : Apply(c)) \/ Rollback
  BY <1>7 DEF Apply, Rollback, Begin
<1>8. CASE World
  BY <1>8 DEF World, Pause, JobStarts, JobEnds, CheckEnds, Rescale, Recreate, Edit, cluster
<1>9. CASE UNCHANGED vars
  BY <1>9 DEF vars, cluster
<1> QED
  BY <1>1, <1>2, <1>3, <1>4, <1>5, <1>6, <1>7, <1>8, <1>9
  DEF Next, Installing, Switching, Restoring

\* A recorded switch names the objects that are there.
LEMMA TargetsAreRecorded ==
  ASSUME ValidTargets(journal)
  PROVE  /\ Recorded(New) \in {0, dep[New].uid} /\ dep[New].spec # Foreign
         /\ setup.migrate => Recorded(Old) \in {0, dep[Old].uid}
  BY Constants, Consumers DEF ValidTargets, Recorded

\* A Deployment without the deployer's label is never written by a command.
THEOREM ForeignUntouched == Spec => ForeignIsLeftAlone
<1> DEFINE P == pc \notin {"idle", "poll"} /\ dep[New].spec = Foreign => dep'[New] = dep[New]
<1>1. ASSUME IInv, [Next]_vars PROVE P
  <2> SUFFICES ASSUME pc \notin {"idle", "poll"}, dep[New].spec = Foreign
               PROVE  dep'[New] = dep[New]
    OBVIOUS
  <2>1. ~ValidTargets(journal)
    BY TargetsAreRecorded
  <2>2. ~(MayCreate /\ pc = "create")
    BY <1>1, Constants DEF IInv, AtPlace, BeforeSwitch, MayCreate
  <2> QED
    BY <1>1, <2>1, <2>2, Writes
<1>2. IInv /\ [Next]_vars => [P]_vars
  BY <1>1
<1> QED
  BY <1>2, Inductive, PTL DEF Spec, ForeignIsLeftAlone

\* A command scales only the objects it has recorded.
THEOREM OnlyRecordedScaled == Spec => ReplacedIsLeftAlone
<1> DEFINE P == \A n \in Names :
       pc \notin {"idle", "poll"} /\ dep'[n].replicas # dep[n].replicas =>
         Recorded(n) \in {0, dep[n].uid}
<1>1. ASSUME IInv, [Next]_vars PROVE P
  <2> SUFFICES ASSUME NEW n \in Names, pc \notin {"idle", "poll"},
                      dep'[n].replicas # dep[n].replicas
               PROVE  Recorded(n) \in {0, dep[n].uid}
    OBVIOUS
  <2>1. ~(pc = "create" /\ dep'[Old] = dep[Old] /\ dep'[New].replicas = 0)
    BY <1>1, Consumers DEF IInv, AtPlace
  <2>2. /\ Scaled(Old, 0) \/ Scaled(Old, journal.previousReplicas) => n = Old
        /\ Scaled(New, 0) \/ Scaled(New, 1) => n = New
    BY <1>1, Consumers DEF IInv, TypeOK, ClusterOK, Scaled
  <2> QED
    BY <1>1, <2>1, <2>2, Writes, TargetsAreRecorded
<1>2. IInv /\ [Next]_vars => [P]_vars
  BY <1>1
<1> QED
  BY <1>2, Inductive, PTL DEF Spec, ReplacedIsLeftAlone

\* What is not the deployer's, or has been replaced, is left alone.
THEOREM OthersUntouched == Spec => OthersAreLeftAlone
  BY ForeignUntouched, OnlyRecordedScaled DEF OthersAreLeftAlone

\* The new Consumer is started only after this command's own preflight passed.
THEOREM PreflightFirst == Spec => CheckedBeforeStart
<1> DEFINE P == pc = "start" /\ dep'[New].replicas > dep[New].replicas =>
       check = [spec |-> config, status |-> "complete", command |-> bounds.commands]
<1>1. IInv => P
  BY DEF IInv, AtPlace
<1>2. IInv /\ [Next]_vars => [P]_vars
  BY <1>1
<1> QED
  BY <1>2, Inductive, PTL DEF Spec, CheckedBeforeStart

\* The old Consumer is not stopped while its cluster has an active job.
THEOREM DrainedFirst == Spec => StoppedWhenIdle
<1> DEFINE P == pc = "stop" /\ ~touched /\ dep'[Old].replicas < dep[Old].replicas => jobs = 0
<1>1. ASSUME IInv, [Next]_vars PROVE P
  <2> SUFFICES ASSUME pc = "stop", ~touched, dep'[Old].replicas < dep[Old].replicas,
                      jobs # 0
               PROVE  FALSE
    OBVIOUS
  <2>1. dep[Old].replicas = 0
    BY <1>1 DEF IInv, Drained
  <2>2. dep' = dep \/ Scaled(Old, 0)
    BY <1>1, Writes
  <2>3. dep'[Old].replicas = 0
    BY <1>1, <2>1, <2>2, ScaledFacts, Constants, Consumers DEF IInv, TypeOK
  <2> QED
    BY <2>1, <2>3
<1>2. IInv /\ [Next]_vars => [P]_vars
  BY <1>1
<1> QED
  BY <1>2, Inductive, PTL DEF Spec, StoppedWhenIdle

=============================================================================
