------------------------- MODULE V2MigrationProofs -------------------------
(***************************************************************************)
(* The safety of the handoff, for any number of apps, faults and crashes.  *)
(* The invariant says, for every step of the worker, which files are       *)
(* there, what runs where, and which projects have a directory.            *)
(***************************************************************************)
EXTENDS V2Migration, TLAPS

HandoffSteps ==
  {"prepareSystem", "prepareApps", "cleanSystem", "stopLegacy", "removeLegacy",
   "startSystem", "removeAbsent", "apps", "down", "mark",
   "rollbackApps", "rollbackSystem", "restore"}
CommitSteps == {"forgetState", "forgetCompose"}
Steps == HandoffSteps \cup CommitSteps \cup {"idle", "applySystem"}
Stages == {"none", "prepare", "ready", "failed", "handover", "start", "return", "ok"}
Conditions == {"none", "stopped", "running"}

Types == TypeOK /\ pc \in Steps /\ stage \in [Apps -> Stages]

\* A handoff runs while it is pending, and forgets after it is committed.
Commits ==
  /\ pc \in HandoffSteps => Pending
  /\ pc \in CommitSteps => "marker" \in files
  /\ pc = "mark" => \A u \in Units : legacy[u] = "none"

\* The v2 system runs from its start to the end of the handoff.
Serves ==
  pc \in {"removeAbsent", "apps", "down", "mark"} \cup CommitSteps => v2[Sys] = "running"

AsWanted(a) == v2[a] = "running" <=> want[a] = "running"

\* Apps that were handed over are as the state wants them.
Hands ==
  /\ pc = "apps" => \A a \in Wanted : stage[a] = "ok" => AsWanted(a)
  /\ pc \in {"down", "mark"} \cup CommitSteps => \A a \in Wanted : AsWanted(a)

\* A rollback in which nothing failed stops what it can know of.
Cleans ==
  /\ pc \in {"rollbackSystem", "restore"} /\ ~dirty =>
       \A a \in Wanted \cap dir : v2[a] # "running"
  /\ pc = "restore" /\ ~dirty => v2[Sys] # "running"

\* Every project that is started has a directory.
Directories ==
  /\ pc \in HandoffSteps \ {"prepareSystem"} => Sys \in dir
  /\ pc = "prepareApps" =>
       \A a \in Wanted : /\ stage[a] \in {"prepare", "ready", "failed"}
                         /\ stage[a] = "ready" /\ want[a] = "running" => a \in dir
  /\ pc \in HandoffSteps \ {"prepareSystem", "prepareApps"} => Starting \subseteq dir

Reports == AllOrNothing /\ (ended \in {"rolled", "moved"} => pc = "idle")

IInv ==
  /\ Types /\ Commits /\ LegacyUntilCommitted /\ Serves /\ Hands /\ Cleans
  /\ Directories /\ Reports

-----------------------------------------------------------------------------
(* What the commands do to the containers of a project.                    *)

\* A unit keeps its container when its project is halted.
LEMMA HaltedFacts ==
  ASSUME NEW of \in [Units -> Conditions], NEW units \in SUBSET Units
  PROVE  /\ Halted(of, units) \in [Units -> Conditions]
         /\ \A u \in Units : Halted(of, units)[u] = "none" <=> of[u] = "none"
         /\ \A u \in units : Halted(of, units)[u] # "running"
         /\ \A u \in Units \ units : Halted(of, units)[u] = of[u]
  BY DEF Halted, Conditions

LEMMA RemovedFacts ==
  ASSUME NEW of \in [Units -> Conditions], NEW units \in SUBSET Units
  PROVE  /\ Removed(of, units) \in [Units -> Conditions]
         /\ \A u \in units : Removed(of, units)[u] = "none"
         /\ \A u \in Units \ units : Removed(of, units)[u] = of[u]
  BY DEF Removed, Conditions

LEMMA StartedFacts ==
  ASSUME NEW of \in [Units -> Conditions], NEW units \in SUBSET Units
  PROVE  /\ Started(of, units) \in [Units -> Conditions]
         /\ \A u \in units : Started(of, units)[u] = "running"
         /\ \A u \in Units \ units : Started(of, units)[u] = of[u]
  BY DEF Started, Conditions

\* A command that failed half-way did to some units what it does to all.
LEMMA HaltedPartly ==
  ASSUME NEW of \in [Units -> Conditions], NEW units \in SUBSET Units,
         NEW new \in Partly(Halted, of, units)
  PROVE  /\ new \in [Units -> Conditions]
         /\ \A u \in Units : new[u] = "none" <=> of[u] = "none"
         /\ \A u \in Units : new[u] = "running" => of[u] = "running"
         /\ \A u \in Units \ units : new[u] = of[u]
<1>1. PICK some \in SUBSET units : new = Halted(of, some)
  BY DEF Partly
<1>2. QED
  BY <1>1, HaltedFacts

LEMMA RemovedPartly ==
  ASSUME NEW of \in [Units -> Conditions], NEW units \in SUBSET Units,
         NEW new \in Partly(Removed, of, units)
  PROVE  /\ new \in [Units -> Conditions]
         /\ \A u \in Units : new[u] \in {of[u], "none"}
         /\ \A u \in Units \ units : new[u] = of[u]
<1>1. PICK some \in SUBSET units : new = Removed(of, some)
  BY DEF Partly
<1>2. QED
  BY <1>1, RemovedFacts

LEMMA StartedPartly ==
  ASSUME NEW of \in [Units -> Conditions], NEW units \in SUBSET Units,
         NEW new \in Partly(Started, of, units)
  PROVE  /\ new \in [Units -> Conditions]
         /\ \A u \in Units : new[u] \in {of[u], "running"}
         /\ \A u \in Units \ units : new[u] = of[u]
<1>1. PICK some \in SUBSET units : new = Started(of, some)
  BY DEF Partly
<1>2. QED
  BY <1>1, StartedFacts

-----------------------------------------------------------------------------
LEMMA InitIsSafe == Init => IInv
<1> SUFFICES ASSUME Init PROVE IInv
  OBVIOUS
<1> USE MigrationAssumption DEF Init, Units, Legacy, Conditions
<1>1. Types
  BY StartedFacts DEF Types, TypeOK, Steps, Stages, Started
<1>2. Commits /\ LegacyUntilCommitted
  BY DEF Commits, Pending, LegacyUntilCommitted, HandoffSteps, CommitSteps
<1>3. Serves /\ Hands /\ Cleans /\ Directories /\ Reports
  BY DEF Serves, Hands, Cleans, Directories, Reports, AllOrNothing, HandoffSteps, CommitSteps
<1>4. QED
  BY <1>1, <1>2, <1>3 DEF IInv

\* The types of what the commands read and write.
LEMMA ContainerTypes ==
  ASSUME IInv
  PROVE  /\ v2 \in [Units -> Conditions] /\ legacy \in [Units -> Conditions]
         /\ Sys \in Units /\ Apps \subseteq Units /\ Sys \notin Apps
         /\ Legacy \subseteq Units /\ Wanted \subseteq Apps /\ dir \subseteq Units
         /\ old \subseteq Legacy /\ dirty \in BOOLEAN /\ stage \in [Apps -> Stages]
         /\ \A u \in Units \ Legacy : legacy[u] = "none"
  BY MigrationAssumption DEF IInv, Types, TypeOK, Units, Conditions, Legacy, Wanted

-----------------------------------------------------------------------------
(* Applies begin.                                                          *)

LEMMA ReapplySafe ==
  ASSUME IInv, Reapply
  PROVE  IInv'
<1> USE MigrationAssumption DEF IInv, At, state, containers, disk, worker, Steps,
   HandoffSteps, CommitSteps
<1>1. Types'
  BY DEF Types, TypeOK, Stages, Conditions, Units, Legacy, Starting, Directories,
     Reapply, Begin, Pending
<1>2. (Commits /\ LegacyUntilCommitted /\ Serves)'
  BY DEF Types, TypeOK, Commits, LegacyUntilCommitted, Serves, Pending, Units, Wanted,
     Reapply, Begin, Pending
<1>3. (Hands /\ Cleans /\ Directories)'
  BY DEF Types, TypeOK, Hands, AsWanted, Cleans, Directories, Wanted, Starting, Units,
     Stages, Reapply, Begin, Pending
<1>4. Reports'
  BY DEF Types, TypeOK, Reports, AllOrNothing, Reapply, Begin, Pending
<1>5. QED
  BY <1>1, <1>2, <1>3, <1>4

LEMMA ApplyNewStateSafe ==
  ASSUME IInv, ApplyNewState
  PROVE  IInv'
<1> USE MigrationAssumption DEF IInv, At, state, containers, disk, worker, Steps,
   HandoffSteps, CommitSteps
<1>1. Types'
  BY DEF Types, TypeOK, Stages, Conditions, Units, Legacy, Starting, Directories,
     ApplyNewState, Begin, Bounded, Pending
<1>2. (Commits /\ LegacyUntilCommitted /\ Serves)'
  BY DEF Types, TypeOK, Commits, LegacyUntilCommitted, Serves, Pending, Units, Wanted,
     ApplyNewState, Begin, Bounded, Pending
<1>3. (Hands /\ Cleans /\ Directories)'
  BY DEF Types, TypeOK, Hands, AsWanted, Cleans, Directories, Wanted, Starting, Units,
     Stages, ApplyNewState, Begin, Bounded, Pending
<1>4. Reports'
  BY DEF Types, TypeOK, Reports, AllOrNothing, ApplyNewState, Begin, Bounded, Pending
<1>5. QED
  BY <1>1, <1>2, <1>3, <1>4

LEMMA RetryFailedAppSafe ==
  ASSUME IInv, NEW a \in Apps, RetryFailedApp(a)
  PROVE  IInv'
<1> USE MigrationAssumption DEF IInv, At, state, containers, disk, worker, Steps,
   HandoffSteps, CommitSteps
<1>1. Types'
  BY DEF Types, TypeOK, Stages, Conditions, Units, Legacy, Starting, Directories,
     RetryFailedApp, Begin, Bounded
<1>2. (Commits /\ LegacyUntilCommitted /\ Serves)'
  BY DEF Types, TypeOK, Commits, LegacyUntilCommitted, Serves, Pending, Units, Wanted,
     RetryFailedApp, Begin, Bounded
<1>3. (Hands /\ Cleans /\ Directories)'
  BY DEF Types, TypeOK, Hands, AsWanted, Cleans, Directories, Wanted, Starting, Units,
     Stages, RetryFailedApp, Begin, Bounded
<1>4. Reports'
  BY DEF Types, TypeOK, Reports, AllOrNothing, RetryFailedApp, Begin, Bounded
<1>5. QED
  BY <1>1, <1>2, <1>3, <1>4

-----------------------------------------------------------------------------
(* The preparation touches no container.                                   *)

LEMMA PrepareSystemSafe ==
  ASSUME IInv, PrepareSystem
  PROVE  IInv'
<1> USE MigrationAssumption DEF IInv, At, state, containers, disk, worker, Steps,
   HandoffSteps, CommitSteps
<1>1. Types'
  BY DEF Types, TypeOK, Stages, Conditions, Units, Legacy, Starting, Directories,
     PrepareSystem, Fork, Fault, Bounded, End, Record
<1>2. (Commits /\ LegacyUntilCommitted /\ Serves)'
  BY DEF Types, TypeOK, Commits, LegacyUntilCommitted, Serves, Pending, Units, Wanted,
     PrepareSystem, Fork, Fault, Bounded, End, Record
<1>3. (Hands /\ Cleans /\ Directories)'
  BY DEF Types, TypeOK, Hands, AsWanted, Cleans, Directories, Wanted, Starting, Units,
     Stages, PrepareSystem, Fork, Fault, Bounded, End, Record
<1>4. Reports'
  BY DEF Types, TypeOK, Reports, AllOrNothing, PrepareSystem, Fork, Fault, Bounded, End,
     Record
<1>5. QED
  BY <1>1, <1>2, <1>3, <1>4

LEMMA PrepareAppSafe ==
  ASSUME IInv, NEW a \in Apps, PrepareApp(a)
  PROVE  IInv'
<1> USE MigrationAssumption DEF IInv, At, state, containers, disk, worker, Steps,
   HandoffSteps, CommitSteps
<1>1. Types'
  BY DEF Types, TypeOK, Stages, Conditions, Units, Legacy, Starting, Directories,
     PrepareApp, Stage, Fault, Bounded, Record
<1>2. (Commits /\ LegacyUntilCommitted /\ Serves)'
  BY DEF Types, TypeOK, Commits, LegacyUntilCommitted, Serves, Pending, Units, Wanted,
     PrepareApp, Stage, Fault, Bounded, Record
<1>3. (Hands /\ Cleans /\ Directories)'
  BY DEF Types, TypeOK, Hands, AsWanted, Cleans, Directories, Wanted, Starting, Units,
     Stages, PrepareApp, Stage, Fault, Bounded, Record
<1>4. Reports'
  BY DEF Types, TypeOK, Reports, AllOrNothing, PrepareApp, Stage, Fault, Bounded, Record
<1>5. QED
  BY <1>1, <1>2, <1>3, <1>4

LEMMA AllPreparedSafe ==
  ASSUME IInv, AllPrepared
  PROVE  IInv'
<1> USE MigrationAssumption DEF IInv, At, state, containers, disk, worker, Steps,
   HandoffSteps, CommitSteps
<1>1. Types'
  BY DEF Types, TypeOK, Stages, Conditions, Units, Legacy, Starting, Directories,
     AllPrepared, Goto, End, Failures
<1>2. (Commits /\ LegacyUntilCommitted /\ Serves)'
  BY DEF Types, TypeOK, Commits, LegacyUntilCommitted, Serves, Pending, Units, Wanted,
     AllPrepared, Goto, End, Failures
<1>3. (Hands /\ Cleans /\ Directories)'
  BY DEF Types, TypeOK, Hands, AsWanted, Cleans, Directories, Wanted, Starting, Units,
     Stages, AllPrepared, Goto, End, Failures
<1>4. Reports'
  BY DEF Types, TypeOK, Reports, AllOrNothing, AllPrepared, Goto, End, Failures
<1>5. QED
  BY <1>1, <1>2, <1>3, <1>4

-----------------------------------------------------------------------------
(* The handoff: what the commands leave, and the step of the worker.        *)

LEMMA CleanSystemSafe ==
  ASSUME IInv, CleanSystem
  PROVE  IInv'
<1>1. /\ v2' \in [Units -> Conditions]
      /\ \A a \in Apps : v2'[a] = v2[a]
  BY ContainerTypes, HaltedFacts, RemovedFacts DEF Partly, state, containers,
     CleanSystem, Goto, HandoffFails, RollBack, Record
<1>2. /\ pc = "cleanSystem" /\ pc' \in {"stopLegacy", "rollbackApps"} /\ dirty' \in BOOLEAN
      /\ failed' \in {failed, [failed EXCEPT ![Sys] = "start"]}
      /\ UNCHANGED <<want, old, files, dir, legacy, stage, forced, ended>>
  BY ContainerTypes DEF At, state, disk, CleanSystem, Goto, HandoffFails, RollBack, Record
<1> USE MigrationAssumption DEF IInv, Steps, HandoffSteps, CommitSteps
<1>3. Types'
  BY <1>1, <1>2 DEF Types, TypeOK, Stages, Conditions, Units, Legacy, Starting, Directories
<1>4. (Commits /\ LegacyUntilCommitted /\ Serves)'
  BY <1>1, <1>2 DEF Types, TypeOK, Commits, LegacyUntilCommitted, Serves, Pending,
     Units, Wanted
<1>5. (Hands /\ Cleans /\ Directories)'
  BY <1>1, <1>2 DEF Types, TypeOK, Hands, AsWanted, Cleans, Directories, Wanted,
     Starting, Units, Stages
<1>6. Reports'
  BY <1>1, <1>2 DEF Types, TypeOK, Reports, AllOrNothing
<1>7. QED
  BY <1>3, <1>4, <1>5, <1>6

LEMMA StopLegacySystemSafe ==
  ASSUME IInv, StopLegacySystem
  PROVE  IInv'
<1>1. /\ legacy' \in [Units -> Conditions]
      /\ \A u \in Units \ Legacy : legacy'[u] = "none"
  BY ContainerTypes, HaltedFacts DEF Partly, state, containers, StopLegacySystem,
     LegacySystem, Goto, HandoffFails, RollBack, Record
<1>2. /\ pc = "stopLegacy" /\ pc' \in {"removeLegacy", "rollbackApps"} /\ dirty' \in BOOLEAN
      /\ failed' \in {failed, [failed EXCEPT ![Sys] = "start"]}
      /\ UNCHANGED <<want, old, files, dir, v2, stage, forced, ended>>
  BY ContainerTypes DEF At, state, disk, StopLegacySystem, LegacySystem, Goto,
     HandoffFails, RollBack, Record
<1> USE MigrationAssumption DEF IInv, Steps, HandoffSteps, CommitSteps
<1>3. Types'
  BY <1>1, <1>2 DEF Types, TypeOK, Stages, Conditions, Units, Legacy, Starting, Directories
<1>4. (Commits /\ LegacyUntilCommitted /\ Serves)'
  BY <1>1, <1>2 DEF Types, TypeOK, Commits, LegacyUntilCommitted, Serves, Pending,
     Units, Wanted
<1>5. (Hands /\ Cleans /\ Directories)'
  BY <1>1, <1>2 DEF Types, TypeOK, Hands, AsWanted, Cleans, Directories, Wanted,
     Starting, Units, Stages
<1>6. Reports'
  BY <1>1, <1>2 DEF Types, TypeOK, Reports, AllOrNothing
<1>7. QED
  BY <1>3, <1>4, <1>5, <1>6

LEMMA RemoveLegacySystemSafe ==
  ASSUME IInv, RemoveLegacySystem
  PROVE  IInv'
<1>1. /\ legacy' \in [Units -> Conditions]
      /\ \A u \in Units \ Legacy : legacy'[u] = "none"
  BY ContainerTypes, RemovedFacts DEF Partly, state, containers, RemoveLegacySystem,
     LegacySystem, Goto, HandoffFails, RollBack, Record
<1>2. /\ pc = "removeLegacy" /\ pc' \in {"startSystem", "rollbackApps"} /\ dirty' \in BOOLEAN
      /\ \E phase \in {"none", "start"} : failed' = [failed EXCEPT ![Sys] = phase]
      /\ UNCHANGED <<want, old, files, dir, v2, stage, forced, ended>>
  BY ContainerTypes DEF At, state, disk, RemoveLegacySystem, LegacySystem, Goto,
     HandoffFails, RollBack, Record
<1> USE MigrationAssumption DEF IInv, Steps, HandoffSteps, CommitSteps
<1>3. Types'
  BY <1>1, <1>2 DEF Types, TypeOK, Stages, Conditions, Units, Legacy, Starting, Directories
<1>4. (Commits /\ LegacyUntilCommitted /\ Serves)'
  BY <1>1, <1>2 DEF Types, TypeOK, Commits, LegacyUntilCommitted, Serves, Pending,
     Units, Wanted
<1>5. (Hands /\ Cleans /\ Directories)'
  BY <1>1, <1>2 DEF Types, TypeOK, Hands, AsWanted, Cleans, Directories, Wanted,
     Starting, Units, Stages
<1>6. Reports'
  BY <1>1, <1>2 DEF Types, TypeOK, Reports, AllOrNothing
<1>7. QED
  BY <1>3, <1>4, <1>5, <1>6

LEMMA StartSystemSafe ==
  ASSUME IInv, StartSystem
  PROVE  IInv'
<1>1. /\ v2' \in [Units -> Conditions]
      /\ \A a \in Apps : v2'[a] = v2[a]
      /\ pc' = "removeAbsent" => v2'[Sys] = "running"
  BY ContainerTypes, StartedFacts DEF Partly, state, containers, StartSystem, Goto,
     HandoffFails, RollBack, Record
<1>2. /\ pc = "startSystem" /\ pc' \in {"removeAbsent", "rollbackApps"} /\ dirty' \in BOOLEAN
      /\ \E phase \in {"none", "start"} : failed' = [failed EXCEPT ![Sys] = phase]
      /\ UNCHANGED <<want, old, files, dir, legacy, stage, forced, ended>>
  BY ContainerTypes DEF At, state, disk, StartSystem, Goto, HandoffFails, RollBack, Record
<1> USE MigrationAssumption DEF IInv, Steps, HandoffSteps, CommitSteps
<1>3. Types'
  BY <1>1, <1>2 DEF Types, TypeOK, Stages, Conditions, Units, Legacy, Starting, Directories
<1>4. (Commits /\ LegacyUntilCommitted /\ Serves)'
  BY <1>1, <1>2 DEF Types, TypeOK, Commits, LegacyUntilCommitted, Serves, Pending,
     Units, Wanted
<1>5. (Hands /\ Cleans /\ Directories)'
  BY <1>1, <1>2 DEF Types, TypeOK, Hands, AsWanted, Cleans, Directories, Wanted,
     Starting, Units, Stages
<1>6. Reports'
  BY <1>1, <1>2 DEF Types, TypeOK, Reports, AllOrNothing
<1>7. QED
  BY <1>3, <1>4, <1>5, <1>6

LEMMA RemoveAbsentSafe ==
  ASSUME IInv, RemoveAbsent
  PROVE  IInv'
<1>1. /\ v2' \in [Units -> Conditions]
      /\ \A u \in Wanted \cup {Sys} : v2'[u] = v2[u]
  BY ContainerTypes, RemovedFacts DEF Partly, state, containers, RemoveAbsent, Fork
<1> USE MigrationAssumption DEF IInv, At, state, containers, disk, worker, Steps,
   HandoffSteps, CommitSteps
<1>2. Types'
  BY <1>1 DEF Types, TypeOK, Stages, Conditions, Units, Legacy, Starting, Directories,
     Wanted, RemoveAbsent, Fork, Fault, Bounded
<1>3. (Commits /\ LegacyUntilCommitted /\ Serves)'
  BY <1>1 DEF Types, TypeOK, Commits, LegacyUntilCommitted, Serves, Pending, Units,
     Wanted, RemoveAbsent, Fork, Fault, Bounded
<1>4. (Hands /\ Cleans /\ Directories)'
  BY <1>1 DEF Types, TypeOK, Hands, AsWanted, Cleans, Directories, Wanted, Starting,
     Units, Stages, RemoveAbsent, Fork, Fault, Bounded
<1>5. Reports'
  BY <1>1 DEF Types, TypeOK, Reports, AllOrNothing, RemoveAbsent, Fork, Fault, Bounded
<1>6. QED
  BY <1>2, <1>3, <1>4, <1>5

LEMMA StopLegacyAppSafe ==
  ASSUME IInv, NEW a \in Apps, StopLegacyApp(a)
  PROVE  IInv'
<1>1. /\ legacy' \in [Units -> Conditions]
      /\ \A u \in Units \ Legacy : legacy'[u] = "none"
  BY ContainerTypes, HaltedFacts DEF Partly, state, containers, StopLegacyApp, Stage, Record
<1>2. /\ pc = "apps" /\ pc' = pc
      /\ \E s \in {"start", "failed"} : stage' = [stage EXCEPT ![a] = s]
      /\ failed' \in {failed, [failed EXCEPT ![a] = "start"]}
      /\ failed' # failed => want[a] = "running"
      /\ UNCHANGED <<want, old, files, dir, v2, forced, dirty, ended>>
  BY DEF At, state, disk, StopLegacyApp, Stage, Record
<1> USE MigrationAssumption DEF IInv, Steps, HandoffSteps, CommitSteps
<1>3. Types'
  BY <1>1, <1>2 DEF Types, TypeOK, Stages, Conditions, Units, Legacy, Starting, Directories
<1>4. (Commits /\ LegacyUntilCommitted /\ Serves)'
  BY <1>1, <1>2 DEF Types, TypeOK, Commits, LegacyUntilCommitted, Serves, Pending,
     Units, Wanted
<1>5. (Hands /\ Cleans /\ Directories)'
  BY <1>1, <1>2 DEF Types, TypeOK, Hands, AsWanted, Cleans, Directories, Wanted,
     Starting, Units, Stages
<1>6. Reports'
  BY <1>1, <1>2 DEF Types, TypeOK, Reports, AllOrNothing
<1>7. QED
  BY <1>3, <1>4, <1>5, <1>6

LEMMA StopAppSafe ==
  ASSUME IInv, NEW a \in Apps, StopApp(a)
  PROVE  IInv'
<1>1. /\ v2' \in [Units -> Conditions]
      /\ \A u \in Units \ {a} : v2'[u] = v2[u]
      /\ stage'[a] = "ok" => v2'[a] # "running"
  BY ContainerTypes, HaltedFacts DEF Partly, state, containers, StopApp, Stage, Record
<1>2. /\ pc = "apps" /\ pc' = pc /\ want[a] = "stopped" /\ dir' = dir \cup {a}
      /\ \E s \in {"ok", "failed"} : stage' = [stage EXCEPT ![a] = s]
      /\ failed' \in {failed, [failed EXCEPT ![a] = "none"]}
      /\ UNCHANGED <<want, old, files, legacy, forced, dirty, ended>>
  BY DEF At, state, disk, StopApp, Stage, Record
<1> USE MigrationAssumption DEF IInv, Steps, HandoffSteps, CommitSteps
<1>3. Types'
  BY <1>1, <1>2 DEF Types, TypeOK, Stages, Conditions, Units, Legacy, Starting, Directories
<1>4. (Commits /\ LegacyUntilCommitted /\ Serves)'
  BY <1>1, <1>2 DEF Types, TypeOK, Commits, LegacyUntilCommitted, Serves, Pending,
     Units, Wanted
<1>5. (Hands /\ Cleans /\ Directories)'
  BY <1>1, <1>2 DEF Types, TypeOK, Hands, AsWanted, Cleans, Directories, Wanted,
     Starting, Units, Stages
<1>6. Reports'
  BY <1>1, <1>2 DEF Types, TypeOK, Reports, AllOrNothing
<1>7. QED
  BY <1>3, <1>4, <1>5, <1>6

LEMMA StartAppSafe ==
  ASSUME IInv, NEW a \in Apps, StartApp(a)
  PROVE  IInv'
<1>1. /\ v2' \in [Units -> Conditions]
      /\ \A u \in Units \ {a} : v2'[u] = v2[u]
      /\ stage'[a] = "ok" => v2'[a] = "running"
  BY ContainerTypes, StartedFacts DEF Partly, state, containers, StartApp, Stage, Record
<1>2. /\ pc = "apps" /\ pc' = pc /\ want[a] = "running"
      /\ \E s \in {"ok", "failed", "return"} : stage' = [stage EXCEPT ![a] = s]
      /\ failed' = failed \/ \E phase \in {"none", "start"} : failed' = [failed EXCEPT ![a] = phase]
      /\ UNCHANGED <<want, old, files, dir, legacy, forced, dirty, ended>>
  BY DEF At, state, disk, StartApp, Stage, Record
<1> USE MigrationAssumption DEF IInv, Steps, HandoffSteps, CommitSteps
<1>3. Types'
  BY <1>1, <1>2 DEF Types, TypeOK, Stages, Conditions, Units, Legacy, Starting, Directories
<1>4. (Commits /\ LegacyUntilCommitted /\ Serves)'
  BY <1>1, <1>2 DEF Types, TypeOK, Commits, LegacyUntilCommitted, Serves, Pending,
     Units, Wanted
<1>5. (Hands /\ Cleans /\ Directories)'
  BY <1>1, <1>2 DEF Types, TypeOK, Hands, AsWanted, Cleans, Directories, Wanted,
     Starting, Units, Stages
<1>6. Reports'
  BY <1>1, <1>2 DEF Types, TypeOK, Reports, AllOrNothing
<1>7. QED
  BY <1>3, <1>4, <1>5, <1>6

LEMMA ReturnAppSafe ==
  ASSUME IInv, NEW a \in Apps, ReturnApp(a)
  PROVE  IInv'
<1>1. /\ legacy' \in [Units -> Conditions]
      /\ \A u \in Units \ Legacy : legacy'[u] = "none"
  BY ContainerTypes, StartedFacts DEF Partly, state, containers, ReturnApp, Stage
<1> USE MigrationAssumption DEF IInv, At, state, containers, disk, worker, Steps,
   HandoffSteps, CommitSteps
<1>2. Types'
  BY <1>1 DEF Types, TypeOK, Stages, Conditions, Units, Legacy, Starting, Directories,
     ReturnApp, Stage, Fault, Bounded
<1>3. (Commits /\ LegacyUntilCommitted /\ Serves)'
  BY <1>1 DEF Types, TypeOK, Commits, LegacyUntilCommitted, Serves, Pending, Units,
     Wanted, ReturnApp, Stage, Fault, Bounded
<1>4. (Hands /\ Cleans /\ Directories)'
  BY <1>1 DEF Types, TypeOK, Hands, AsWanted, Cleans, Directories, Wanted, Starting,
     Units, Stages, ReturnApp, Stage, Fault, Bounded
<1>5. Reports'
  BY <1>1 DEF Types, TypeOK, Reports, AllOrNothing, ReturnApp, Stage, Fault, Bounded
<1>6. QED
  BY <1>2, <1>3, <1>4, <1>5

-----------------------------------------------------------------------------
(* The commit and the roll back.                                           *)

LEMMA AllHandedOverSafe ==
  ASSUME IInv, AllHandedOver
  PROVE  IInv'
<1> USE MigrationAssumption DEF IInv, At, state, containers, disk, worker, Steps,
   HandoffSteps, CommitSteps
<1>1. Types'
  BY DEF Types, TypeOK, Stages, Conditions, Units, Legacy, Starting, Directories,
     AllHandedOver, Goto, Failures, RollBack
<1>2. (Commits /\ LegacyUntilCommitted /\ Serves)'
  BY DEF Types, TypeOK, Commits, LegacyUntilCommitted, Serves, Pending, Units, Wanted,
     AllHandedOver, Goto, Failures, RollBack
<1>3. (Hands /\ Cleans /\ Directories)'
  BY DEF Types, TypeOK, Hands, AsWanted, Cleans, Directories, Wanted, Starting, Units,
     Stages, AllHandedOver, Goto, Failures, RollBack
<1>4. Reports'
  BY DEF Types, TypeOK, Reports, AllOrNothing, AllHandedOver, Goto, Failures, RollBack
<1>5. QED
  BY <1>1, <1>2, <1>3, <1>4

LEMMA TakeLegacyDownSafe ==
  ASSUME IInv, TakeLegacyDown
  PROVE  IInv'
<1>1. /\ legacy' \in [Units -> Conditions]
      /\ \A u \in Units \ Legacy : legacy'[u] = "none"
      /\ pc' = "mark" => \A u \in Units : legacy'[u] = "none"
  BY ContainerTypes, RemovedFacts DEF Partly, state, containers, TakeLegacyDown, Goto,
     RollBack
<1>2. /\ pc = "down" /\ pc' \in {"mark", "rollbackApps"} /\ dirty' \in BOOLEAN
      /\ UNCHANGED <<want, old, files, dir, failed, v2, stage, forced, ended>>
  BY ContainerTypes DEF At, state, disk, TakeLegacyDown, Goto, RollBack
<1> USE MigrationAssumption DEF IInv, Steps, HandoffSteps, CommitSteps
<1>3. Types'
  BY <1>1, <1>2 DEF Types, TypeOK, Stages, Conditions, Units, Legacy, Starting, Directories
<1>4. (Commits /\ LegacyUntilCommitted /\ Serves)'
  BY <1>1, <1>2 DEF Types, TypeOK, Commits, LegacyUntilCommitted, Serves, Pending,
     Units, Wanted
<1>5. (Hands /\ Cleans /\ Directories)'
  BY <1>1, <1>2 DEF Types, TypeOK, Hands, AsWanted, Cleans, Directories, Wanted,
     Starting, Units, Stages
<1>6. Reports'
  BY <1>1, <1>2 DEF Types, TypeOK, Reports, AllOrNothing
<1>7. QED
  BY <1>3, <1>4, <1>5, <1>6

LEMMA MarkSafe ==
  ASSUME IInv, Mark
  PROVE  IInv'
<1> USE MigrationAssumption DEF IInv, At, state, containers, disk, worker, Steps,
   HandoffSteps, CommitSteps
<1>1. Types'
  BY DEF Types, TypeOK, Stages, Conditions, Units, Legacy, Starting, Directories, Mark,
     Goto, End, Fault, Bounded
<1>2. (Commits /\ LegacyUntilCommitted /\ Serves)'
  BY DEF Types, TypeOK, Commits, LegacyUntilCommitted, Serves, Pending, Units, Wanted,
     Mark, Goto, End, Fault, Bounded
<1>3. (Hands /\ Cleans /\ Directories)'
  BY DEF Types, TypeOK, Hands, AsWanted, Cleans, Directories, Wanted, Starting, Units,
     Stages, Mark, Goto, End, Fault, Bounded
<1>4. Reports'
  BY DEF Types, TypeOK, Reports, AllOrNothing, Mark, Goto, End, Fault, Bounded
<1>5. QED
  BY <1>1, <1>2, <1>3, <1>4

LEMMA ForgetStateSafe ==
  ASSUME IInv, Forget("forgetState", "state", "forgetCompose")
  PROVE  IInv'
<1> USE MigrationAssumption DEF IInv, At, state, containers, disk, worker, Steps,
   HandoffSteps, CommitSteps
<1>1. Types'
  BY DEF Types, TypeOK, Stages, Conditions, Units, Legacy, Starting, Directories,
     Forget, Goto, End, Fault, Bounded
<1>2. (Commits /\ LegacyUntilCommitted /\ Serves)'
  BY DEF Types, TypeOK, Commits, LegacyUntilCommitted, Serves, Pending, Units, Wanted,
     Forget, Goto, End, Fault, Bounded
<1>3. (Hands /\ Cleans /\ Directories)'
  BY DEF Types, TypeOK, Hands, AsWanted, Cleans, Directories, Wanted, Starting, Units,
     Stages, Forget, Goto, End, Fault, Bounded
<1>4. Reports'
  BY DEF Types, TypeOK, Reports, AllOrNothing, Forget, Goto, End, Fault, Bounded
<1>5. QED
  BY <1>1, <1>2, <1>3, <1>4

LEMMA ForgetComposeSafe ==
  ASSUME IInv, Forget("forgetCompose", "compose", "idle")
  PROVE  IInv'
<1> USE MigrationAssumption DEF IInv, At, state, containers, disk, worker, Steps,
   HandoffSteps, CommitSteps
<1>1. Types'
  BY DEF Types, TypeOK, Stages, Conditions, Units, Legacy, Starting, Directories,
     Forget, Goto, End, Fault, Bounded
<1>2. (Commits /\ LegacyUntilCommitted /\ Serves)'
  BY DEF Types, TypeOK, Commits, LegacyUntilCommitted, Serves, Pending, Units, Wanted,
     Forget, Goto, End, Fault, Bounded
<1>3. (Hands /\ Cleans /\ Directories)'
  BY DEF Types, TypeOK, Hands, AsWanted, Cleans, Directories, Wanted, Starting, Units,
     Stages, Forget, Goto, End, Fault, Bounded
<1>4. Reports'
  BY DEF Types, TypeOK, Reports, AllOrNothing, Running, Wanted, Starting, Units, Legacy,
     Hands, AsWanted, Serves, Cleans, Commits, Forget, Goto, End, Fault, Bounded
<1>5. QED
  BY <1>1, <1>2, <1>3, <1>4

LEMMA RollBackAppsSafe ==
  ASSUME IInv, RollBackApps
  PROVE  IInv'
<1>1. /\ v2' \in [Units -> Conditions]
      /\ ~dirty' => \A a \in Wanted \cap dir : v2'[a] # "running"
  BY ContainerTypes, HaltedFacts DEF Partly, state, containers, RollBackApps
<1>2. /\ pc = "rollbackApps" /\ pc' = "rollbackSystem" /\ dirty' \in BOOLEAN
      /\ UNCHANGED <<want, old, files, dir, failed, legacy, stage, forced, ended>>
  BY ContainerTypes DEF At, state, disk, RollBackApps
<1> USE MigrationAssumption DEF IInv, Steps, HandoffSteps, CommitSteps
<1>3. Types'
  BY <1>1, <1>2 DEF Types, TypeOK, Stages, Conditions, Units, Legacy, Starting, Directories
<1>4. (Commits /\ LegacyUntilCommitted /\ Serves)'
  BY <1>1, <1>2 DEF Types, TypeOK, Commits, LegacyUntilCommitted, Serves, Pending,
     Units, Wanted
<1>5. (Hands /\ Cleans /\ Directories)'
  BY <1>1, <1>2 DEF Types, TypeOK, Hands, AsWanted, Cleans, Directories, Wanted,
     Starting, Units, Stages
<1>6. Reports'
  BY <1>1, <1>2 DEF Types, TypeOK, Reports, AllOrNothing
<1>7. QED
  BY <1>3, <1>4, <1>5, <1>6

LEMMA RollBackSystemSafe ==
  ASSUME IInv, RollBackSystem
  PROVE  IInv'
<1>1. /\ v2' \in [Units -> Conditions]
      /\ \A a \in Apps : v2'[a] = v2[a]
      /\ ~dirty' => v2'[Sys] # "running"
  BY ContainerTypes, HaltedFacts, RemovedFacts DEF Partly, state, containers, RollBackSystem
<1>2. /\ pc = "rollbackSystem" /\ pc' = "restore" /\ dirty' \in {dirty, TRUE}
      /\ UNCHANGED <<want, old, files, dir, failed, legacy, stage, forced, ended>>
  BY ContainerTypes DEF At, state, disk, RollBackSystem
<1> USE MigrationAssumption DEF IInv, Steps, HandoffSteps, CommitSteps
<1>3. Types'
  BY <1>1, <1>2 DEF Types, TypeOK, Stages, Conditions, Units, Legacy, Starting, Directories
<1>4. (Commits /\ LegacyUntilCommitted /\ Serves)'
  BY <1>1, <1>2 DEF Types, TypeOK, Commits, LegacyUntilCommitted, Serves, Pending,
     Units, Wanted
<1>5. (Hands /\ Cleans /\ Directories)'
  BY <1>1, <1>2 DEF Types, TypeOK, Hands, AsWanted, Cleans, Directories, Wanted,
     Starting, Units, Stages
<1>6. Reports'
  BY <1>1, <1>2 DEF Types, TypeOK, Reports, AllOrNothing
<1>7. QED
  BY <1>3, <1>4, <1>5, <1>6

LEMMA RestoreLegacySafe ==
  ASSUME IInv, RestoreLegacy
  PROVE  IInv'
<1>1. /\ legacy' \in [Units -> Conditions]
      /\ \A u \in Units \ Legacy : legacy'[u] = "none"
      /\ ended' = "rolled" => \A u \in Legacy : legacy'[u] = "running"
  BY ContainerTypes, StartedFacts DEF Partly, state, containers, RestoreLegacy, End
<1>2. /\ pc = "restore" /\ pc' = "idle"
      /\ ended' \in {"stuck", "rolled"}
      /\ ended' = "rolled" => ~dirty
      /\ UNCHANGED <<want, old, files, dir, failed, v2, stage, forced, dirty>>
  BY DEF At, state, disk, RestoreLegacy, End
<1> USE MigrationAssumption DEF IInv, Steps, HandoffSteps, CommitSteps
<1>3. Types'
  BY <1>1, <1>2 DEF Types, TypeOK, Stages, Conditions, Units, Legacy, Starting, Directories
<1>4. (Commits /\ LegacyUntilCommitted /\ Serves)'
  BY <1>1, <1>2 DEF Types, TypeOK, Commits, LegacyUntilCommitted, Serves, Pending,
     Units, Wanted
<1>5. (Hands /\ Cleans /\ Directories)'
  BY <1>1, <1>2 DEF Types, TypeOK, Hands, AsWanted, Cleans, Directories, Wanted,
     Starting, Units, Stages
<1>6. Reports'
  BY <1>1, <1>2 DEF Types, TypeOK, Reports, AllOrNothing, Running, Wanted, Starting,
     Units, Legacy, Hands, AsWanted, Serves, Cleans, Commits
<1>7. QED
  BY <1>3, <1>4, <1>5, <1>6

-----------------------------------------------------------------------------
(* A migrated device, and crashes.                                         *)

LEMMA ApplySystemSafe ==
  ASSUME IInv, ApplySystem
  PROVE  IInv'
<1>1. v2' \in [Units -> Conditions]
  BY ContainerTypes, StartedFacts DEF Partly, state, containers, ApplySystem, End, Record
<1>2. /\ pc = "applySystem" /\ pc' = "idle" /\ ended' = "applied" /\ dir' = dir \cup {Sys}
      /\ failed' = failed \/ \E phase \in {"pull", "start"} : failed' = [failed EXCEPT ![Sys] = phase]
      /\ UNCHANGED <<want, old, files, legacy, stage, forced, dirty>>
  BY DEF At, state, disk, ApplySystem, End, Record
<1> USE MigrationAssumption DEF IInv, Steps, HandoffSteps, CommitSteps
<1>3. Types'
  BY <1>1, <1>2 DEF Types, TypeOK, Stages, Conditions, Units, Legacy, Starting, Directories
<1>4. (Commits /\ LegacyUntilCommitted /\ Serves)'
  BY <1>1, <1>2 DEF Types, TypeOK, Commits, LegacyUntilCommitted, Serves, Pending,
     Units, Wanted
<1>5. (Hands /\ Cleans /\ Directories)'
  BY <1>1, <1>2 DEF Types, TypeOK, Hands, AsWanted, Cleans, Directories, Wanted,
     Starting, Units, Stages
<1>6. Reports'
  BY <1>1, <1>2 DEF Types, TypeOK, Reports, AllOrNothing
<1>7. QED
  BY <1>3, <1>4, <1>5, <1>6

LEMMA CrashSafe ==
  ASSUME IInv, Crash
  PROVE  IInv'
<1> USE MigrationAssumption DEF IInv, At, state, containers, disk, worker, Steps,
   HandoffSteps, CommitSteps
<1>1. Types'
  BY DEF Types, TypeOK, Stages, Conditions, Units, Legacy, Starting, Directories, Crash,
     Bounded
<1>2. (Commits /\ LegacyUntilCommitted /\ Serves)'
  BY DEF Types, TypeOK, Commits, LegacyUntilCommitted, Serves, Pending, Units, Wanted,
     Crash, Bounded
<1>3. (Hands /\ Cleans /\ Directories)'
  BY DEF Types, TypeOK, Hands, AsWanted, Cleans, Directories, Wanted, Starting, Units,
     Stages, Crash, Bounded
<1>4. Reports'
  BY DEF Types, TypeOK, Reports, AllOrNothing, Crash, Bounded
<1>5. QED
  BY <1>1, <1>2, <1>3, <1>4

-----------------------------------------------------------------------------
\* The invariant is kept by every step.
LEMMA NextIsSafe ==
  ASSUME IInv, [Next]_vars
  PROVE  IInv'
<1>1. CASE Prepare
  BY <1>1, PrepareSystemSafe, PrepareAppSafe, AllPreparedSafe DEF Prepare
<1>2. CASE HandOff
  BY <1>2, CleanSystemSafe, StopLegacySystemSafe, RemoveLegacySystemSafe, StartSystemSafe,
     RemoveAbsentSafe DEF HandOff
<1>3. CASE \E a \in Apps : HandOverApp(a)
  BY <1>3, StopLegacyAppSafe, StopAppSafe, StartAppSafe, ReturnAppSafe DEF HandOverApp
<1>4. CASE Commit
  BY <1>4, TakeLegacyDownSafe, MarkSafe, ForgetStateSafe, ForgetComposeSafe DEF Commit
<1>5. CASE Restore
  BY <1>5, RollBackAppsSafe, RollBackSystemSafe, RestoreLegacySafe DEF Restore
<1>6. CASE AllHandedOver \/ ApplySystem
  BY <1>6, AllHandedOverSafe, ApplySystemSafe
<1>7. CASE Reapply \/ ApplyNewState \/ Crash \/ \E a \in Apps : RetryFailedApp(a)
  BY <1>7, ReapplySafe, ApplyNewStateSafe, CrashSafe, RetryFailedAppSafe
<1>8. CASE UNCHANGED vars
  BY <1>8 DEF vars, state, disk, containers, worker, IInv, Types, TypeOK, Commits, Pending,
     LegacyUntilCommitted, Serves, Hands, AsWanted, Cleans, Directories, Reports,
     AllOrNothing, Running, Wanted, Starting, Legacy
<1>9. QED
  BY <1>1, <1>2, <1>3, <1>4, <1>5, <1>6, <1>7, <1>8 DEF Next, Worker

\* An app that a step starts is started while the v2 system runs.
LEMMA StartedApps ==
  ASSUME IInv, [Next]_vars, NEW a \in Apps, v2'[a] = "running", v2[a] # "running"
  PROVE  v2[Sys] = "running"
<1>1. CASE \E b \in Apps : StartApp(b)
  BY <1>1 DEF StartApp, At, IInv, Serves
<1>2. CASE CleanSystem \/ RemoveAbsent \/ RollBackApps \/ RollBackSystem
  <2>1. \A units \in SUBSET Units : Halted(v2, units)[a] # "running" /\ Removed(v2, units)[a] # "running"
    BY ContainerTypes, HaltedFacts, RemovedFacts
  <2>2. QED
    BY <1>2, <2>1, ContainerTypes DEF CleanSystem, RemoveAbsent, RollBackApps, RollBackSystem, Partly
<1>3. CASE StartSystem \/ ApplySystem
  <2>1. \A units \in SUBSET {Sys} : Started(v2, units)[a] # "running"
    BY ContainerTypes, StartedFacts
  <2>2. QED
    BY <1>3, <2>1 DEF StartSystem, ApplySystem, Partly
<1>4. CASE \E b \in Apps : StopApp(b)
  <2>1. \A units \in SUBSET Units : Halted(v2, units)[a] # "running"
    BY ContainerTypes, HaltedFacts
  <2>2. PICK b \in Apps : StopApp(b)
    BY <1>4
  <2>3. {b} \in SUBSET Units
    BY ContainerTypes
  <2>4. QED
    BY <2>1, <2>2, <2>3 DEF StopApp, Partly
<1>5. CASE \/ Prepare \/ StopLegacySystem \/ RemoveLegacySystem \/ AllHandedOver \/ Commit
           \/ RestoreLegacy \/ Reapply \/ ApplyNewState \/ Crash
           \/ \E b \in Apps : StopLegacyApp(b) \/ ReturnApp(b) \/ RetryFailedApp(b)
           \/ UNCHANGED vars
  <2>1. UNCHANGED v2
    BY <1>5 DEF Prepare, PrepareSystem, PrepareApp, AllPrepared, StopLegacySystem,
       RemoveLegacySystem, AllHandedOver, Commit, TakeLegacyDown, Mark, Forget, RestoreLegacy,
       Reapply, ApplyNewState, Crash, StopLegacyApp, ReturnApp, RetryFailedApp, containers, vars
  <2>2. QED
    BY <2>1
<1>6. QED
  BY <1>1, <1>2, <1>3, <1>4, <1>5 DEF Next, Worker, HandOff, HandOverApp, Restore

-----------------------------------------------------------------------------
\* The inductive invariant of the handoff.
THEOREM MigrationInvariant == Spec => []IInv
<1>1. Init => IInv
  BY InitIsSafe
<1>2. IInv /\ [Next]_vars => IInv'
  BY NextIsSafe
<1>3. QED
  BY <1>1, <1>2, PTL DEF Spec

\* Whatever the worker does, every variable keeps its type, a failure on
\* record has its project's directory, and no legacy container appears
\* without a legacy service.
THEOREM MigrationTypes == Spec => []TypeOK
<1>1. IInv => TypeOK
  BY DEF IInv, Types
<1>2. QED
  BY <1>1, MigrationInvariant, PTL

\* For any number of apps, faults and crashes: everything that a rollback
\* needs is on disk until the marker is, and from then on no legacy
\* container is left (the order of remove_legacy, the marker and the
\* deletions at the end of the handoff).
THEOREM RollbackStaysPossible == Spec => []LegacyUntilCommitted
<1>1. IInv => LegacyUntilCommitted
  BY DEF IInv
<1>2. QED
  BY <1>1, MigrationInvariant, PTL

\* For any number of apps: a handoff that reports its end has handed over
\* everything or nothing.
THEOREM HandoffIsAtomic == Spec => []AllOrNothing
<1>1. IInv => AllOrNothing
  BY DEF IInv, Reports
<1>2. QED
  BY <1>1, MigrationInvariant, PTL

\* For any number of apps: none starts before the v2 system serves its names.
THEOREM AppsStartAfterSystem == Spec => AppsFollowSystem
<1>1. IInv /\ [Next]_vars =>
        [\A a \in Running(v2)' \ (Running(v2) \cup {Sys}) : Sys \in Running(v2)]_vars
  BY StartedApps, ContainerTypes DEF Running, Units
<1>2. QED
  BY <1>1, MigrationInvariant, PTL DEF Spec, AppsFollowSystem
=============================================================================
