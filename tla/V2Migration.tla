---------------------------- MODULE V2Migration ----------------------------
(***************************************************************************)
(* The one-time handoff of a device from the monolithic legacy Compose     *)
(* project to one system project and one project per app (dataplane.py):   *)
(* prepare everything while the legacy project runs, release the names of  *)
(* the legacy system, start the v2 system, hand the apps over one by one,  *)
(* and commit or roll back.  Any Docker command may fail, the process may  *)
(* die between two of them, and the next apply starts over.                *)
(***************************************************************************)
EXTENDS Naturals

CONSTANTS
  Apps,      \* the app instances
  Sys,       \* the platform's services, as one unit
  NoApp,
  Budget     \* bounds: failing steps, process crashes, new states and retries

Units == Apps \cup {Sys}

ASSUME MigrationAssumption ==
  /\ Sys \notin Apps /\ NoApp \notin Apps
  /\ Budget \in [fault : Nat, crash : Nat, change : Nat]

VARIABLES
  want,    \* what the saved v2 state says of each app
  old,     \* the apps that have a service in the legacy compose file
  files,   \* of {"state", "compose", "marker"}: legacy state, legacy compose
           \* file, apps-v2-migrated
  legacy,  \* container of each unit in the legacy project
  v2,      \* container of each unit in its own project
  dir,     \* units with a project directory
  failed,  \* phase of each project's .failed-compose-sig that fits its compose
  pc,      \* next step of the worker
  stage,   \* of each app, in the concurrent parts
  forced,  \* the app of a queued retry
  dirty,   \* a cleanup of this rollback failed
  ended,   \* how the last apply ended
  count    \* what is used of Budget

state == <<want, old>>
containers == <<legacy, v2>>
disk == <<files, dir, failed>>
worker == <<pc, stage, forced, dirty, ended>>
vars == <<state, disk, containers, worker, count>>

Bounded(what) ==
  /\ count[what] < Budget[what]
  /\ count' = [count EXCEPT ![what] = @ + 1]

\* A command that fails although nothing forces it to.
Fault == Bounded("fault")

Pending == "state" \in files /\ "marker" \notin files
Legacy == old \cup {Sys}
Wanted == {a \in Apps : want[a] # "absent"}
Starting == {a \in Apps : want[a] = "running"}

\* Legacy services without an instance in the state, removed apps included.
LegacySystem == Legacy \ Wanted

Halted(of, units) ==
  [u \in Units |-> IF u \in units /\ of[u] = "running" THEN "stopped" ELSE of[u]]
Removed(of, units) == [u \in Units |-> IF u \in units THEN "none" ELSE of[u]]
Started(of, units) == [u \in Units |-> IF u \in units THEN "running" ELSE of[u]]

\* A failed command on units of a project may have done its work on some.
Partly(After(_, _), of, units) == {After(of, some) : some \in SUBSET units}

At(step) == pc = step
Goto(step) == pc' = step /\ UNCHANGED <<stage, forced, dirty, ended>>
End(how) == pc' = "idle" /\ ended' = how /\ UNCHANGED <<stage, forced, dirty>>
Stage(a, s) == stage' = [stage EXCEPT ![a] = s] /\ UNCHANGED <<pc, forced, dirty, ended>>
Record(u, phase) == failed' = [failed EXCEPT ![u] = phase]
Fork(step, s) ==
  /\ pc' = step
  /\ stage' = [a \in Apps |-> IF a \in Wanted THEN s ELSE "none"]
  /\ UNCHANGED <<forced, dirty, ended>>
RollBack == pc' = "rollbackApps" /\ dirty' = FALSE /\ UNCHANGED <<stage, forced, ended>>

-----------------------------------------------------------------------------
Init ==
  /\ want \in [Apps -> {"running", "stopped", "absent"}]
  /\ old \in SUBSET Apps
  /\ files = {"state", "compose"}
  /\ legacy = Started([u \in Units |-> "none"], Legacy)
  /\ v2 = [u \in Units |-> "none"]
  /\ dir = {} /\ failed = [u \in Units |-> "none"]
  /\ pc = "idle" /\ stage = [a \in Apps |-> "none"]
  /\ forced = NoApp /\ dirty = FALSE
  /\ ended = "none" /\ count = [fault |-> 0, crash |-> 0, change |-> 0]

Begin(retry) ==
  /\ pc' = IF Pending THEN "prepareSystem" ELSE "applySystem"
  /\ stage' = [a \in Apps |-> "none"] /\ ended' = "busy" /\ UNCHANGED dirty
  /\ forced' = retry

\* Boot and every reconnect apply the saved state again.
Reapply ==
  /\ At("idle") /\ Begin(NoApp)
  /\ UNCHANGED <<state, disk, containers, count>>

\* A failure is recorded with a signature of the compose, so those of apps
\* whose compose changes no longer count.
ApplyNewState ==
  /\ At("idle") /\ Bounded("change") /\ Begin(NoApp)
  /\ want' \in [Apps -> {"running", "stopped", "absent"}]
  /\ \E changed \in SUBSET Units :
       failed' = [u \in Units |-> IF u \in changed THEN "none" ELSE failed[u]]
  /\ UNCHANGED <<old, files, dir, containers>>

\* A restart command for an app whose preparation failed queues an apply
\* that forgets the failure and starts the handoff again.
RetryFailedApp(a) ==
  /\ At("idle") /\ Pending /\ a \in Starting /\ failed[a] # "none"
  /\ Bounded("change") /\ Begin(a)
  /\ UNCHANGED <<state, disk, containers>>

-----------------------------------------------------------------------------
(* First phase: pull everything, legacy untouched.                         *)

\* Mutant of PrepareSystem: a failed start is remembered as for good.
PrepareSystemOnce ==
  /\ At("prepareSystem")
  /\ dir' = dir \cup {Sys}
  /\ IF failed[Sys] # "none" THEN End("refused") ELSE Fork("prepareApps", "prepare")
  /\ UNCHANGED <<state, files, failed, containers, count>>

PrepareSystem ==
  /\ At("prepareSystem")
  /\ dir' = dir \cup {Sys}
  /\ \/ failed[Sys] = "pull" /\ End("refused") /\ UNCHANGED <<failed, count>>
     \/ failed[Sys] # "pull" /\ Fault /\ Record(Sys, "pull") /\ End("refused")
     \/ /\ failed[Sys] # "pull"
        /\ Fork("prepareApps", "prepare") /\ UNCHANGED <<failed, count>>
  /\ UNCHANGED <<state, files, containers>>

Refused(a) == failed[a] # "none" /\ forced # a

\* A stopped app has nothing to prepare.  Artifacts and a newer target leave
\* no trace, an earlier or a new failure to pull does.
PrepareApp(a) ==
  /\ At("prepareApps") /\ stage[a] = "prepare"
  /\ \/ want[a] = "stopped" /\ Stage(a, "ready") /\ UNCHANGED <<dir, failed, count>>
     \/ want[a] = "running" /\ Fault /\ Stage(a, "failed") /\ UNCHANGED <<dir, failed>>
     \/ /\ want[a] = "running" /\ dir' = dir \cup {a}
        /\ \/ Refused(a) /\ Stage(a, "failed") /\ UNCHANGED <<failed, count>>
           \/ ~Refused(a) /\ Stage(a, "ready") /\ Record(a, "none") /\ UNCHANGED count
           \/ ~Refused(a) /\ Fault /\ Stage(a, "failed") /\ Record(a, "pull")
  /\ UNCHANGED <<state, files, containers>>

Failures == \E a \in Wanted : stage[a] = "failed"

AllPrepared ==
  /\ At("prepareApps") /\ \A a \in Wanted : stage[a] # "prepare"
  /\ IF Failures THEN End("refused") ELSE Goto("cleanSystem")
  /\ UNCHANGED <<state, disk, containers, count>>

-----------------------------------------------------------------------------
(* Second phase: release the names of the legacy system, start the new.    *)

HandoffFails == Fault /\ Record(Sys, "start") /\ RollBack

\* What an earlier attempt left.
CleanSystem ==
  /\ At("cleanSystem")
  /\ \/ v2' = Removed(v2, {Sys}) /\ Goto("stopLegacy") /\ UNCHANGED <<failed, count>>
     \/ HandoffFails /\ v2' \in Partly(Halted, v2, {Sys})
  /\ UNCHANGED <<state, files, dir, legacy>>

StopLegacySystem ==
  /\ At("stopLegacy")
  /\ \/ /\ legacy' = Halted(legacy, LegacySystem)
        /\ Goto("removeLegacy") /\ UNCHANGED <<failed, count>>
     \/ HandoffFails /\ legacy' \in Partly(Halted, legacy, LegacySystem)
  /\ UNCHANGED <<state, files, dir, v2>>

RemoveLegacySystem ==
  /\ At("removeLegacy")
  /\ \/ /\ legacy' = Removed(legacy, LegacySystem)
        /\ Goto("startSystem") /\ Record(Sys, "none") /\ UNCHANGED count
     \/ HandoffFails /\ legacy' \in Partly(Removed, legacy, LegacySystem)
  /\ UNCHANGED <<state, files, dir, v2>>

\* A container name belongs to one container, running or not.
NamesAreFree(mine, other) == mine[Sys] # "none" \/ other[Sys] = "none"

\* Mutant of StartSystem: a failure is a warning, as after the migration.
StartSystemWarns ==
  /\ At("startSystem") /\ Goto("removeAbsent")
  /\ \/ v2' = Started(v2, {Sys}) /\ Record(Sys, "none") /\ UNCHANGED count
     \/ Fault /\ v2' \in Partly(Started, v2, {Sys}) /\ Record(Sys, "start")
  /\ UNCHANGED <<state, files, dir, legacy>>

StartSystem ==
  /\ At("startSystem")
  /\ \/ /\ NamesAreFree(v2, legacy)
        /\ v2' = Started(v2, {Sys})
        /\ Goto("removeAbsent") /\ Record(Sys, "none") /\ UNCHANGED count
     \/ HandoffFails /\ v2' \in Partly(Started, v2, {Sys})
  /\ UNCHANGED <<state, files, dir, legacy>>

\* Mutant of RemoveAbsent: the records of failures outlive the directories.
RemoveAbsentForgetful ==
  /\ At("removeAbsent") /\ Fork("apps", "handover")
  /\ dir' = dir \cap (Wanted \cup {Sys})
  /\ v2' = Removed(v2, dir \ (Wanted \cup {Sys}))
  /\ UNCHANGED <<state, files, failed, legacy, count>>

\* The directory goes even when "down" failed.
RemoveAbsent ==
  /\ At("removeAbsent") /\ Fork("apps", "handover")
  /\ LET absent == dir \ (Wanted \cup {Sys}) IN
       /\ dir' = dir \ absent
       /\ failed' = [u \in Units |-> IF u \in absent THEN "none" ELSE failed[u]]
       /\ \/ v2' = Removed(v2, absent) /\ UNCHANGED count
          \/ absent # {} /\ Fault /\ v2' \in Partly(Removed, v2, absent)
  /\ UNCHANGED <<state, files, legacy>>

\* The legacy container stops last.  An app that came with the v2 state has
\* no service in the legacy compose file, and then the command fails.
StopLegacyApp(a) ==
  /\ At("apps") /\ stage[a] = "handover"
  /\ \/ /\ a \in old /\ legacy' = Halted(legacy, {a})
        /\ Stage(a, "start") /\ UNCHANGED <<failed, count>>
     \/ /\ IF a \in old THEN Fault ELSE UNCHANGED count
        /\ legacy' \in Partly(Halted, legacy, {a} \cap old) /\ Stage(a, "failed")
        /\ IF want[a] = "running" THEN Record(a, "start") ELSE UNCHANGED failed
  /\ UNCHANGED <<state, files, dir, v2>>

StopApp(a) ==
  /\ At("apps") /\ stage[a] = "start" /\ want[a] = "stopped"
  /\ dir' = dir \cup {a}
  /\ \/ v2' = Halted(v2, {a}) /\ Record(a, "none") /\ Stage(a, "ok") /\ UNCHANGED count
     \/ Fault /\ v2' \in Partly(Halted, v2, {a}) /\ Stage(a, "failed") /\ UNCHANGED failed
  /\ UNCHANGED <<state, files, legacy>>

\* Superseded: nothing starts, on either side.  Otherwise a failure hands
\* the app back.
StartApp(a) ==
  /\ At("apps") /\ stage[a] = "start" /\ want[a] = "running"
  /\ \/ v2' = Started(v2, {a}) /\ Record(a, "none") /\ Stage(a, "ok") /\ UNCHANGED count
     \/ Fault /\ Stage(a, "failed") /\ UNCHANGED <<v2, failed>>
     \/ Fault /\ v2' \in Partly(Started, v2, {a}) /\ Record(a, "start") /\ Stage(a, "return")
  /\ UNCHANGED <<state, files, dir, legacy>>

ReturnApp(a) ==
  /\ At("apps") /\ stage[a] = "return" /\ Stage(a, "failed")
  /\ \/ legacy[a] # "none" /\ legacy' = Started(legacy, {a}) /\ UNCHANGED count
     \/ legacy[a] = "none" /\ UNCHANGED <<legacy, count>>
     \/ legacy[a] # "none" /\ Fault /\ UNCHANGED legacy
  /\ UNCHANGED <<state, disk, v2>>

AllHandedOver ==
  /\ At("apps") /\ \A a \in Wanted : stage[a] \in {"ok", "failed"}
  /\ IF Failures THEN RollBack ELSE Goto("down")
  /\ UNCHANGED <<state, disk, containers, count>>

-----------------------------------------------------------------------------
(* Commit: the legacy project goes, then the marker says so, then what     *)
(* describes the legacy project goes.                                      *)

\* Mutant of TakeLegacyDown: the handoff goes on when "down" failed.
TakeLegacyDownAnyway ==
  /\ At("down") /\ Goto("mark")
  /\ \/ legacy' = Removed(legacy, Units) /\ UNCHANGED count
     \/ Fault /\ legacy' \in Partly(Removed, legacy, Legacy)
  /\ UNCHANGED <<state, disk, v2>>

TakeLegacyDown ==
  /\ At("down")
  /\ \/ legacy' = Removed(legacy, Units) /\ Goto("mark") /\ UNCHANGED count
     \/ Fault /\ legacy' \in Partly(Removed, legacy, Legacy) /\ RollBack
  /\ UNCHANGED <<state, disk, v2>>

\* A file operation that fails raises out of the apply.
Mark ==
  /\ At("mark")
  /\ \/ files' = files \cup {"marker"} /\ Goto("forgetState") /\ UNCHANGED count
     \/ Fault /\ End("raised") /\ UNCHANGED files
  /\ UNCHANGED <<state, dir, failed, containers>>

Forget(step, file, next) ==
  /\ At(step)
  /\ \/ /\ files' = files \ {file} /\ UNCHANGED count
        /\ IF next = "idle" THEN End("moved") ELSE Goto(next)
     \/ Fault /\ End("raised") /\ UNCHANGED files
  /\ UNCHANGED <<state, dir, failed, containers>>

Commit ==
  \/ TakeLegacyDown \/ Mark
  \/ Forget("forgetState", "state", "forgetCompose")
  \/ Forget("forgetCompose", "compose", "idle")

-----------------------------------------------------------------------------
(* Roll back: only the projects of the state are stopped; the legacy       *)
(* project is started even when a cleanup failed.                          *)

RollBackApps ==
  /\ At("rollbackApps") /\ pc' = "rollbackSystem"
  /\ \/ v2' = Halted(v2, Wanted \cap dir) /\ UNCHANGED <<dirty, count>>
     \/ /\ Wanted \cap dir # {} /\ Fault /\ dirty' = TRUE
        /\ v2' \in Partly(Halted, v2, Wanted \cap dir)
  /\ UNCHANGED <<state, disk, legacy, stage, forced, ended>>

RollBackSystem ==
  /\ At("rollbackSystem") /\ pc' = "restore"
  /\ \/ v2' = Removed(v2, {Sys}) /\ UNCHANGED <<dirty, count>>
     \/ Fault /\ dirty' = TRUE /\ v2' \in Partly(Halted, v2, {Sys})
  /\ UNCHANGED <<state, disk, legacy, stage, forced, ended>>

\* Mutant of RestoreLegacy: the result of the cleanup is not looked at.
RestoreLegacyOnly ==
  /\ At("restore")
  /\ IF NamesAreFree(legacy, v2) THEN legacy' = Started(legacy, Legacy) /\ End("rolled")
     ELSE legacy' = Started(legacy, old) /\ End("stuck")
  /\ UNCHANGED <<state, disk, v2, count>>

RestoreLegacy ==
  /\ At("restore")
  /\ \/ /\ NamesAreFree(legacy, v2)
        /\ legacy' = Started(legacy, Legacy)
        /\ End(IF dirty THEN "stuck" ELSE "rolled") /\ UNCHANGED count
     \/ /\ IF NamesAreFree(legacy, v2) THEN Fault ELSE UNCHANGED count
        /\ legacy' \in Partly(Started, legacy, old) /\ End("stuck")
  /\ UNCHANGED <<state, disk, v2>>

Restore == RollBackApps \/ RollBackSystem \/ RestoreLegacy

-----------------------------------------------------------------------------
\* A migrated device applies the system project like any other, and then
\* its apps (see AppProjects).
ApplySystem ==
  /\ At("applySystem") /\ dir' = dir \cup {Sys} /\ End("applied")
  /\ \/ failed[Sys] # "none" /\ UNCHANGED <<v2, failed, count>>
     \/ failed[Sys] = "none" /\ v2' = Started(v2, {Sys}) /\ UNCHANGED <<failed, count>>
     \/ /\ failed[Sys] = "none" /\ Fault
        /\ \/ Record(Sys, "pull") /\ UNCHANGED v2
           \/ Record(Sys, "start") /\ v2' \in Partly(Started, v2, {Sys})
  /\ UNCHANGED <<state, files, legacy>>

\* The process dies; containers go on, and Docker starts again after a power
\* loss those that ran.
Crash ==
  /\ ~At("idle") /\ Bounded("crash")
  /\ pc' = "idle" /\ ended' = "none" /\ UNCHANGED <<stage, forced, dirty>>
  /\ UNCHANGED <<state, disk, containers>>

Prepare == PrepareSystem \/ (\E a \in Apps : PrepareApp(a)) \/ AllPrepared
HandOff == CleanSystem \/ StopLegacySystem \/ RemoveLegacySystem \/ StartSystem \/ RemoveAbsent
HandOverApp(a) == StopLegacyApp(a) \/ StopApp(a) \/ StartApp(a) \/ ReturnApp(a)
Worker ==
  \/ Prepare \/ HandOff \/ AllHandedOver \/ Commit \/ Restore \/ ApplySystem
  \/ \E a \in Apps : HandOverApp(a)

Next ==
  \/ Reapply \/ ApplyNewState \/ Worker \/ Crash
  \/ \E a \in Apps : RetryFailedApp(a)

Spec == Init /\ [][Next]_vars

\* The worker goes on, and applies keep coming.
FairSpec ==
  /\ Spec
  /\ WF_vars(Reapply)
  /\ WF_vars(Worker /\ count' = count)

-----------------------------------------------------------------------------
Running(of) == {u \in Units : of[u] = "running"}

\* Types; a failure is on record only in a project's directory, and the
\* legacy project has no container without a service.
TypeOK ==
  /\ want \in [Apps -> {"running", "stopped", "absent"}]
  /\ old \subseteq Apps /\ forced \in Apps \cup {NoApp}
  /\ files \subseteq {"state", "compose", "marker"}
  /\ legacy \in [Units -> {"none", "stopped", "running"}]
  /\ v2 \in [Units -> {"none", "stopped", "running"}]
  /\ dir \subseteq Units
  /\ failed \in [Units -> {"none", "pull", "start"}]
  /\ \A u \in Units : failed[u] # "none" => u \in dir
  /\ \A u \in Units \ Legacy : legacy[u] = "none"
  /\ dirty \in BOOLEAN
  /\ ended \in {"none", "busy", "refused", "rolled", "stuck", "raised", "moved", "applied"}

\* Until the marker is there everything a rollback needs is there; once it is
\* there, no legacy container is left to compete with the v2 projects, and a
\* crash in the middle of a commit changes neither.
LegacyUntilCommitted ==
  IF "marker" \in files THEN \A u \in Units : legacy[u] = "none"
  ELSE {"state", "compose"} \subseteq files

\* A handoff that reports its end is complete: rolled back, the whole legacy
\* project runs and no v2 project of the state that has a directory does (one
\* whose "down" failed when the app left the state has none); committed, the
\* v2 projects run as the state wants them.
AllOrNothing ==
  /\ ended = "rolled" =>
       /\ Running(legacy) = Legacy
       /\ Running(v2) \cap ((Wanted \cap dir) \cup {Sys}) = {}
  /\ ended = "moved" => Running(v2) \cap (Wanted \cup {Sys}) = Starting \cup {Sys}

\* No app starts in its own project unless the v2 system runs, which serves
\* its name resolution.
AppsFollowSystem ==
  [][\A a \in Running(v2)' \ (Running(v2) \cup {Sys}) : Sys \in Running(v2)]_vars

Blocked ==
  \/ failed[Sys] = "pull"
  \/ \E a \in Starting : failed[a] # "none"
  \/ ~(Wanted \subseteq old)

\* Whatever failed or crashed on the way, the handoff is made in the end,
\* unless a failure is on record that only a new state or a restart command
\* takes away, or the state has an app that the legacy project never had.
MigrationCompletes == <>[](~Blocked) => <>[]("marker" \in files)

\* "any app failure rolls the whole handoff back so platform DNS never splits
\* across the legacy and v2 networks": after the preparation of an app failed,
\* the apps of the state do not run partly here and partly there.
NetworkNeverSplits ==
  ended = "refused" /\ Failures =>
    Running(legacy) \cap Wanted = {} \/ Running(v2) \cap Wanted = {}
=============================================================================
