---------------------------- MODULE AppProjects ----------------------------
(***************************************************************************)
(* The Compose project of one v2 app (dataplane.py) and the threads that   *)
(* work on it: the apply worker, repairs that a Docker event starts, and   *)
(* restart commands.  They share the project's lock, its compose file, the *)
(* marker of its last failure and its container; a newer submission        *)
(* publishes its target and thereby supersedes what is under way.          *)
(*                                                                         *)
(* The versions of the desired state are numbered; a version stands for    *)
(* the app's desired_generation and for its compose definition, so the     *)
(* cloud is assumed to raise the generation with every change of the app.  *)
(***************************************************************************)
EXTENDS Naturals, FiniteSets

CONSTANTS
  Last,      \* the last version
  Repairs,   \* repair threads
  Restarts,  \* restart commands
  Worker,    \* the apply worker
  NoThread,
  Budget     \* bounds: failing steps, process crashes, reconciles, exits

Versions == 1 .. Last
Threads == Repairs \cup Restarts \cup {Worker}

ASSUME ProjectsAssumption ==
  /\ Last \in Nat \ {0}
  /\ Repairs \cap Restarts = {} /\ Worker \notin Repairs \cup Restarts
  /\ NoThread \notin Threads
  /\ Budget \in [fault : Nat, crash : Nat, again : Nat, exit : Nat]

VARIABLES
  want,    \* what each version says of the app: running, stopped, absent
  newest,  \* the newest version sent
  target,  \* the version whose targets are published, 0 for none
  sent,    \* the newest version accepted
  saved,   \* the version on disk
  pc, ver, \* next step of each thread, the version of the app it works with
  holder,  \* who has the project lock
  file,    \* the version of the compose file, 0 for no project directory
  failed,  \* the version of .failed-compose-sig, 0 for none
  run,     \* the container: none, stopped, running
  cfg,     \* the version it was made from
  done,    \* how the last apply ended for this app
  excuse,  \* what else happened to the project since that apply began
  count    \* what is used of Budget

cloud == <<want, newest, target, sent>>
project == <<file, failed>>
container == <<run, cfg>>
vars == <<cloud, saved, pc, ver, holder, project, container, done, excuse, count>>

Bounded(what) ==
  /\ count[what] < Budget[what]
  /\ count' = [count EXCEPT ![what] = @ + 1]

\* A step that fails although nothing forces it to.
Fault == Bounded("fault")

Goto(t, step) == pc' = [pc EXCEPT ![t] = step]
Free == holder = NoThread
Take(t) == Free /\ holder' = t
Release == holder' = NoThread
Keep == UNCHANGED holder

\* Mutant of Superseded: the targets of removed apps stay as they were.
SupersededUnlessRemoved(t) ==
  t \notin Restarts /\ target # 0 /\ target # ver[t] /\ want[target] # "absent"

\* A restart has no reconcile context: it is never superseded.
Superseded(t) == t \notin Restarts /\ target # 0 /\ target # ver[t]

\* The end of thread t's work, whatever it holds.
End(t, how) ==
  /\ Goto(t, "idle")
  /\ holder' = IF holder = t THEN NoThread ELSE holder
  /\ IF t = Worker THEN done' = how /\ UNCHANGED excuse
     ELSE /\ UNCHANGED done
          /\ excuse' = IF how = "failed" THEN excuse \cup {"failed"} ELSE excuse

-----------------------------------------------------------------------------
Init ==
  /\ want \in [Versions -> {"running", "stopped", "absent"}]
  /\ newest = 1 /\ target = 0 /\ sent = 1 /\ saved = 1
  /\ pc = [t \in Threads |-> IF t = Worker THEN "boot" ELSE "new"]
  /\ ver = [t \in Threads |-> 1]
  /\ holder = NoThread
  /\ file = 0 /\ failed = 0 /\ run = "none" /\ cfg = 1
  /\ done = "none" /\ excuse = {}
  /\ count = [fault |-> 0, crash |-> 0, again |-> 0, exit |-> 0]

\* Targets are published before the submission is accepted or refused.
Submit ==
  /\ newest < Last
  /\ newest' = newest + 1 /\ target' = newest'
  /\ \/ sent' = newest' /\ UNCHANGED count
     \/ Fault /\ UNCHANGED sent
  /\ UNCHANGED <<want, saved, pc, ver, holder, project, container, done, excuse>>

-----------------------------------------------------------------------------
(* The worker: save the newest accepted state, remove or reconcile.        *)

StartApply ==
  /\ \/ pc[Worker] = "idle" /\ sent # saved /\ UNCHANGED count
     \/ pc[Worker] = "idle" /\ sent = saved /\ Bounded("again")
     \/ pc[Worker] = "boot" /\ UNCHANGED count
  /\ saved' = sent
  /\ ver' = [ver EXCEPT ![Worker] = sent]
  /\ done' = "busy" /\ excuse' = {}
  /\ Goto(Worker, CASE want[sent] = "absent" -> "remove"
                    [] want[sent] = "stopped" -> "begin"
                    [] OTHER -> "artifacts")
  /\ UNCHANGED <<cloud, holder, project, container>>

\* The directory goes even when "down" failed.
Remove ==
  /\ pc[Worker] = "remove" /\ Free
  /\ file' = 0 /\ failed' = 0
  /\ \/ /\ run' = IF file = 0 THEN run ELSE "none"
        /\ UNCHANGED count
     \/ file # 0 /\ Fault /\ UNCHANGED run
  /\ Goto(Worker, "idle") /\ Keep
  /\ done' = "ok"
  /\ excuse' = IF run' # "none" THEN excuse \cup {"orphan"} ELSE excuse
  /\ UNCHANGED <<cloud, saved, ver, cfg>>

-----------------------------------------------------------------------------
(* _reconcile_v2_app, by the worker or a repair; a restart of a failed     *)
(* project goes through the same steps and keeps the lock in between.      *)

Artifacts(t) ==
  /\ pc[t] = "artifacts"
  /\ \/ Goto(t, "prepare") /\ UNCHANGED <<count, holder, done, excuse>>
     \/ Fault /\ End(t, IF Superseded(t) THEN "superseded" ELSE "failed")
  /\ UNCHANGED <<cloud, saved, ver, project, container>>

\* The compose file is written before anything is compared.
Prepare(t) ==
  /\ pc[t] = "prepare" /\ t \notin Restarts
  /\ Free
  /\ file' = ver[t] /\ UNCHANGED failed
  /\ IF failed = ver[t] THEN End(t, "failed")
     ELSE Take(t) /\ Goto(t, "pull") /\ UNCHANGED <<done, excuse>>
  /\ UNCHANGED <<cloud, saved, ver, container, count>>

PrepareForced(t) ==
  /\ pc[t] = "prepare" /\ t \in Restarts
  /\ file' = ver[t] /\ failed' = IF failed = ver[t] THEN 0 ELSE failed
  /\ Goto(t, "pull") /\ Keep
  /\ UNCHANGED <<cloud, saved, ver, container, done, excuse, count>>

\* Every image is pulled before anything starts.
\* Mutant of Pull: the superseded return keeps the lock.
PullKeepsLock(t) ==
  /\ pc[t] = "pull"
  /\ \/ /\ ~Superseded(t) /\ Goto(t, IF t \in Restarts THEN "init" ELSE "begin")
        /\ IF t \in Restarts THEN Keep ELSE Release
     \/ Superseded(t) /\ Goto(t, "idle") /\ Keep
  /\ UNCHANGED <<cloud, saved, ver, project, container, done, excuse, count>>

Pulled(t) ==
  /\ ~Superseded(t)
  /\ IF t \in Restarts THEN Keep /\ Goto(t, "init")
     ELSE Release /\ Goto(t, "begin")
  /\ UNCHANGED <<failed, done, excuse, count>>

PullStops(t) ==
  \/ Superseded(t) /\ End(t, "superseded") /\ UNCHANGED <<failed, count>>
  \/ ~Superseded(t) /\ Fault /\ End(t, "failed") /\ failed' = ver[t]

Pull(t) ==
  /\ pc[t] = "pull"
  /\ Pulled(t) \/ PullStops(t)
  /\ UNCHANGED <<cloud, saved, ver, file, container>>

\* Mutant of Begin: the project lock is not taken.
BeginUnlocked(t) ==
  /\ pc[t] = "begin" /\ want[ver[t]] = "running"
  /\ Keep /\ Goto(t, "init")
  /\ UNCHANGED <<cloud, saved, ver, project, container, done, excuse, count>>

Begin(t) ==
  /\ pc[t] = "begin" /\ want[ver[t]] = "running"
  /\ IF Superseded(t) THEN Free /\ End(t, "superseded")
     ELSE Take(t) /\ Goto(t, "init") /\ UNCHANGED <<done, excuse>>
  /\ UNCHANGED <<cloud, saved, ver, project, container, count>>

\* A stopped app is stopped without a look at newer targets.
Stop(t) ==
  /\ pc[t] = "begin" /\ want[ver[t]] = "stopped" /\ Free
  /\ file' = ver[t]
  /\ \/ /\ run' = IF run = "none" THEN run ELSE "stopped"
        /\ failed' = 0 /\ End(t, "ok") /\ UNCHANGED count
     \/ Fault /\ End(t, "failed") /\ UNCHANGED <<run, failed>>
  /\ UNCHANGED <<cloud, saved, ver, cfg>>

\* Init services, then the runtime compose file and the second look.
InitServices(t) ==
  /\ pc[t] = "init"
  /\ \/ /\ file' = ver[t] /\ UNCHANGED <<failed, count>>
        /\ IF Superseded(t) THEN End(t, "superseded")
           ELSE Goto(t, "up") /\ Keep /\ UNCHANGED <<done, excuse>>
     \/ Fault /\ End(t, "failed") /\ failed' = ver[t] /\ UNCHANGED file
  /\ UNCHANGED <<cloud, saved, ver, container>>

UpWorks(t) ==
  /\ run' = "running" /\ cfg' = ver[t] /\ failed' = 0
  /\ End(t, "ok") /\ UNCHANGED count

\* up is tried again until it works, fails for good or is superseded; what
\* fails may still have replaced the container.
UpFails(t) ==
  /\ Fault
  /\ UNCHANGED container \/ (run' \in {"running", "stopped"} /\ cfg' = ver[t])
  /\ IF Superseded(t) THEN End(t, "superseded") /\ UNCHANGED failed
     ELSE End(t, "failed") /\ failed' = ver[t]

Up(t) ==
  /\ pc[t] = "up"
  /\ UpWorks(t) \/ UpFails(t)
  /\ UNCHANGED <<cloud, saved, ver, file>>

-----------------------------------------------------------------------------
(* A container that exits with code 0 starts a repair with the app as it   *)
(* is on disk; the event is lost while nobody listens.                     *)

Exit ==
  /\ run = "running" /\ Bounded("exit")
  /\ run' = "stopped"
  /\ \/ \E t \in Repairs :
          /\ pc[t] = "new" /\ want[saved] = "running"
          /\ Goto(t, "artifacts") /\ ver' = [ver EXCEPT ![t] = saved]
          /\ UNCHANGED excuse
     \/ excuse' = excuse \cup {"exit"} /\ UNCHANGED <<pc, ver>>
  /\ UNCHANGED <<cloud, saved, holder, project, cfg, done>>

(* The restart command reads the state, and looks at the lock once.        *)

ReadForRestart(t) ==
  /\ t \in Restarts /\ pc[t] = "new"
  /\ want[saved] = "running" /\ Free
  /\ ver' = [ver EXCEPT ![t] = saved]
  /\ Goto(t, "restart")
  /\ UNCHANGED <<cloud, saved, holder, project, container, done, excuse, count>>

\* Of a project that failed: prepare and start again, under the lock.
RestartFailed(t) ==
  /\ pc[t] = "restart" /\ failed = ver[t]
  /\ Take(t) /\ Goto(t, "artifacts")
  /\ excuse' = IF ver[t] = saved THEN excuse ELSE excuse \cup {"restart"}
  /\ UNCHANGED <<cloud, saved, ver, project, container, done, count>>

\* Otherwise the container is made anew from the compose file on disk.
Recreate(t) ==
  /\ pc[t] = "restart" /\ failed # ver[t]
  /\ Take(t) /\ Goto(t, "recreate")
  /\ excuse' = IF ver[t] = saved /\ file = saved THEN excuse ELSE excuse \cup {"restart"}
  /\ UNCHANGED <<cloud, saved, ver, project, container, done, count>>

Recreated(t) ==
  /\ pc[t] = "recreate"
  /\ \/ file # 0 /\ run' = "running" /\ cfg' = file /\ End(t, "ok") /\ UNCHANGED count
     \/ file = 0 /\ End(t, "failed") /\ UNCHANGED <<container, count>>
     \/ /\ file # 0 /\ Fault /\ End(t, "failed")
        /\ UNCHANGED container \/ (run' = "stopped" /\ cfg' = file)
  /\ UNCHANGED <<cloud, saved, ver, project>>

\* Mutant of Crash: the targets outlive the process.
CrashKeepsTargets ==
  /\ Bounded("crash")
  /\ pc' = [t \in Threads |-> IF t = Worker THEN "boot"
                              ELSE IF pc[t] = "new" THEN "new" ELSE "idle"]
  /\ holder' = NoThread /\ sent' = saved
  /\ excuse' = {} /\ done' = "none"
  /\ UNCHANGED <<want, newest, target, saved, ver, project, container>>

\* The process dies: threads, locks, targets and the pending state are gone.
Crash ==
  /\ Bounded("crash")
  /\ pc' = [t \in Threads |-> IF t = Worker THEN "boot"
                              ELSE IF pc[t] = "new" THEN "new" ELSE "idle"]
  /\ holder' = NoThread /\ target' = 0 /\ sent' = saved
  /\ excuse' = {} /\ done' = "none"
  /\ UNCHANGED <<want, newest, saved, ver, project, container>>

Reconcile(t) ==
  \/ Artifacts(t) \/ Prepare(t) \/ PrepareForced(t) \/ Pull(t)
  \/ Begin(t) \/ Stop(t) \/ InitServices(t) \/ Up(t)
Restart(t) == RestartFailed(t) \/ Recreate(t) \/ Recreated(t)
Apply == StartApply \/ Remove

Next ==
  \/ Submit \/ Apply \/ Exit \/ Crash
  \/ \E t \in Threads : Reconcile(t) \/ ReadForRestart(t) \/ Restart(t)

Spec == Init /\ [][Next]_vars

\* A thread that runs goes on, and gets the lock when it stays free.  A
\* state that was accepted is applied.
FairSpec ==
  /\ Spec
  /\ WF_vars(Apply /\ count' = count)
  /\ \A t \in Threads : WF_vars((Reconcile(t) \/ Restart(t)) /\ count' = count)

-----------------------------------------------------------------------------
Idle(t) == pc[t] \in {"new", "idle"}
Quiet == sent = saved /\ \A t \in Threads : Idle(t)

\* The app is as the saved state wants it.
Desired ==
  CASE want[saved] = "running" -> run = "running" /\ cfg = saved
    [] want[saved] = "stopped" -> run # "running"
    [] want[saved] = "absent"  -> run = "none"

\* Types, and the steps at which a thread has the project lock.
TypeOK ==
  /\ want \in [Versions -> {"running", "stopped", "absent"}]
  /\ newest \in Versions /\ target \in 0 .. newest
  /\ saved \in 1 .. newest /\ sent \in saved .. newest
  /\ ver \in [Threads -> 1 .. saved]
  /\ \A t \in Threads : holder = t => pc[t] \in
        {"pull", "init", "up", "recreate"} \cup
        (IF t \in Restarts THEN {"artifacts", "prepare"} ELSE {})
  /\ \A t \in Threads : pc[t] \in {"init", "up", "recreate", "pull"} => holder = t
  /\ file \in 0 .. saved /\ failed \in 0 .. saved
  /\ run \in {"none", "stopped", "running"} /\ cfg \in 1 .. saved
  /\ done \in {"none", "busy", "ok", "failed", "superseded"}
  /\ excuse \subseteq {"failed", "exit", "restart", "orphan"}

\* When everything is at rest after an apply that went well for the app, the
\* app is as the newest accepted state wants it, whatever repairs and
\* restarts ran on the way, unless one of them failed, a Docker event was
\* lost, "down" failed, a restart ran with an outdated app or file, or a
\* refused submission left its target behind.
RestIsDesired ==
  Quiet /\ done = "ok" /\ excuse = {} /\ target \in {0, saved} => Desired

\* An app is never left superseded when nothing newer is on its way, unless
\* the submission that superseded it was refused: that is a failing step.
SupersededIsReplaced ==
  Quiet /\ done = "superseded" => count.fault > 0

\* Work comes to an end: no thread keeps the lock or waits for ever.
EverythingSettles == <>[]Quiet

\* "Recreate guarantees the running container reflects the current compose":
\* also when no apply is under way and the last one went well.
RestartReflectsCurrent ==
  [][\A t \in Restarts :
       /\ pc[t] = "recreate" /\ run' = "running"
       /\ pc[Worker] = "idle" /\ done = "ok"
       /\ ver[t] = saved
       => cfg' = saved]_vars
=============================================================================
