------------------------- MODULE AppProjectsProofs -------------------------
(***************************************************************************)
(* The project of an app, for any number of versions, repairs, restarts,   *)
(* failing steps and crashes.                                              *)
(***************************************************************************)
EXTENDS AppProjects, TLAPS

Steps == {"boot", "new", "idle", "remove", "artifacts", "prepare", "pull",
          "begin", "init", "up", "restart", "recreate"}
Working(t) == pc[t] \notin {"new", "idle", "boot"}

\* Where a thread can be, and the lock that goes with it.
PlaceOf(t) ==
  /\ holder = t => pc[t] \in {"pull", "init", "up", "recreate"} \cup
                             (IF t \in Restarts THEN {"artifacts", "prepare"} ELSE {})
  /\ pc[t] \in {"init", "up", "recreate", "pull"} => holder = t
  /\ pc[t] \in {"boot", "remove"} => t = Worker
  /\ pc[t] \in {"restart", "recreate"} => t \in Restarts
  /\ pc[t] = "begin" => t \notin Restarts
  /\ pc[t] = "new" => t # Worker
  /\ t \in Restarts /\ pc[t] \in {"artifacts", "prepare"} => holder = t

Places ==
  /\ pc \in [Threads -> Steps] /\ holder \in Threads \cup {NoThread}
  /\ \A t \in Threads : PlaceOf(t)

\* What a thread works for wants the app to run; only the worker stops one
\* or removes it.
WantOf(t) ==
  /\ \/ pc[t] \in {"artifacts", "prepare", "pull", "init", "up", "restart", "recreate"}
     \/ pc[t] = "begin" /\ t # Worker
     => want[ver[t]] = "running"
  /\ pc[t] = "remove" => want[ver[t]] = "absent"

Wants == \A t \in Threads : WantOf(t)

\* A published target is the newest version; without one there is nothing
\* new, and everybody works with what is saved.
Targets ==
  /\ target # 0 => target = newest /\ (sent # target => count.fault > 0)
  /\ target = 0 => sent = saved /\ \A t \in Threads : Working(t) => ver[t] = saved

\* The worker works with what it saved, and is superseded by what it did not.
Works ==
  /\ done \in {"ok", "failed", "superseded"} => pc[Worker] = "idle"
  /\ Working(Worker) => ver[Worker] = saved
  /\ done = "superseded" => target \notin {0, saved}

\* After an apply that went well only threads that work with the saved state
\* get past the look at the targets, or a restart has an excuse.
GuardOf(t) ==
  /\ t \notin Restarts /\ pc[t] \in {"init", "up"} => ver[t] = saved
  /\ t \in Restarts /\ holder = t /\ excuse = {} =>
       ver[t] = saved /\ (pc[t] = "recreate" => file = saved)

Guards == done = "ok" => \A t \in Threads : GuardOf(t)

\* The app is as wanted, or a repair of what is wanted is under way.
Repairing == \E t \in Repairs : Working(t) /\ ver[t] = saved
Converges ==
  done = "ok" /\ excuse = {} /\ target \in {0, saved} => Desired \/ Repairing

CountTypes == count \in [fault : Nat, crash : Nat, again : Nat, exit : Nat]
IInv ==
  /\ TypeOK /\ CountTypes
  /\ Places /\ Wants /\ Targets /\ Works /\ Guards /\ Converges

-----------------------------------------------------------------------------
LEMMA InitIsSafe == Init => IInv
<1> SUFFICES ASSUME Init PROVE IInv
  OBVIOUS
<1>1. 1 \in Versions /\ Worker \in Threads /\ NoThread \notin Threads
  BY ProjectsAssumption DEF Versions, Threads
<1>2. TypeOK
  BY <1>1, ProjectsAssumption DEF Init, TypeOK, Versions
<1>3. Places
  BY <1>1 DEF Init, Places, PlaceOf, Steps
<1>4. Wants /\ Targets /\ Works
  BY <1>1 DEF Init, Wants, WantOf, Targets, Works, Working
<1>5. Guards /\ Converges /\ CountTypes
  BY DEF Init, Guards, Converges, CountTypes
<1>6. QED
  BY <1>2, <1>3, <1>4, <1>5 DEF IInv

-----------------------------------------------------------------------------
(* What is used of the budget never gets less.                             *)

NoLess == CountTypes' /\ count'.fault >= count.fault

LEMMA BudgetIsUsed ==
  ASSUME CountTypes, NEW what \in {"fault", "crash", "again", "exit"}, Bounded(what)
  PROVE  NoLess /\ (what = "fault" => count'.fault > 0)
  BY DEF Bounded, CountTypes, NoLess

LEMMA BudgetIsKept ==
  ASSUME CountTypes, UNCHANGED count
  PROVE  NoLess
  BY DEF CountTypes, NoLess

-----------------------------------------------------------------------------
(* A step of a thread on its way: what all of them have in common.         *)

Same ==
  /\ want' = want /\ newest' = newest /\ target' = target /\ sent' = sent
  /\ saved' = saved /\ ver' = ver
ProjectTypes ==
  /\ file \in 0 .. saved /\ failed \in 0 .. saved
  /\ run \in {"none", "stopped", "running"} /\ cfg \in 1 .. saved

\* Nobody's lock but its own is taken or left.
LockOf(t) ==
  /\ holder' \in Threads \cup {NoThread}
  /\ \A u \in Threads \ {t} : holder' = u <=> holder = u

\* The worker reports when it ends, the others leave their excuses.
ReportOf(t) ==
  /\ excuse \subseteq excuse' /\ excuse' \subseteq {"failed", "exit", "restart", "orphan"}
  /\ \/ done' = done /\ (t = Worker => pc'[t] # "idle")
     \/ /\ t = Worker /\ pc'[t] = "idle" /\ done' \in {"ok", "failed", "superseded"}
        /\ done' = "superseded" => Superseded(t)

Moves(t) ==
  /\ Same /\ NoLess /\ ProjectTypes' /\ LockOf(t) /\ ReportOf(t)
  /\ Working(t) /\ pc'[t] \notin {"new", "boot"}
  /\ pc' \in [Threads -> Steps] /\ \A u \in Threads \ {t} : pc'[u] = pc[u]

LEMMA MovesAreSafe ==
  ASSUME IInv, NEW t \in Threads, Moves(t), PlaceOf(t)', WantOf(t)', Guards', Converges'
  PROVE  IInv'
<1>1. Worker \in Threads /\ NoThread \notin Threads
  BY ProjectsAssumption DEF Threads
<1>2. Places'
  <2>1. ASSUME NEW u \in Threads PROVE PlaceOf(u)'
    <3>1. CASE u = t
      BY <3>1
    <3>2. CASE u # t
      <4>1. PlaceOf(u)
        BY DEF IInv, Places
      <4>2. pc'[u] = pc[u] /\ (holder' = u <=> holder = u)
        BY <3>2 DEF Moves, LockOf
      <4>3. QED
        BY <4>1, <4>2 DEF PlaceOf
    <3>3. QED
      BY <3>1, <3>2
  <2>2. QED
    BY <2>1 DEF Places, Moves, LockOf
<1>3. TypeOK'
  BY <1>2 DEF IInv, TypeOK, Moves, Same, ProjectTypes, ReportOf, Places, PlaceOf
<1>4. Wants'
  <2>1. ASSUME NEW u \in Threads, u # t PROVE WantOf(u)'
    <3>1. WantOf(u) /\ pc'[u] = pc[u] /\ want' = want /\ ver' = ver
      BY <2>1 DEF IInv, Wants, Moves, Same
    <3>2. QED
      BY <3>1 DEF WantOf
  <2>2. QED
    BY <2>1 DEF Wants
<1>5. \A u \in Threads : Working(u)' => Working(u)
  BY DEF Moves, Working
<1>6. Targets'
  BY <1>5 DEF IInv, Targets, Moves, Same, NoLess, TypeOK, CountTypes
<1>7. Works'
  <2>1. done' \in {"ok", "failed", "superseded"} => pc'[Worker] = "idle"
    BY <1>1 DEF IInv, Works, Moves, ReportOf, Working
  <2>2. Working(Worker)' => ver'[Worker] = saved'
    BY <1>1, <1>5 DEF IInv, Works, Moves, Same
  <2>3. done' = "superseded" => target' \notin {0, saved'}
    BY <1>1 DEF IInv, Works, Moves, Same, ReportOf, Superseded
  <2>4. QED
    BY <2>1, <2>2, <2>3 DEF Works
<1>8. CountTypes'
  BY DEF Moves, NoLess
<1>9. QED
  BY <1>2, <1>3, <1>4, <1>6, <1>7, <1>8 DEF IInv

\* The guards, when the step is no good end of the worker and only changes
\* the compose file with the lock in its hands.
LEMMA GuardsAreKept ==
  ASSUME IInv, NEW t \in Threads, Moves(t), done' = done, done = "ok" => GuardOf(t)',
         file' = file \/ holder \in {NoThread, t}
  PROVE  Guards'
<1> SUFFICES ASSUME done = "ok", NEW u \in Threads, u # t PROVE GuardOf(u)'
  BY DEF Guards
<1>1. GuardOf(u)
  BY DEF IInv, Guards
<1>2. /\ pc'[u] = pc[u] /\ ver' = ver /\ saved' = saved
      /\ holder' = u <=> holder = u
      /\ excuse' = {} => excuse = {}
  BY DEF Moves, Same, LockOf, ReportOf
<1>3. holder' = u => file' = file
  BY <1>2, ProjectsAssumption DEF Threads
<1>4. QED
  BY <1>1, <1>2, <1>3 DEF GuardOf

\* The worker ends well: nobody else is past the look at the targets.
LEMMA GoodEndsGuard ==
  ASSUME IInv, Moves(Worker), pc'[Worker] = "idle", holder \in {NoThread, Worker},
         holder' = NoThread
  PROVE  Guards'
<1>1. ASSUME NEW u \in Threads, u # Worker PROVE pc'[u] \notin {"init", "up"}
  BY <1>1, ProjectsAssumption DEF IInv, Places, PlaceOf, Moves, Threads
<1>2. NoThread \notin Threads
  BY ProjectsAssumption
<1>3. QED
  BY <1>1, <1>2 DEF Guards, GuardOf

\* The container is left alone, and what ends a repair is an excuse or a
\* newer target.
LEMMA ConvergenceIsKept ==
  ASSUME IInv, NEW t \in Threads, Moves(t), UNCHANGED container, done' = "ok" => done = "ok",
         t \in Repairs /\ pc'[t] = "idle" => excuse' # {} \/ Superseded(t)
  PROVE  Converges'
<1> SUFFICES ASSUME done' = "ok", excuse' = {}, target' \in {0, saved'}
             PROVE  Desired' \/ Repairing'
  BY DEF Converges
<1>1. run' = run /\ cfg' = cfg /\ want' = want /\ saved' = saved /\ ver' = ver /\ target' = target
  BY DEF container, Moves, Same
<1>2. excuse = {} /\ done = "ok" /\ target \in {0, saved}
  BY <1>1 DEF Moves, ReportOf
<1>3. CASE Desired
  BY <1>1, <1>3 DEF Desired
<1>4. CASE Repairing
  <2>1. PICK r \in Repairs : Working(r) /\ ver[r] = saved
    BY <1>4 DEF Repairing
  <2>2. Working(r)'
    <3>1. CASE r = t
      BY <2>1, <3>1, <1>2 DEF Superseded, Moves, Working
    <3>2. CASE r # t
      BY <2>1, <3>2 DEF Moves, Working, Threads
    <3>3. QED
      BY <3>1, <3>2
  <2>3. QED
    BY <2>1, <2>2, <1>1 DEF Repairing
<1>5. QED
  BY <1>2, <1>3, <1>4 DEF IInv, Converges

\* The end of a thread's work.
LEMMA EndMoves ==
  ASSUME IInv, NEW t \in Threads, Working(t), NEW how \in {"ok", "failed", "superseded"},
         End(t, how), how = "superseded" => Superseded(t), Same, NoLess, ProjectTypes'
  PROVE  /\ Moves(t) /\ PlaceOf(t)' /\ WantOf(t)' /\ GuardOf(t)' /\ pc'[t] = "idle"
         /\ t = Worker => done' = how
         /\ t # Worker => done' = done
         /\ t # Worker /\ how = "failed" => excuse' # {}
         /\ holder = t => holder' = NoThread
         /\ holder = NoThread => holder' = NoThread
<1>1. NoThread \notin Threads
  BY ProjectsAssumption
<1>2. pc' = [pc EXCEPT ![t] = "idle"] /\ pc \in [Threads -> Steps]
  BY DEF End, Goto, IInv, Places
<1>3. /\ pc' \in [Threads -> Steps] /\ pc'[t] = "idle"
      /\ \A u \in Threads \ {t} : pc'[u] = pc[u]
  BY <1>2 DEF Steps
<1>4. LockOf(t) /\ holder' # t
  BY <1>1 DEF End, LockOf, IInv, Places
<1>5. ReportOf(t)
  BY <1>3 DEF End, ReportOf, IInv, TypeOK
<1>6. Moves(t)
  BY <1>3, <1>4, <1>5 DEF Moves
<1>7. PlaceOf(t)' /\ WantOf(t)' /\ GuardOf(t)'
  BY <1>3, <1>4 DEF PlaceOf, WantOf, GuardOf
<1>8. QED
  BY <1>3, <1>6, <1>7 DEF End

\* A step to another one.
LEMMA GotoMoves ==
  ASSUME IInv, NEW t \in Threads, Working(t), NEW s \in Steps \ {"new", "boot", "idle"},
         Goto(t, s), LockOf(t), Same, NoLess, ProjectTypes', done' = done,
         excuse \subseteq excuse', excuse' \subseteq {"failed", "exit", "restart", "orphan"}
  PROVE  Moves(t) /\ pc'[t] = s
<1>1. pc' = [pc EXCEPT ![t] = s] /\ pc \in [Threads -> Steps]
  BY DEF Goto, IInv, Places
<1>2. /\ pc' \in [Threads -> Steps] /\ pc'[t] = s
      /\ \A u \in Threads \ {t} : pc'[u] = pc[u]
  BY <1>1
<1>3. ReportOf(t)
  BY <1>2 DEF ReportOf
<1>4. QED
  BY <1>2, <1>3 DEF Moves

\* Keeping, taking and releasing the lock.
LEMMA LocksAreKept ==
  ASSUME IInv, NEW t \in Threads, Keep \/ Take(t) \/ (Release /\ holder = t)
  PROVE  LockOf(t)
  BY ProjectsAssumption DEF IInv, Places, LockOf, Keep, Take, Release, Free

LEMMA TypesOfProject ==
  ASSUME IInv
  PROVE  /\ ProjectTypes /\ ver \in [Threads -> 1 .. saved] /\ saved \in Nat
         /\ excuse \subseteq {"failed", "exit", "restart", "orphan"}
         /\ \A t \in Threads : ver[t] \in 0 .. saved /\ ver[t] \in 1 .. saved
  BY DEF IInv, TypeOK, ProjectTypes, Versions

\* A thread that stops without a result, with the container as it was.
LEMMA StoppedIsSafe ==
  ASSUME IInv, NEW t \in Threads, Working(t), NEW how \in {"failed", "superseded"},
         End(t, how), how = "superseded" => Superseded(t), Same, NoLess, ProjectTypes',
         UNCHANGED container, file' = file \/ holder \in {NoThread, t}
  PROVE  IInv'
<1>1. /\ Moves(t) /\ PlaceOf(t)' /\ WantOf(t)' /\ GuardOf(t)' /\ pc'[t] = "idle"
      /\ t = Worker => done' = how
      /\ t # Worker => done' = done
      /\ t # Worker /\ how = "failed" => excuse' # {}
  BY EndMoves
<1>2. Guards'
  BY <1>1, GuardsAreKept DEF Guards
<1>3. Converges'
  <2>1. Worker \notin Repairs
    BY ProjectsAssumption
  <2>2. QED
    BY <1>1, <2>1, ConvergenceIsKept
<1>4. QED
  BY <1>1, <1>2, <1>3, MovesAreSafe

-----------------------------------------------------------------------------
(* The steps of a reconcile, one lemma each.                               *)

LEMMA ArtifactsIsSafe ==
  ASSUME IInv, NEW t \in Threads, Artifacts(t)
  PROVE  IInv'
<1>1. Working(t) /\ Same /\ ProjectTypes' /\ UNCHANGED container /\ file' = file
  BY TypesOfProject DEF Artifacts, Working, Same, cloud, project, container, ProjectTypes
<1>2. WantOf(t) /\ PlaceOf(t) /\ want[ver[t]] = "running" /\ CountTypes
  BY DEF IInv, Wants, WantOf, Places, Artifacts
<1>3. CASE Goto(t, "prepare") /\ UNCHANGED <<count, holder, done, excuse>>
  <2>1. Moves(t) /\ pc'[t] = "prepare"
    BY <1>1, <1>2, <1>3, GotoMoves, LocksAreKept, BudgetIsKept, TypesOfProject DEF Steps, Keep
  <2>2. PlaceOf(t)' /\ WantOf(t)'
    BY <1>1, <1>2, <1>3, <2>1 DEF PlaceOf, WantOf, Artifacts, Same
  <2>3. done = "ok" => GuardOf(t)'
    BY <1>1, <1>3, <2>1 DEF GuardOf, IInv, Guards, Same
  <2>4. Guards' /\ Converges'
    BY <1>1, <1>3, <2>1, <2>3, GuardsAreKept, ConvergenceIsKept
  <2>5. QED
    BY <2>1, <2>2, <2>4, MovesAreSafe
<1>4. CASE Fault /\ End(t, IF Superseded(t) THEN "superseded" ELSE "failed")
  <2>1. PICK how \in {"superseded", "failed"} :
          End(t, how) /\ (how = "superseded" => Superseded(t))
    BY <1>4
  <2>2. NoLess
    BY <1>2, <1>4, BudgetIsUsed DEF Fault
  <2>3. QED
    BY <1>1, <2>1, <2>2, StoppedIsSafe
<1>5. QED
  BY <1>3, <1>4 DEF Artifacts

LEMMA PrepareIsSafe ==
  ASSUME IInv, NEW t \in Threads, Prepare(t)
  PROVE  IInv'
<1>1. /\ Working(t) /\ Same /\ ProjectTypes' /\ UNCHANGED container /\ NoLess
      /\ holder = NoThread
  BY TypesOfProject, BudgetIsKept
  DEF Prepare, Working, Same, cloud, project, container, ProjectTypes, Free, IInv
<1>2. PlaceOf(t) /\ want[ver[t]] = "running"
  BY DEF IInv, Wants, WantOf, Places, Prepare
<1>3. CASE End(t, "failed")
  BY <1>1, <1>3, StoppedIsSafe
<1>4. CASE Take(t) /\ Goto(t, "pull") /\ UNCHANGED <<done, excuse>>
  <2>1. Moves(t) /\ pc'[t] = "pull" /\ holder' = t
    BY <1>1, <1>4, GotoMoves, LocksAreKept, TypesOfProject DEF Steps, Take
  <2>2. PlaceOf(t)' /\ WantOf(t)' /\ GuardOf(t)'
    BY <1>1, <1>2, <2>1 DEF PlaceOf, WantOf, Prepare, Same, GuardOf
  <2>3. Guards'
    BY <1>1, <1>4, <2>1, <2>2, GuardsAreKept
  <2>4. Converges'
    BY <1>1, <1>4, <2>1, ConvergenceIsKept
  <2>5. QED
    BY <2>1, <2>2, <2>3, <2>4, MovesAreSafe
<1>5. QED
  BY <1>3, <1>4 DEF Prepare

LEMMA PrepareForcedIsSafe ==
  ASSUME IInv, NEW t \in Threads, PrepareForced(t)
  PROVE  IInv'
<1>1. /\ Working(t) /\ Same /\ ProjectTypes' /\ UNCHANGED container /\ NoLess
      /\ done' = done /\ excuse' = excuse
  BY TypesOfProject, BudgetIsKept
  DEF PrepareForced, Working, Same, cloud, container, ProjectTypes, IInv
<1>2. PlaceOf(t) /\ want[ver[t]] = "running" /\ holder = t /\ holder' = holder
  BY DEF IInv, Wants, WantOf, Places, PlaceOf, PrepareForced, Keep
<1>3. Moves(t) /\ pc'[t] = "pull"
  BY <1>1, GotoMoves, LocksAreKept, TypesOfProject DEF Steps, PrepareForced
<1>4. PlaceOf(t)' /\ WantOf(t)'
  BY <1>1, <1>2, <1>3 DEF PlaceOf, WantOf, PrepareForced, Same
<1>5. done = "ok" => GuardOf(t)'
  BY <1>1, <1>2, <1>3 DEF GuardOf, IInv, Guards, Same, PrepareForced
<1>6. Guards' /\ Converges'
  BY <1>1, <1>2, <1>3, <1>5, GuardsAreKept, ConvergenceIsKept
<1>7. QED
  BY <1>3, <1>4, <1>6, MovesAreSafe

LEMMA PullIsSafe ==
  ASSUME IInv, NEW t \in Threads, Pull(t)
  PROVE  IInv'
<1>1. /\ Working(t) /\ Same /\ UNCHANGED container /\ file' = file
      /\ PlaceOf(t) /\ want[ver[t]] = "running" /\ holder = t /\ CountTypes
  BY DEF Pull, Working, Same, cloud, container, IInv, Wants, WantOf, Places, PlaceOf
<1>2. CASE Pulled(t)
  <2>1. ProjectTypes' /\ NoLess /\ done' = done /\ excuse' = excuse
    BY <1>1, <1>2, TypesOfProject, BudgetIsKept DEF Pulled, ProjectTypes, Same, container
  <2>2. PICK s \in {"init", "begin"} :
          /\ Goto(t, s) /\ (s = "init" <=> t \in Restarts)
          /\ IF s = "init" THEN Keep ELSE Release
    BY <1>2 DEF Pulled
  <2>3. Moves(t) /\ pc'[t] = s
    BY <1>1, <2>1, <2>2, GotoMoves, LocksAreKept, TypesOfProject DEF Steps
  <2>4. holder' = IF s = "init" THEN t ELSE NoThread
    BY <1>1, <2>2 DEF Keep, Release
  <2>5. PlaceOf(t)' /\ WantOf(t)'
    BY <1>1, <2>2, <2>3, <2>4, ProjectsAssumption DEF PlaceOf, WantOf, Same
  <2>6. done = "ok" => GuardOf(t)'
    BY <1>1, <2>1, <2>2, <2>3, <2>4 DEF GuardOf, IInv, Guards, Same
  <2>7. Guards' /\ Converges'
    BY <1>1, <2>1, <2>3, <2>6, GuardsAreKept, ConvergenceIsKept
  <2>8. QED
    BY <2>3, <2>5, <2>7, MovesAreSafe
<1>3. CASE PullStops(t)
  <2>1. NoLess /\ ProjectTypes'
    BY <1>1, <1>3, TypesOfProject, BudgetIsKept, BudgetIsUsed
    DEF PullStops, ProjectTypes, Same, container, Fault
  <2>2. PICK how \in {"superseded", "failed"} :
          End(t, how) /\ (how = "superseded" => Superseded(t))
    BY <1>3 DEF PullStops
  <2>3. QED
    BY <1>1, <2>1, <2>2, StoppedIsSafe
<1>4. QED
  BY <1>2, <1>3 DEF Pull

LEMMA BeginIsSafe ==
  ASSUME IInv, NEW t \in Threads, Begin(t)
  PROVE  IInv'
<1>1. /\ Working(t) /\ Same /\ UNCHANGED container /\ file' = file /\ ProjectTypes' /\ NoLess
      /\ PlaceOf(t) /\ want[ver[t]] = "running" /\ t \notin Restarts
  BY TypesOfProject, BudgetIsKept
  DEF Begin, Working, Same, cloud, container, project, ProjectTypes, IInv, Places, PlaceOf
<1>2. CASE Superseded(t)
  BY <1>1, <1>2, StoppedIsSafe DEF Begin, Free
<1>3. CASE ~Superseded(t)
  <2>1. holder = NoThread /\ Take(t) /\ Goto(t, "init") /\ done' = done /\ excuse' = excuse
    BY <1>3 DEF Begin, Take, Free
  <2>2. Moves(t) /\ pc'[t] = "init" /\ holder' = t
    BY <1>1, <2>1, GotoMoves, LocksAreKept, TypesOfProject DEF Steps, Take
  <2>3. ver[t] = saved
    <3>1. CASE target = 0
      BY <1>1, <3>1 DEF IInv, Targets
    <3>2. CASE target # 0
      BY <1>1, <1>3, <3>2, ProjectsAssumption
      DEF IInv, Targets, TypeOK, Superseded, Versions
    <3>3. QED
      BY <3>1, <3>2
  <2>4. PlaceOf(t)' /\ WantOf(t)' /\ GuardOf(t)'
    BY <1>1, <2>2, <2>3 DEF PlaceOf, WantOf, GuardOf, Same
  <2>5. Guards' /\ Converges'
    BY <1>1, <2>1, <2>2, <2>4, GuardsAreKept, ConvergenceIsKept
  <2>6. QED
    BY <2>2, <2>4, <2>5, MovesAreSafe
<1>4. QED
  BY <1>2, <1>3

LEMMA InitServicesIsSafe ==
  ASSUME IInv, NEW t \in Threads, InitServices(t)
  PROVE  IInv'
<1>1. /\ Working(t) /\ Same /\ UNCHANGED container /\ PlaceOf(t) /\ want[ver[t]] = "running"
      /\ holder = t /\ CountTypes
  BY DEF InitServices, Working, Same, cloud, container, IInv, Wants, WantOf, Places, PlaceOf
<1>2. NoLess /\ ProjectTypes'
  BY <1>1, TypesOfProject, BudgetIsKept, BudgetIsUsed
  DEF InitServices, ProjectTypes, Same, container, Fault
<1>3. CASE Goto(t, "up") /\ Keep /\ UNCHANGED <<done, excuse>>
  <2>1. Moves(t) /\ pc'[t] = "up" /\ holder' = t
    BY <1>1, <1>2, <1>3, GotoMoves, LocksAreKept, TypesOfProject DEF Steps, Keep
  <2>2. PlaceOf(t)' /\ WantOf(t)'
    BY <1>1, <2>1 DEF PlaceOf, WantOf, Same
  <2>3. done = "ok" => GuardOf(t)'
    BY <1>1, <1>3, <2>1 DEF GuardOf, IInv, Guards, Same, InitServices
  <2>4. Guards' /\ Converges'
    BY <1>1, <1>3, <2>1, <2>3, GuardsAreKept, ConvergenceIsKept
  <2>5. QED
    BY <2>1, <2>2, <2>4, MovesAreSafe
<1>4. CASE \E how \in {"superseded", "failed"} :
             End(t, how) /\ (how = "superseded" => Superseded(t))
  BY <1>1, <1>2, <1>4, StoppedIsSafe
<1>5. QED
  BY <1>3, <1>4 DEF InitServices

\* Only the worker stops an app, and with nobody past the look at the targets.
LEMMA StopIsSafe ==
  ASSUME IInv, NEW t \in Threads, Stop(t)
  PROVE  IInv'
<1>1. /\ Working(t) /\ Same /\ t = Worker /\ holder = NoThread /\ ver[t] = saved
      /\ want[saved] = "stopped" /\ cfg' = cfg /\ CountTypes
  BY DEF Stop, Working, Same, cloud, IInv, Wants, WantOf, Works, Free
<1>2. NoLess /\ ProjectTypes'
  BY <1>1, TypesOfProject, BudgetIsKept, BudgetIsUsed
  DEF Stop, ProjectTypes, Same, Fault
<1>3. CASE End(t, "ok") /\ run' = IF run = "none" THEN run ELSE "stopped"
  <2>1. Moves(t) /\ PlaceOf(t)' /\ WantOf(t)' /\ pc'[t] = "idle" /\ holder' = NoThread
    BY <1>1, <1>2, <1>3, EndMoves
  <2>2. Guards'
    BY <1>1, <2>1, GoodEndsGuard
  <2>3. Converges'
    BY <1>1, <1>3 DEF Converges, Desired, Same
  <2>4. QED
    BY <2>1, <2>2, <2>3, MovesAreSafe
<1>4. CASE End(t, "failed") /\ UNCHANGED <<run, failed>>
  BY <1>1, <1>2, <1>4, StoppedIsSafe DEF container
<1>5. QED
  BY <1>3, <1>4 DEF Stop

\* "up" leaves the container of the version it works with, which is the
\* saved one whenever the last apply went well.
LEMMA UpIsSafe ==
  ASSUME IInv, NEW t \in Threads, Up(t)
  PROVE  IInv'
<1>1. /\ Working(t) /\ Same /\ file' = file /\ PlaceOf(t) /\ want[ver[t]] = "running"
      /\ holder = t /\ CountTypes
  BY DEF Up, Working, Same, cloud, IInv, Wants, WantOf, Places, PlaceOf
<1>2. NoLess /\ ProjectTypes'
  BY <1>1, TypesOfProject, BudgetIsKept, BudgetIsUsed
  DEF Up, UpWorks, UpFails, ProjectTypes, Same, container, Fault
<1>3. t = Worker \/ (done = "ok" /\ excuse = {}) => ver[t] = saved
  <2>1. CASE t = Worker
    BY <1>1, <2>1 DEF IInv, Works
  <2>2. CASE t # Worker /\ done = "ok" /\ excuse = {}
    BY <1>1, <2>2 DEF IInv, Guards, GuardOf, Up
  <2>3. QED
    BY <2>1, <2>2
<1>4. CASE UpWorks(t)
  <2>1. /\ Moves(t) /\ PlaceOf(t)' /\ WantOf(t)' /\ GuardOf(t)' /\ pc'[t] = "idle"
        /\ t # Worker => done' = done
        /\ holder' = NoThread
    BY <1>1, <1>2, <1>4, EndMoves DEF UpWorks
  <2>2. Guards'
    <3>1. CASE t = Worker
      BY <1>1, <2>1, <3>1, GoodEndsGuard
    <3>2. CASE t # Worker
      BY <1>1, <2>1, <3>2, GuardsAreKept
    <3>3. QED
      BY <3>1, <3>2
  <2>3. Converges'
    <3>1. done' = "ok" /\ excuse' = {} => ver[t] = saved
      BY <1>3, <2>1 DEF Moves, ReportOf
    <3>2. run' = "running" /\ cfg' = ver[t]
      BY <1>4 DEF UpWorks
    <3>3. QED
      BY <1>1, <3>1, <3>2 DEF Converges, Desired, Same
  <2>4. QED
    BY <2>1, <2>2, <2>3, MovesAreSafe
<1>5. CASE UpFails(t)
  <2>1. PICK how \in {"superseded", "failed"} :
          End(t, how) /\ (how = "superseded" => Superseded(t))
    BY <1>5 DEF UpFails
  <2>2. /\ Moves(t) /\ PlaceOf(t)' /\ WantOf(t)' /\ GuardOf(t)'
        /\ t = Worker => done' = how
        /\ t # Worker => done' = done
        /\ t # Worker /\ how = "failed" => excuse' # {}
    BY <1>1, <1>2, <2>1, EndMoves
  <2>3. Guards'
    BY <1>1, <2>2, GuardsAreKept DEF Guards
  <2>4. Converges'
    <3>1. SUFFICES ASSUME done' = "ok", excuse' = {} PROVE target' \notin {0, saved'}
      BY DEF Converges
    <3>2. t # Worker /\ done = "ok" /\ excuse = {} /\ Superseded(t)
      BY <2>1, <2>2, <3>1 DEF Moves, ReportOf
    <3>3. QED
      BY <1>1, <1>3, <3>2 DEF Superseded, Same
  <2>5. QED
    BY <2>2, <2>3, <2>4, MovesAreSafe
<1>6. QED
  BY <1>4, <1>5 DEF Up

-----------------------------------------------------------------------------
(* The restart command, the exit of the container and the worker's ends.   *)

\* A thread begins to work with the saved version.
LEMMA StartsAreSafe ==
  ASSUME IInv, NEW t \in Threads, t # Worker, pc[t] = "new", want[saved] = "running",
         NEW s \in {"artifacts", "restart"}, s = "restart" <=> t \in Restarts,
         Goto(t, s), ver' = [ver EXCEPT ![t] = saved], holder' = holder,
         want' = want, newest' = newest, target' = target, sent' = sent, saved' = saved,
         done' = done, excuse \subseteq excuse',
         excuse' \subseteq {"failed", "exit", "restart", "orphan"},
         NoLess, ProjectTypes', file' = file, Converges'
  PROVE  IInv'
<1>1. /\ Worker \in Threads /\ NoThread \notin Threads
      /\ saved \in 1 .. saved /\ ver \in [Threads -> 1 .. saved] /\ pc \in [Threads -> Steps]
      /\ PlaceOf(t) /\ pc' = [pc EXCEPT ![t] = s]
  BY ProjectsAssumption DEF Threads, IInv, TypeOK, Versions, Places, Goto
<1>2. /\ pc' \in [Threads -> Steps] /\ pc'[t] = s /\ ver'[t] = saved
      /\ \A u \in Threads \ {t} : pc'[u] = pc[u] /\ ver'[u] = ver[u]
      /\ ver' \in [Threads -> 1 .. saved]
  BY <1>1 DEF Steps
<1>3. Places'
  <2>1. ASSUME NEW u \in Threads, u # t PROVE PlaceOf(u)'
    <3>1. PlaceOf(u)
      BY DEF IInv, Places
    <3>2. QED
      BY <1>2, <2>1, <3>1 DEF PlaceOf
  <2>2. holder # t
    BY <1>1 DEF PlaceOf
  <2>3. PlaceOf(t)'
    BY <1>1, <1>2, <2>2 DEF PlaceOf
  <2>4. QED
    BY <1>2, <2>1, <2>3 DEF Places, IInv
<1>4. TypeOK'
  BY <1>2, <1>3 DEF IInv, TypeOK, ProjectTypes, Places, PlaceOf
<1>5. Wants'
  <2>1. ASSUME NEW u \in Threads, u # t PROVE WantOf(u)'
    BY <1>2, <2>1 DEF IInv, Wants, WantOf
  <2>2. WantOf(t)'
    BY <1>2 DEF WantOf
  <2>3. QED
    BY <2>1, <2>2 DEF Wants
<1>6. Targets'
  <2>1. \A u \in Threads \ {t} : Working(u)' => Working(u)
    BY <1>2 DEF Working
  <2>2. QED
    BY <1>2, <2>1 DEF IInv, Targets, NoLess, TypeOK, CountTypes
<1>7. Works'
  BY <1>1, <1>2 DEF IInv, Works, Working
<1>8. Guards'
  BY <1>1, <1>2 DEF IInv, Guards, GuardOf
<1>9. QED
  BY <1>3, <1>4, <1>5, <1>6, <1>7, <1>8 DEF IInv, NoLess

LEMMA ReadForRestartIsSafe ==
  ASSUME IInv, NEW t \in Threads, ReadForRestart(t)
  PROVE  IInv'
<1>1. /\ t \in Restarts /\ t # Worker /\ t \notin Repairs /\ pc[t] = "new"
      /\ want[saved] = "running" /\ Goto(t, "restart")
      /\ ver' = [ver EXCEPT ![t] = saved] /\ holder' = holder
      /\ want' = want /\ newest' = newest /\ target' = target /\ sent' = sent /\ saved' = saved
      /\ done' = done /\ excuse' = excuse /\ file' = file /\ failed' = failed
      /\ run' = run /\ cfg' = cfg /\ count' = count
  BY ProjectsAssumption DEF ReadForRestart, cloud, project, container
<1>2. NoLess /\ ProjectTypes'
  BY <1>1, TypesOfProject, BudgetIsKept DEF IInv, ProjectTypes
<1>3. Converges'
  <2>1. Desired => Desired'
    BY <1>1 DEF Desired
  <2>2. ASSUME NEW r \in Repairs, Working(r), ver[r] = saved
        PROVE  Working(r)' /\ ver'[r] = saved'
    BY <1>1, <2>2 DEF Working, Goto, IInv, Places, TypeOK, Threads
  <2>3. Repairing => Repairing'
    BY <2>2 DEF Repairing
  <2>4. QED
    BY <1>1, <2>1, <2>3 DEF IInv, Converges
<1>4. QED
  BY <1>1, <1>2, <1>3, TypesOfProject, StartsAreSafe

\* What a restart starts with: the saved version, or an excuse.
LEMMA RestartFailedIsSafe ==
  ASSUME IInv, NEW t \in Threads, RestartFailed(t)
  PROVE  IInv'
<1>1. /\ Working(t) /\ Same /\ UNCHANGED container /\ file' = file /\ done' = done
      /\ ProjectTypes' /\ NoLess /\ PlaceOf(t) /\ want[ver[t]] = "running"
      /\ t \in Restarts /\ holder = NoThread
  BY TypesOfProject, BudgetIsKept
  DEF RestartFailed, Working, Same, cloud, project, container, ProjectTypes, Take, Free,
      IInv, Wants, WantOf, Places, PlaceOf
<1>2. /\ excuse \subseteq excuse' /\ excuse' \subseteq {"failed", "exit", "restart", "orphan"}
      /\ excuse' = {} => ver[t] = saved
  BY TypesOfProject DEF RestartFailed
<1>3. Moves(t) /\ pc'[t] = "artifacts" /\ holder' = t
  BY <1>1, <1>2, GotoMoves, LocksAreKept DEF Steps, Take, RestartFailed
<1>4. PlaceOf(t)' /\ WantOf(t)' /\ GuardOf(t)'
  BY <1>1, <1>2, <1>3 DEF PlaceOf, WantOf, GuardOf, Same
<1>5. Guards' /\ Converges'
  BY <1>1, <1>3, <1>4, GuardsAreKept, ConvergenceIsKept
<1>6. QED
  BY <1>3, <1>4, <1>5, MovesAreSafe

LEMMA RecreateIsSafe ==
  ASSUME IInv, NEW t \in Threads, Recreate(t)
  PROVE  IInv'
<1>1. /\ Working(t) /\ Same /\ UNCHANGED container /\ file' = file /\ done' = done
      /\ ProjectTypes' /\ NoLess /\ PlaceOf(t) /\ want[ver[t]] = "running"
      /\ t \in Restarts /\ holder = NoThread
  BY TypesOfProject, BudgetIsKept
  DEF Recreate, Working, Same, cloud, project, container, ProjectTypes, Take, Free,
      IInv, Wants, WantOf, Places, PlaceOf
<1>2. /\ excuse \subseteq excuse' /\ excuse' \subseteq {"failed", "exit", "restart", "orphan"}
      /\ excuse' = {} => ver[t] = saved /\ file = saved
  BY TypesOfProject DEF Recreate
<1>3. Moves(t) /\ pc'[t] = "recreate" /\ holder' = t
  BY <1>1, <1>2, GotoMoves, LocksAreKept DEF Steps, Take, Recreate
<1>4. PlaceOf(t)' /\ WantOf(t)' /\ GuardOf(t)'
  BY <1>1, <1>2, <1>3 DEF PlaceOf, WantOf, GuardOf, Same
<1>5. Guards' /\ Converges'
  BY <1>1, <1>3, <1>4, GuardsAreKept, ConvergenceIsKept
<1>6. QED
  BY <1>3, <1>4, <1>5, MovesAreSafe

LEMMA RecreatedIsSafe ==
  ASSUME IInv, NEW t \in Threads, Recreated(t)
  PROVE  IInv'
<1>1. /\ Working(t) /\ Same /\ UNCHANGED <<file, failed>> /\ PlaceOf(t)
      /\ want[ver[t]] = "running" /\ t \in Restarts /\ t # Worker /\ holder = t /\ CountTypes
  BY ProjectsAssumption
  DEF Recreated, Working, Same, cloud, project, IInv, Wants, WantOf, Places, PlaceOf
<1>2. NoLess /\ ProjectTypes'
  BY <1>1, TypesOfProject, BudgetIsKept, BudgetIsUsed
  DEF Recreated, ProjectTypes, Same, container, Fault
<1>3. PICK how \in {"ok", "failed"} :
        End(t, how) /\ (how = "ok" => run' = "running" /\ cfg' = file)
  BY DEF Recreated
<1>4. /\ Moves(t) /\ PlaceOf(t)' /\ WantOf(t)' /\ GuardOf(t)' /\ done' = done
      /\ how = "failed" => excuse' # {}
  BY <1>1, <1>2, <1>3, EndMoves
<1>5. Guards'
  BY <1>1, <1>4, GuardsAreKept
<1>6. Converges'
  <2>1. SUFFICES ASSUME done' = "ok", excuse' = {} PROVE Desired'
    BY DEF Converges
  <2>2. how = "ok" /\ done = "ok" /\ excuse = {}
    BY <1>4, <2>1 DEF Moves, ReportOf
  <2>3. ver[t] = saved /\ file = saved
    BY <1>1, <2>2 DEF IInv, Guards, GuardOf, Recreated
  <2>4. QED
    BY <1>1, <1>3, <2>2, <2>3 DEF Desired, Same
<1>7. QED
  BY <1>4, <1>5, <1>6, MovesAreSafe

LEMMA ExitIsSafe ==
  ASSUME IInv, Exit
  PROVE  IInv'
<1>1. /\ want' = want /\ newest' = newest /\ target' = target /\ sent' = sent /\ saved' = saved
      /\ done' = done /\ holder' = holder /\ file' = file /\ failed' = failed /\ cfg' = cfg
      /\ run' = "stopped"
  BY DEF Exit, cloud, project
<1>2. NoLess /\ ProjectTypes'
  BY <1>1, TypesOfProject, BudgetIsUsed DEF Exit, IInv, ProjectTypes
<1>3. CASE excuse' = excuse \cup {"exit"} /\ UNCHANGED <<pc, ver>>
  <2>1. Converges'
    BY <1>3 DEF Converges
  <2>2. TypeOK' /\ CountTypes'
    BY <1>1, <1>2, <1>3 DEF IInv, TypeOK, ProjectTypes, NoLess
  <2>3. Places' /\ Wants' /\ Works'
    BY <1>1, <1>3 DEF IInv, Places, PlaceOf, Wants, WantOf, Works, Working
  <2>4. Targets'
    BY <1>1, <1>2, <1>3 DEF IInv, Targets, Working, NoLess, CountTypes, TypeOK
  <2>5. Guards'
    BY <1>1, <1>3 DEF IInv, Guards, GuardOf
  <2>6. QED
    BY <2>1, <2>2, <2>3, <2>4, <2>5 DEF IInv
<1>4. CASE \E t \in Repairs :
             /\ pc[t] = "new" /\ want[saved] = "running"
             /\ Goto(t, "artifacts") /\ ver' = [ver EXCEPT ![t] = saved]
             /\ UNCHANGED excuse
  <2>1. PICK t \in Repairs :
             /\ pc[t] = "new" /\ want[saved] = "running"
             /\ Goto(t, "artifacts") /\ ver' = [ver EXCEPT ![t] = saved]
             /\ UNCHANGED excuse
    BY <1>4
  <2>2. t \in Threads /\ t # Worker /\ t \notin Restarts
    BY ProjectsAssumption DEF Threads
  <2>3. Working(t)' /\ ver'[t] = saved'
    BY <1>1, <2>1, <2>2 DEF Working, Goto, IInv, Places, TypeOK
  <2>4. Converges'
    BY <2>3 DEF Converges, Repairing
  <2>5. QED
    BY <1>1, <1>2, <2>1, <2>2, <2>4, TypesOfProject, StartsAreSafe
<1>5. QED
  BY <1>3, <1>4 DEF Exit

\* The app of an absent version is gone, or "down" failed.
LEMMA RemoveIsSafe ==
  ASSUME IInv, Remove
  PROVE  IInv'
<1>1. /\ Worker \in Threads /\ Working(Worker) /\ Same /\ ver[Worker] = saved
      /\ want[saved] = "absent" /\ holder = NoThread /\ holder' = NoThread /\ CountTypes
      /\ done' = "ok" /\ cfg' = cfg
  BY ProjectsAssumption
  DEF Remove, Working, Same, cloud, Threads, IInv, Works, Wants, WantOf, Free, Keep
<1>2. NoLess /\ ProjectTypes'
  BY <1>1, TypesOfProject, BudgetIsKept, BudgetIsUsed DEF Remove, ProjectTypes, Same, Fault
<1>3. /\ pc' \in [Threads -> Steps] /\ pc'[Worker] = "idle"
      /\ \A u \in Threads \ {Worker} : pc'[u] = pc[u]
  BY <1>1 DEF Remove, Goto, IInv, Places, Steps
<1>4. ReportOf(Worker)
  BY <1>1, <1>3, TypesOfProject DEF Remove, ReportOf
<1>5. Moves(Worker)
  BY <1>1, <1>2, <1>3, <1>4 DEF Moves, LockOf
<1>6. PlaceOf(Worker)' /\ WantOf(Worker)'
  BY <1>1, <1>3, ProjectsAssumption DEF PlaceOf, WantOf
<1>7. Guards'
  BY <1>1, <1>3, <1>5, GoodEndsGuard
<1>8. Converges'
  BY <1>1 DEF Remove, Converges, Desired, Same
<1>9. QED
  BY <1>1, <1>5, <1>6, <1>7, <1>8, MovesAreSafe

-----------------------------------------------------------------------------
(* A newer submission, the begin of an apply, the end of the process.      *)

LEMMA SubmitIsSafe ==
  ASSUME IInv, Submit
  PROVE  IInv'
<1>1. /\ newest' = newest + 1 /\ target' = newest + 1
      /\ want' = want /\ saved' = saved /\ pc' = pc /\ ver' = ver /\ holder' = holder
      /\ file' = file /\ failed' = failed /\ run' = run /\ cfg' = cfg
      /\ done' = done /\ excuse' = excuse
  BY DEF Submit, project, container
<1>2. newest \in Nat /\ newest + 1 \in Versions /\ saved <= newest /\ sent <= newest
  BY ProjectsAssumption DEF Submit, IInv, TypeOK, Versions
<1>3. /\ NoLess /\ sent' \in saved .. newest + 1
      /\ sent' # target' => count'.fault > 0
  <2>1. CASE sent' = newest' /\ UNCHANGED count
    BY <1>1, <1>2, <2>1, BudgetIsKept DEF IInv, TypeOK, Versions
  <2>2. CASE Fault /\ UNCHANGED sent
    BY <1>1, <1>2, <2>2, BudgetIsUsed DEF IInv, Fault, TypeOK, Versions
  <2>3. QED
    BY <2>1, <2>2 DEF Submit
<1>4. TypeOK' /\ CountTypes'
  BY <1>1, <1>2, <1>3 DEF IInv, TypeOK, NoLess, Versions
<1>5. Places' /\ Wants'
  BY <1>1 DEF IInv, Places, PlaceOf, Wants, WantOf
<1>6. Targets' /\ target' \notin {0, saved'}
  BY <1>1, <1>2, <1>3, TypesOfProject DEF Targets
<1>7. Works' /\ Converges'
  BY <1>1, <1>6 DEF IInv, Works, Working, Converges
<1>8. Guards'
  BY <1>1 DEF IInv, Guards, GuardOf
<1>9. QED
  BY <1>4, <1>5, <1>6, <1>7, <1>8 DEF IInv

LEMMA StartApplyIsSafe ==
  ASSUME IInv, StartApply
  PROVE  IInv'
<1>1. /\ want' = want /\ newest' = newest /\ target' = target /\ sent' = sent
      /\ saved' = sent /\ ver' = [ver EXCEPT ![Worker] = sent] /\ holder' = holder
      /\ file' = file /\ failed' = failed /\ run' = run /\ cfg' = cfg
      /\ done' = "busy" /\ excuse' = {} /\ pc[Worker] \in {"idle", "boot"}
  BY DEF StartApply, cloud, project, container
<1>2. /\ Worker \in Threads /\ NoThread \notin Threads /\ PlaceOf(Worker)
      /\ \A u \in Threads \ {Worker} : PlaceOf(u) /\ WantOf(u)
  BY ProjectsAssumption DEF Threads, IInv, Places, Wants
<1>3. sent \in saved .. newest /\ saved \in Nat /\ newest \in Versions
  BY DEF IInv, TypeOK, Versions
<1>4. PICK s \in {"remove", "begin", "artifacts"} :
        /\ Goto(Worker, s)
        /\ s = "remove" => want[sent] = "absent"
        /\ s = "artifacts" => want[sent] = "running"
  <2>1. want[sent] \in {"running", "stopped", "absent"}
    BY <1>3, ProjectsAssumption DEF IInv, TypeOK, Versions
  <2>2. QED
    BY <2>1 DEF StartApply
<1>5. /\ pc' \in [Threads -> Steps] /\ pc'[Worker] = s /\ ver'[Worker] = sent
      /\ ver' \in [Threads -> 1 .. sent]
      /\ \A u \in Threads \ {Worker} : pc'[u] = pc[u] /\ ver'[u] = ver[u]
  <2>1. pc' = [pc EXCEPT ![Worker] = s] /\ pc \in [Threads -> Steps]
    BY <1>4 DEF Goto, IInv, Places
  <2>2. ver \in [Threads -> 1 .. saved] /\ sent \in 1 .. sent /\ 1 .. saved \subseteq 1 .. sent
    BY <1>3 DEF IInv, TypeOK, Versions
  <2>3. QED
    BY <1>1, <1>2, <2>1, <2>2 DEF Steps
<1>6. NoLess
  BY BudgetIsKept, BudgetIsUsed DEF StartApply, IInv
<1>7. Places'
  <2>1. ASSUME NEW u \in Threads, u # Worker PROVE PlaceOf(u)'
    BY <1>1, <1>2, <1>5, <2>1 DEF PlaceOf
  <2>2. PlaceOf(Worker)'
    BY <1>1, <1>2, <1>5, ProjectsAssumption DEF PlaceOf
  <2>3. QED
    BY <1>1, <1>5, <2>1, <2>2 DEF Places, IInv
<1>8. TypeOK' /\ CountTypes'
  <2>1. /\ file \in 0 .. sent /\ failed \in 0 .. sent /\ cfg \in 1 .. sent
        /\ sent \in 1 .. newest
    BY <1>3 DEF IInv, TypeOK, Versions
  <2>2. \A t \in Threads : PlaceOf(t)'
    BY <1>7 DEF Places
  <2>3. QED
    BY <1>1, <1>3, <1>5, <1>6, <2>1, <2>2 DEF IInv, TypeOK, NoLess, PlaceOf
<1>9. Wants'
  <2>1. ASSUME NEW u \in Threads, u # Worker PROVE WantOf(u)'
    BY <1>1, <1>2, <1>5, <2>1 DEF WantOf
  <2>2. WantOf(Worker)'
    BY <1>1, <1>4, <1>5 DEF WantOf
  <2>3. QED
    BY <2>1, <2>2 DEF Wants
<1>10. Targets'
  <2>1. \A u \in Threads \ {Worker} : Working(u)' => Working(u)
    BY <1>5 DEF Working
  <2>2. QED
    BY <1>1, <1>5, <1>6, <2>1 DEF IInv, Targets, NoLess, CountTypes, TypeOK
<1>11. Works' /\ Guards' /\ Converges'
  BY <1>1, <1>5 DEF Works, Guards, Converges
<1>12. QED
  BY <1>7, <1>8, <1>9, <1>10, <1>11 DEF IInv

LEMMA CrashIsSafe ==
  ASSUME IInv, Crash
  PROVE  IInv'
<1>1. /\ want' = want /\ newest' = newest /\ target' = 0 /\ sent' = saved /\ saved' = saved
      /\ ver' = ver /\ holder' = NoThread /\ file' = file /\ failed' = failed
      /\ run' = run /\ cfg' = cfg /\ excuse' = {} /\ done' = "none"
  BY DEF Crash, project, container
<1>2. /\ pc' = [t \in Threads |-> IF t = Worker THEN "boot"
                                   ELSE IF pc[t] = "new" THEN "new" ELSE "idle"]
      /\ NoLess
  BY BudgetIsUsed DEF Crash, IInv
<1>3. /\ NoThread \notin Threads /\ pc' \in [Threads -> Steps]
      /\ \A t \in Threads : pc'[t] \in {"boot", "new", "idle"}
                              /\ (t = Worker <=> pc'[t] = "boot")
  BY <1>2, ProjectsAssumption DEF Steps
<1>4. Places'
  BY <1>1, <1>3 DEF Places, PlaceOf
<1>5. TypeOK' /\ CountTypes'
  <2>1. \A t \in Threads : PlaceOf(t)'
    BY <1>4 DEF Places
  <2>2. saved \in saved .. newest /\ newest \in Nat
    BY DEF IInv, TypeOK, Versions
  <2>3. QED
    BY <1>1, <1>2, <2>1, <2>2 DEF IInv, TypeOK, NoLess, PlaceOf
<1>6. Wants' /\ Works' /\ Guards' /\ Converges'
  BY <1>1, <1>3, ProjectsAssumption DEF Wants, WantOf, Works, Working, Guards, Converges, Threads
<1>7. Targets'
  BY <1>1, <1>3 DEF Targets, Working
<1>8. QED
  BY <1>4, <1>5, <1>6, <1>7 DEF IInv

LEMMA NextIsSafe ==
  ASSUME IInv, [Next]_vars
  PROVE  IInv'
<1>1. CASE Submit \/ Apply \/ Exit \/ Crash
  BY <1>1, SubmitIsSafe, StartApplyIsSafe, RemoveIsSafe, ExitIsSafe, CrashIsSafe DEF Apply
<1>2. CASE \E t \in Threads : Reconcile(t)
  BY <1>2, ArtifactsIsSafe, PrepareIsSafe, PrepareForcedIsSafe, PullIsSafe, BeginIsSafe,
     StopIsSafe, InitServicesIsSafe, UpIsSafe DEF Reconcile
<1>3. CASE \E t \in Threads : ReadForRestart(t) \/ Restart(t)
  BY <1>3, ReadForRestartIsSafe, RestartFailedIsSafe, RecreateIsSafe, RecreatedIsSafe
  DEF Restart
<1>4. CASE UNCHANGED vars
  <2>1. UNCHANGED <<want, newest, target, sent, saved, pc, ver, holder, file, failed,
                    run, cfg, done, excuse, count>>
    BY <1>4 DEF vars, cloud, project, container
  <2>2. TypeOK' /\ CountTypes' /\ Places'
    BY <2>1 DEF IInv, TypeOK, CountTypes, Places, PlaceOf
  <2>3. Wants' /\ Targets' /\ Works'
    BY <2>1 DEF IInv, Wants, WantOf, Targets, Works, Working
  <2>4. Guards' /\ Converges'
    BY <2>1 DEF IInv, Guards, GuardOf, Converges, Desired, Repairing, Working
  <2>5. QED
    BY <2>2, <2>3, <2>4 DEF IInv
<1>5. QED
  BY <1>1, <1>2, <1>3, <1>4 DEF Next

-----------------------------------------------------------------------------
\* The strengthening is inductive.
THEOREM ProjectsInvariant == Spec => []IInv
<1>1. Init => IInv
  BY InitIsSafe
<1>2. IInv /\ [Next]_vars => IInv'
  BY NextIsSafe
<1>3. QED
  BY <1>1, <1>2, PTL DEF Spec

\* Versions, threads, lock, files and container keep their types, and a
\* thread has the lock exactly in the steps that need it.
THEOREM ProjectTypesHold == Spec => []TypeOK
<1>1. IInv => TypeOK
  BY DEF IInv
<1>2. QED
  BY <1>1, ProjectsInvariant, PTL

\* An app is as the newest accepted state wants it when everything is at
\* rest after an apply that went well and nothing else is to blame.
THEOREM RestConverged == Spec => []RestIsDesired
<1>1. IInv => RestIsDesired
  <2>1. Quiet => ~Repairing
    BY DEF Quiet, Idle, Repairing, Working, Threads
  <2>2. QED
    BY <2>1 DEF IInv, Converges, RestIsDesired
<1>2. QED
  BY <1>1, ProjectsInvariant, PTL

\* What superseded an app replaces it, or was refused.
THEOREM NoAppIsLeftSuperseded == Spec => []SupersededIsReplaced
<1>1. IInv => SupersededIsReplaced
  BY DEF IInv, Targets, Works, Quiet, SupersededIsReplaced
<1>2. QED
  BY <1>1, ProjectsInvariant, PTL

=============================================================================
