--------------------------- MODULE ApplyScheduler ---------------------------
(***************************************************************************)
(* The data plane's desired-state scheduler (reefy/dataplane.py): Varlink  *)
(* threads, the boot thread and the artifact retry timer submit apply and  *)
(* reconcile requests; one worker thread executes them one at a time, with *)
(* a single pending slot in which a newer request replaces an older one;   *)
(* callers wait for the terminal record of their own request.              *)
(*                                                                         *)
(* _job_condition is a mutex with a wait set: what the code does while it  *)
(* holds it is one step here, and `pc` says which threads are parked in    *)
(* wait().  The worker updates records and applies state outside it, so    *)
(* each of its phases is a step of its own.                                *)
(*                                                                         *)
(* A desired state is a member of Payloads.  Every payload describes the   *)
(* same app project at a generation of its own, so "superseded by a newer  *)
(* generation" is "targets names another payload".                         *)
(***************************************************************************)
EXTENDS ApplyResults, Sequences

CONSTANTS
  Payloads,       \* desired states a client may submit
  V2Payloads,     \* those with schema_version 2
  BadPayloads,    \* v2 states that _valid_v2_lifecycle rejects
  NoState,        \* no desired-state file; the default hostname; no targets
  Mixed,          \* a half-applied configuration
  None,           \* an empty job slot
  Faults,         \* which parts of an apply may fail
  Kinds,          \* which callers exist
  MaxRestarts     \* bound on crashes of the process (model checking only)

ASSUME PayloadsAssumption ==
  /\ V2Payloads \subseteq Payloads
  /\ BadPayloads \subseteq V2Payloads
  /\ NoState \notin Payloads
  /\ Mixed \notin Payloads \cup {NoState}
ASSUME NoneAssumption == None \notin Ids
ASSUME FaultsAssumption ==
  /\ Faults \subseteq {"thread", "save", "host", "apps", "artifact"}
  /\ Kinds \subseteq {"apply", "reconcile", "migration_retry"}
  /\ MaxRestarts \in Nat

VARIABLES
  running,   \* _running_job
  pending,   \* _pending_job
  worker,    \* where the worker thread is
  verdict,   \* the worker's local `status`
  store,     \* _apply_results
  job,       \* the job built for each request
  pc,        \* the thread that submitted each request
  answer,    \* what its WaitApply returned
  saved,     \* the desired-state file
  targets,   \* _project_targets: the newest submitted generation
  host,      \* hostname, network, storage, keys: the state they were set from
  apps,      \* the app project: the state it was started from
  timer,     \* _artifact_retry_timer is armed
  accepted,  \* history: requests in the order they were accepted
  restarts   \* history: crashes so far

slotVars == <<running, pending, worker, verdict>>
clientVars == <<job, pc, answer, accepted>>
deviceVars == <<saved, host, apps, timer>>
vars == <<slotVars, store, clientVars, deviceVars, targets, restarts>>

NoJob == [kind |-> "none", state |-> NoState, idle |-> FALSE]
ApplyJob(p) == [kind |-> "apply", state |-> p, idle |-> FALSE]
ReconcileJob == [kind |-> "reconcile", state |-> NoState, idle |-> FALSE]
RetryJob == [kind |-> "reconcile", state |-> NoState, idle |-> TRUE]
Jobs == {NoJob, ReconcileJob, RetryJob} \cup {ApplyJob(p) : p \in Payloads}

WorkerStates ==
  {"idle", "start", "save", "host", "hosting", "apps", "up", "record", "promote"}
CallStates ==
  {"new", "entering", "idle_parked", "refused", "lost", "accepted",
   "waiting", "parked", "returned"}

\* The threads that got past create().
Enqueued == {"refused", "accepted", "waiting", "parked", "returned"}

\* notify_all(): every thread in wait() competes for the condition again.
Woken(p) ==
  [r \in Ids |-> CASE p[r] = "idle_parked" -> "entering"
                   [] p[r] = "parked"      -> "waiting"
                   [] OTHER                -> p[r]]

Init ==
  /\ running = None /\ pending = None /\ worker = "idle" /\ verdict = "none"
  /\ store = EmptyStore
  /\ saved \in {NoState} \cup (Payloads \ BadPayloads)
  /\ host = NoState /\ apps = NoState /\ targets = NoState /\ timer = FALSE
  /\ answer = [r \in Ids |-> "none"]
  /\ accepted = <<>> /\ restarts = 0
  /\ \E b \in Ids :   \* run_data_plane starts the boot thread
       /\ job = [r \in Ids |-> IF r = b THEN ReconcileJob ELSE NoJob]
       /\ pc = [r \in Ids |-> IF r = b THEN "entering" ELSE "new"]

-----------------------------------------------------------------------------
(* Callers *)

\* A thread reaches _submit_apply_job for request r.
Call(r, j) ==
  /\ pc[r] = "new"
  /\ pc' = [pc EXCEPT ![r] = "entering"]
  /\ job' = [job EXCEPT ![r] = j]

\* _set_project_targets: a v1 state publishes no generations.
SetTargets(p) == IF p \in V2Payloads THEN p ELSE targets

\* SubmitApply: the generations of a v2 state are published to the workers
\* before the request is accepted, outside _job_condition.
SubmitApply(r, p) ==
  /\ "apply" \in Kinds
  /\ Call(r, ApplyJob(p))
  /\ targets' = SetTargets(p)
  /\ UNCHANGED <<slotVars, store, answer, accepted, deviceVars, restarts>>

\* SubmitReconcile; a restart that retries a pending migration asks for idle.
SubmitReconcile(r) ==
  /\ \/ "reconcile" \in Kinds /\ Call(r, ReconcileJob)
     \/ "migration_retry" \in Kinds /\ Call(r, RetryJob)
  /\ UNCHANGED <<slotVars, store, answer, accepted, deviceVars, targets, restarts>>

\* The artifact backoff elapsed: retry() clears the timer and reconciles.
TimerFires(r) ==
  /\ timer
  /\ timer' = FALSE
  /\ Call(r, ReconcileJob)
  /\ UNCHANGED <<slotVars, store, answer, accepted, saved, host, apps,
                 targets, restarts>>

\* wait_for_idle: park while anything is running or pending.
ParkForIdle(r) ==
  /\ pc[r] = "entering" /\ job[r].idle
  /\ running # None \/ pending # None
  /\ pc' = [pc EXCEPT ![r] = "idle_parked"]
  /\ UNCHANGED <<slotVars, store, job, answer, accepted, deviceVars, targets,
                 restarts>>

\* Mutant of MayEnqueue: wait_for_idle is checked once, not in a loop.
EnqueuesAnyway(r) == pc[r] = "entering"

MayEnqueue(r) ==
  /\ pc[r] = "entering"
  /\ job[r].idle => running = None /\ pending = None

\* The first record cannot be written: the request is refused.
Refuse(r) ==
  /\ MayEnqueue(r) /\ CreateMayFail
  /\ pc' = [pc EXCEPT ![r] = "refused"]
  /\ UNCHANGED <<slotVars, store, job, answer, accepted, deviceVars, targets,
                 restarts>>

\* Nothing runs: the request becomes the running job of a new worker thread.
EnqueueIdle(r) ==
  /\ MayEnqueue(r) /\ running = None
  /\ store' = Created(store, r)
  /\ running' = r /\ worker' = "start"
  /\ pc' = Woken([pc EXCEPT ![r] = "accepted"])
  /\ accepted' = Append(accepted, r)
  /\ UNCHANGED <<pending, verdict, job, answer, deviceVars, targets, restarts>>

\* ... unless the thread does not start.
ThreadFails(r) ==
  /\ MayEnqueue(r) /\ running = None /\ "thread" \in Faults
  /\ store' \in Update(Created(store, r), r, "failed", FALSE)
  /\ pc' = Woken([pc EXCEPT ![r] = "refused"])
  /\ UNCHANGED <<slotVars, job, answer, accepted, deviceVars, targets, restarts>>

\* Mutants of Superseding: nobody is told, or the wrong job is.
SupersedingNobody(s) == {s}
SupersedingRunning(s) ==
  IF running = None THEN {s} ELSE Update(s, running, "superseded", FALSE)

\* The record an older pending request gets when r takes the slot.
Superseding(s) ==
  IF pending = None THEN {s} ELSE Update(s, pending, "superseded", FALSE)

\* Mutant of EnqueuePending: the older pending job keeps its slot.
EnqueuePendingOldest(r) ==
  /\ MayEnqueue(r) /\ running # None
  /\ IF pending = None
       THEN store' = Created(store, r) /\ pending' = r
       ELSE /\ store' \in Update(Created(store, r), r, "superseded", FALSE)
            /\ UNCHANGED pending
  /\ pc' = Woken([pc EXCEPT ![r] = "accepted"])
  /\ accepted' = Append(accepted, r)
  /\ UNCHANGED <<running, worker, verdict, job, answer, deviceVars, targets,
                 restarts>>

\* A job runs: r takes the single pending slot.
EnqueuePending(r) ==
  /\ MayEnqueue(r) /\ running # None
  /\ store' \in Superseding(Created(store, r))
  /\ pending' = r
  /\ pc' = Woken([pc EXCEPT ![r] = "accepted"])
  /\ accepted' = Append(accepted, r)
  /\ UNCHANGED <<running, worker, verdict, job, answer, deviceVars, targets,
                 restarts>>

Enqueue(r) == Refuse(r) \/ EnqueueIdle(r) \/ ThreadFails(r) \/ EnqueuePending(r)

\* The submitter calls WaitApply with its request id.
CallWait(r) ==
  /\ pc[r] = "accepted"
  /\ pc' = [pc EXCEPT ![r] = "waiting"]
  /\ UNCHANGED <<slotVars, store, job, answer, accepted, deviceVars, targets,
                 restarts>>

\* Mutant of WaitApply: it answers at once, whatever the record says.
WaitApplyOnce(r) ==
  /\ pc[r] = "waiting"
  /\ pc' = [pc EXCEPT ![r] = "returned"]
  /\ answer' = [answer EXCEPT ![r] = store.mem[r].status]
  /\ UNCHANGED <<slotVars, store, job, accepted, deviceVars, targets, restarts>>

\* One turn of the loop of _wait_apply_result, under the condition.
WaitApply(r) ==
  LET status == store.mem[r].status
  IN  /\ pc[r] = "waiting"
      /\ IF status \in LiveStatuses
           THEN /\ pc' = [pc EXCEPT ![r] = "parked"]
                /\ UNCHANGED answer
           ELSE /\ pc' = [pc EXCEPT ![r] = "returned"]
                /\ answer' = [answer EXCEPT ![r] = status]
      /\ UNCHANGED <<slotVars, store, job, accepted, deviceVars, targets,
                     restarts>>

-----------------------------------------------------------------------------
(* The worker thread *)

IsApply == job[running].kind = "apply"
WorkerAt(w) == worker = w /\ UNCHANGED <<running, pending, clientVars, restarts>>

\* Leave the job with status v: only the record is still to be written.
Conclude(v) == worker' = "record" /\ verdict' = v
GoOn(w) == worker' = w /\ UNCHANGED verdict

\* Mutant of WorkerStart: no "running" record.
WorkerStartUnrecorded ==
  /\ WorkerAt("start")
  /\ GoOn(IF IsApply THEN "save" ELSE "host")
  /\ UNCHANGED <<store, deviceVars, targets>>

WorkerStart ==
  /\ WorkerAt("start")
  /\ store' \in Update(store, running, "running", FALSE)
  /\ GoOn(IF IsApply THEN "save" ELSE "host")
  /\ UNCHANGED <<deviceVars, targets>>

\* Mutant of WorkerSave: the error of a failing write is logged and forgotten.
WorkerSaveOrGoOn ==
  /\ WorkerAt("save")
  /\ saved' \in {job[running].state} \cup (IF "save" \in Faults THEN {saved} ELSE {})
  /\ timer' = FALSE
  /\ GoOn("host")
  /\ UNCHANGED <<store, host, apps, targets>>

\* _apply_state up to the atomic replacement of the desired-state file: an
\* invalid lifecycle, a schema downgrade or a failing write leaves the file.
WorkerSave ==
  LET p == job[running].state
      rejected == p \in BadPayloads \/ (p \notin V2Payloads /\ saved \in V2Payloads)
  IN  /\ WorkerAt("save")
      /\ \/ /\ rejected \/ "save" \in Faults
            /\ Conclude("failed")
            /\ UNCHANGED <<saved, timer>>
         \/ /\ ~rejected
            /\ saved' = p
            /\ timer' = FALSE
            /\ GoOn("host")
      /\ UNCHANGED <<store, host, apps, targets>>

\* _apply_desired_state reads the file, which may fail, and starts changing the
\* host; without a file it only resets the hostname.
WorkerHostBegin ==
  /\ WorkerAt("host")
  /\ \/ saved = NoState /\ host' = NoState /\ Conclude("succeeded")
     \/ saved # NoState /\ host' = Mixed /\ GoOn("hosting")
     \/ saved # NoState /\ "host" \in Faults /\ UNCHANGED host /\ Conclude("failed")
  /\ UNCHANGED <<store, saved, apps, timer, targets>>

WorkerHostEnd ==
  /\ WorkerAt("hosting")
  /\ \/ host' = saved /\ GoOn("apps")
     \/ "host" \in Faults /\ UNCHANGED host /\ Conclude("failed")
  /\ UNCHANGED <<store, saved, apps, timer, targets>>

\* _is_current_app_superseded for the generation being applied.
Superseded == saved \in V2Payloads /\ targets \notin {NoState, saved}

\* The app project: artifacts and images first, which a newer generation may
\* call off.  Only a failed artifact arms the retry timer.
WorkerAppsBegin ==
  /\ WorkerAt("apps")
  /\ \/ /\ ~Superseded
        /\ apps' = Mixed /\ GoOn("up")
        /\ UNCHANGED timer
     \/ /\ Superseded
        /\ \E v \in SuccessStatuses : Conclude(v)
        /\ timer' = FALSE
        /\ UNCHANGED apps
     \/ /\ saved \in V2Payloads /\ "artifact" \in Faults /\ ~Superseded
        /\ Conclude("succeeded_with_warnings")
        /\ timer' = TRUE
        /\ UNCHANGED apps
     \/ /\ "apps" \in Faults
        /\ IF saved \in V2Payloads
             THEN timer' = FALSE /\ Conclude("succeeded_with_warnings")
             ELSE UNCHANGED timer /\ Conclude("failed")
        /\ UNCHANGED apps
  /\ UNCHANGED <<store, saved, host, targets>>

\* Then the start, called off unless it is past its last check.  The v1 path
\* fails the whole apply; in v2 a bad project is a warning.
WorkerAppsEnd ==
  /\ WorkerAt("up")
  /\ \/ /\ apps' = saved
        /\ \E v \in SuccessStatuses : Conclude(v)
     \/ /\ Superseded
        /\ \E v \in SuccessStatuses : Conclude(v)
        /\ UNCHANGED apps
     \/ /\ "apps" \in Faults
        /\ Conclude(IF saved \in V2Payloads THEN "succeeded_with_warnings"
                                            ELSE "failed")
        /\ UNCHANGED apps
  /\ timer' = IF saved \in V2Payloads THEN FALSE ELSE timer
  /\ UNCHANGED <<store, saved, host, targets>>

\* The terminal record; `applied` is TRUE for an apply, and for a reconcile
\* says that a desired state was saved.
WorkerRecord ==
  /\ WorkerAt("record")
  /\ store' \in Update(store, running, verdict, IsApply \/ saved # NoState)
  /\ worker' = "promote" /\ verdict' = "none"
  /\ UNCHANGED <<deviceVars, targets>>

\* Mutants of WorkerPromote: nobody is notified; the pending slot is not cleared;
\* the pending job is dropped.
PromoteSilently ==
  /\ worker = "promote"
  /\ running' = pending /\ pending' = None
  /\ worker' = IF pending = None THEN "idle" ELSE "start"
  /\ UNCHANGED <<pc, verdict, store, job, answer, accepted, deviceVars, targets,
                 restarts>>
StopWithoutPromoting ==
  /\ worker = "promote"
  /\ running' = None /\ pending' = None /\ worker' = "idle"
  /\ pc' = Woken(pc)
  /\ UNCHANGED <<verdict, store, job, answer, accepted, deviceVars, targets,
                 restarts>>

\* Under the condition: notify, then run the pending job or stop.
WorkerPromote ==
  /\ worker = "promote"
  /\ running' = pending /\ pending' = None
  /\ worker' = IF pending = None THEN "idle" ELSE "start"
  /\ pc' = Woken(pc)
  /\ UNCHANGED <<verdict, store, job, answer, accepted, deviceVars, targets,
                 restarts>>

Worker ==
  \/ WorkerStart \/ WorkerSave \/ WorkerHostBegin \/ WorkerHostEnd
  \/ WorkerAppsBegin \/ WorkerAppsEnd \/ WorkerRecord \/ WorkerPromote

-----------------------------------------------------------------------------
\* The process dies and is started again: jobs, targets and timer were in
\* memory, records are reloaded, and the boot thread reconciles.  A caller that
\* was submitting gets an error; one that was waiting asks again.
AfterCrash(p) ==
  [r \in Ids |-> CASE p[r] \in {"entering", "idle_parked"} -> "lost"
                   [] p[r] = "parked"                      -> "waiting"
                   [] OTHER                                -> p[r]]

Restart ==
  /\ restarts < MaxRestarts
  /\ restarts' = restarts + 1
  /\ running' = None /\ pending' = None /\ worker' = "idle" /\ verdict' = "none"
  /\ targets' = NoState /\ timer' = FALSE
  /\ store' \in Reloaded(store)
  /\ \E b \in Ids :
       /\ pc[b] = "new"
       /\ pc' = [AfterCrash(pc) EXCEPT ![b] = "entering"]
       /\ job' = [job EXCEPT ![b] = ReconcileJob]
  /\ UNCHANGED <<answer, accepted, saved, host, apps>>

\* Nothing left to do: every request settled its caller and no id is left.
Done ==
  /\ running = None
  /\ timer => \A r \in Ids : pc[r] # "new"
  /\ \A r \in Ids : pc[r] \notin {"entering", "idle_parked", "accepted",
                                  "waiting", "parked"}
  /\ UNCHANGED vars

Submit(r) == (\E p \in Payloads : SubmitApply(r, p)) \/ SubmitReconcile(r)
Client(r) == ParkForIdle(r) \/ Enqueue(r) \/ CallWait(r) \/ WaitApply(r)

Next ==
  \/ \E r \in Ids : Submit(r) \/ TimerFires(r) \/ Client(r)
  \/ Worker
  \/ Restart
  \/ Done

Spec == Init /\ [][Next]_vars

\* Docker, pull and storage commands have timeouts, so every phase of the
\* worker ends; a thread that can take the condition eventually takes it.
Fairness == WF_vars(Worker) /\ \A r \in Ids : WF_vars(Client(r))
LiveSpec == Spec /\ Fairness

-----------------------------------------------------------------------------
(* Properties *)

\* Every variable keeps its type.
TypeOK ==
  /\ running \in Ids \cup {None} /\ pending \in Ids \cup {None}
  /\ worker \in WorkerStates
  /\ verdict \in (TerminalStatuses \ {"superseded"}) \cup {"none"}
  /\ store \in Store
  /\ job \in [Ids -> Jobs] /\ pc \in [Ids -> CallStates]
  /\ answer \in [Ids -> TerminalStatuses \cup {"none", "absent"}]
  /\ saved \in Payloads \cup {NoState} /\ targets \in Payloads \cup {NoState}
  /\ host \in Payloads \cup {NoState, Mixed}
  /\ apps \in Payloads \cup {NoState, Mixed}
  /\ timer \in BOOLEAN
  /\ accepted \in Seq(Ids) /\ restarts \in Nat

\* The two slots and the worker agree: nothing is pending unless something
\* runs, a request never holds both, and the worker has a job or is gone.
SlotsAgree ==
  /\ pending # None => running # None /\ running # pending
  /\ worker = "idle" <=> running = None
  /\ verdict # "none" <=> worker = "record"

\* No record is stuck: the queued and running records in memory are exactly
\* those of the pending job and of the job being executed, so a caller never
\* waits for a request that nobody will finish.
Owned == ({pending} \cup IF worker = "promote" THEN {} ELSE {running}) \ {None}
LiveRecordsHaveAJob == Live(store.mem) = Owned

\* No lost wakeup: a thread parked in wait() still has a notify_all() coming,
\* from its own job's end, its supersession, or the end of whatever runs.
NoLostWakeup ==
  \A r \in Ids :
    /\ pc[r] = "parked" => \/ r \in Live(store.mem)
                           \/ r = running /\ worker = "promote"
    /\ pc[r] = "idle_parked" => running # None

Newest == accepted[Len(accepted)]

\* Latest wins: whatever is pending is the newest accepted request, and the
\* newest accepted request is never the one that is dropped.
LatestWins ==
  accepted # <<>> =>
    /\ pending \in {None, Newest}
    /\ store.mem[Newest].status # "superseded"

\* A migration retry, which asked for an idle scheduler, is never dropped for a
\* newer request nor takes the place of one (the slot was empty).
RetriesAreNotDropped ==
  \A r \in Ids : job[r].idle => store.mem[r].status # "superseded" /\ pending # r

\* What a success means, at the step that records it: the host is configured
\* from the file, the app project runs it or was called off by a newer
\* generation, and for an apply the file is the state that was submitted.  (A
\* restart records nothing: it may only read an old success back from a file
\* whose unlink failed.)
Succeeds(r) ==
  /\ restarts' = restarts
  /\ store.mem[r].status \notin TerminalStatuses
  /\ store'.mem[r].status = "succeeded"
SuccessMeansApplied ==
  [][\A r \in Ids : Succeeds(r) =>
       /\ host = saved
       /\ saved # NoState =>
            apps = saved \/ (saved \in V2Payloads /\ targets # NoState)
       /\ job[r].kind = "apply" => saved = job[r].state]_vars

\* A record that became terminal never changes again while the process lives.
TerminalIsFinal ==
  [][restarts' = restarts =>
       \A r \in Terminal(store.mem) :
         store'.mem[r] \in {store.mem[r], NoRecord}]_vars

\* The scheduler implements the abstract service ApplyService: what a caller can
\* learn of a request is its record, and the two slots are the service's.  A
\* request whose thread got past create() and that has no record was pruned.
ServiceStatus ==
  [r \in Ids |-> IF store.mem[r].status # "absent" THEN store.mem[r].status
                 ELSE IF pc[r] \in Enqueued THEN "forgotten" ELSE "unborn"]
Service == INSTANCE ApplyService
             WITH status <- ServiceStatus, active <- running, waiting <- pending
ImplementsService == Service!Spec

\* Every accepted request is eventually settled, and every caller of WaitApply
\* eventually gets an answer.
EveryRequestSettles == \A r \in Ids : r \in Live(store.mem) ~> r \notin Live(store.mem)
EveryWaiterReturns == \A r \in Ids : pc[r] = "waiting" ~> pc[r] = "returned"

\* desired-state.md: "If a newer state arrives while an apply is running, the
\* newest pending payload is queued and drained".  The newest accepted payload
\* is not dropped.  The code drops it when a reconcile is submitted behind it.
Applies == SelectSeq(accepted, LAMBDA r : job[r].kind = "apply")
NewestStateIsNotDropped ==
  Applies # <<>> => store.mem[Applies[Len(Applies)]].status # "superseded"
-----------------------------------------------------------------------------
(* The inductive invariant behind the safety properties *)

\* A request has no record, in memory or on disk, before it is enqueued.
FreshHasNoRecord ==
  \A r \in Ids : pc[r] \notin Enqueued =>
    store.mem[r].status = "absent" /\ store.disk[r].status = "absent"

\* The jobs in the slots come from threads whose submission succeeded, and their
\* records say how far they are.
SlotsHaveRecords ==
  /\ \A r \in {running, pending} \ {None} : pc[r] \in Enqueued \ {"refused"}
  /\ pending # None => store.mem[pending].status = "queued"
  /\ worker = "start" => store.mem[running].status = "queued"
  /\ worker \notin {"idle", "start", "promote"} =>
       store.mem[running].status = "running"

\* What LatestWins and RetriesAreNotDropped say of memory holds of the files,
\* which the next process loads.
FilesAgree ==
  /\ accepted # <<>> => store.disk[Newest].status # "superseded"
  /\ \A r \in Ids : job[r].idle => store.disk[r].status # "superseded"

IInv ==
  /\ TypeOK /\ SlotsAgree /\ LiveRecordsHaveAJob /\ NoLostWakeup /\ LatestWins
  /\ RetriesAreNotDropped /\ FreshHasNoRecord /\ SlotsHaveRecords /\ FilesAgree

=============================================================================
