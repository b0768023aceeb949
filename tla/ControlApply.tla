---------------------------- MODULE ControlApply ----------------------------
(***************************************************************************)
(* The control process forwarding desired state to the data plane          *)
(* (reefy/control.py): one thread per MQTT apply_state command or broker   *)
(* reconnect submits a request over Varlink, waits for its result, and     *)
(* publishes the device's stage and the hash of the saved state.           *)
(*                                                                         *)
(* The data plane is here what ApplyScheduler is shown to implement: the   *)
(* service ApplyService, together with the state file an apply saves.      *)
(***************************************************************************)
EXTENDS Naturals, Sequences, SequencesExt

CONSTANTS
  Ids,         \* request ids
  None,        \* no request, no thread
  Threads,     \* command and reconnect threads of the control process
  States,      \* desired states
  NoState,     \* no state file; nothing published
  Resync,      \* the task of a reconnect: re-apply the saved state
  Faults,      \* subset of {"submit","lost","unknown"}: failing Varlink calls
  Internals,   \* may the data plane submit reconciles of its own?
  Overlap,     \* may commands overlap?
  MaxCrashes   \* bound on data-plane crashes

ASSUME ControlAssumption ==
  /\ None \notin Ids \cup Threads
  /\ NoState \notin States /\ Resync \notin States
  /\ Faults \subseteq {"submit", "lost", "unknown"}
  /\ Internals \in BOOLEAN /\ Overlap \in BOOLEAN /\ MaxCrashes \in Nat

VARIABLES
  status, active, waiting,  \* the service
  job,      \* the state each request carries, or Resync
  blank,    \* requests that found no state file when they started
  file,     \* the saved desired state
  written,  \* the active apply has replaced the file
  good,     \* history: states that have been applied with success
  crashes,
  lock,     \* the thread in the critical section of _latest_apply_lock
  latest,   \* _latest_apply_request_id
  step,     \* where each thread is
  task,     \* what it was asked to apply
  req,      \* the request it waits for
  result,   \* the status it was given
  read,     \* the state whose hash it is about to publish
  said,     \* the last stage it published
  stage,    \* the last stage published: what it says, and who said it
  hash,     \* the retained state hash
  order     \* history: requests answered to a thread, in order of acceptance

service == <<status, active, waiting, job>>
device == <<blank, file, written, good, crashes>>
thread == <<step, task, req, result, read, said>>
published == <<stage, hash>>
vars == <<service, device, lock, latest, thread, published, order>>

Svc == INSTANCE ApplyService

Successes == {"succeeded", "succeeded_with_warnings"}
Unsettled == {"queued", "running"}
Steps == {"new", "submit", "mark", "wait", "check", "error", "hash", "publish",
          "tunnel", "done"}
Stages == {"none", "applying", "ready", "error"}

Init ==
  /\ Svc!Init
  /\ job = [r \in Ids |-> Resync] /\ blank = {}
  /\ file \in States \cup {NoState} /\ written = FALSE /\ good = {} /\ crashes = 0
  /\ lock = None /\ latest = None
  /\ step = [t \in Threads |-> "new"] /\ task = [t \in Threads |-> Resync]
  /\ req = [t \in Threads |-> None] /\ result = [t \in Threads |-> "none"]
  /\ read = [t \in Threads |-> NoState] /\ said = [t \in Threads |-> "none"]
  /\ stage = [is |-> "none", by |-> None] /\ hash = NoState
  /\ order = <<>>

-----------------------------------------------------------------------------
(* Threads of the control process *)

Goto(t, s) == step' = [step EXCEPT ![t] = s]
Publish(t, what) ==
  /\ stage' = [is |-> what, by |-> t]
  /\ said' = [said EXCEPT ![t] = what]

\* A reconnect reports its errors as a stage; a command answers with them only.
Fail(t) ==
  /\ Goto(t, "done")
  /\ IF task[t] = Resync THEN Publish(t, "error") ELSE UNCHANGED <<stage, said>>

\* Mutant of ReceiveCommand: "applying" is not published.
ReceiveSilently(t, p) ==
  /\ step[t] = "new"
  /\ Overlap \/ \A u \in Threads : step[u] \in {"new", "done"}
  /\ task' = [task EXCEPT ![t] = p]
  /\ Goto(t, "submit")
  /\ UNCHANGED <<service, device, lock, latest, req, result, read, said,
                 published, order>>

\* apply_state: "applying" is published before the data plane is called.
ReceiveCommand(t, p) ==
  /\ step[t] = "new"
  /\ Overlap \/ \A u \in Threads : step[u] \in {"new", "done"}
  /\ task' = [task EXCEPT ![t] = p]
  /\ Publish(t, "applying")
  /\ Goto(t, "submit")
  /\ UNCHANGED <<service, device, lock, latest, req, result, read, hash, order>>

\* on_connect starts _handle_device_connect in the background.
Reconnect(t) ==
  /\ step[t] = "new"
  /\ Overlap \/ \A u \in Threads : step[u] \in {"new", "done"}
  /\ Goto(t, "submit")
  /\ UNCHANGED <<service, device, lock, latest, task, req, result, read, said,
                 published, order>>

\* The data plane takes request r for job j.
Accept(r, j) ==
  /\ Svc!AcceptIdle(r) \/ Svc!AcceptWaiting(r)
  /\ job' = [job EXCEPT ![r] = j]

\* Mutant of SubmitAnswered: the lock covers the call, not the marker.
SubmitUnlocks(t, r) ==
  /\ step[t] = "submit" /\ lock \in {None, t}
  /\ Accept(r, task[t])
  /\ lock' = None
  /\ req' = [req EXCEPT ![t] = r]
  /\ order' = Append(order, r)
  /\ Goto(t, "mark")
  /\ UNCHANGED <<device, latest, task, result, read, said, published>>

\* _submit_and_wait_apply under _latest_apply_lock: the call that is answered.
SubmitAnswered(t, r) ==
  /\ step[t] = "submit" /\ lock \in {None, t}
  /\ Accept(r, task[t])
  /\ lock' = t
  /\ req' = [req EXCEPT ![t] = r]
  /\ order' = Append(order, r)
  /\ Goto(t, "mark")
  /\ UNCHANGED <<device, latest, task, result, read, said, published>>

\* The request is accepted and the answer lost: _varlink_call tries again.
SubmitLost(t, r) ==
  /\ step[t] = "submit" /\ lock \in {None, t} /\ "lost" \in Faults
  /\ Accept(r, task[t])
  /\ lock' = t
  /\ UNCHANGED <<device, latest, thread, published, order>>

\* Mutant of SubmitFails: the error path keeps the lock.
SubmitFailsLocked(t) ==
  /\ step[t] = "submit" /\ lock \in {None, t} /\ "submit" \in Faults
  /\ lock' = t
  /\ Fail(t)
  /\ UNCHANGED <<service, device, latest, task, req, result, read, hash, order>>

\* The data plane cannot be reached or refuses: the thread raises.
SubmitFails(t) ==
  /\ step[t] = "submit" /\ lock \in {None, t} /\ "submit" \in Faults
  /\ lock' = None
  /\ Fail(t)
  /\ UNCHANGED <<service, device, latest, task, req, result, read, hash, order>>

\* The marker is set, and the lock released.
Mark(t) ==
  /\ step[t] = "mark"
  /\ latest' = req[t]
  /\ lock' = None
  /\ Goto(t, "wait")
  /\ UNCHANGED <<service, device, task, req, result, read, said, published, order>>

\* Mutant of WaitAnswers: the status is not checked.
WaitAnswersOnce(t) ==
  /\ step[t] = "wait"
  /\ result' = [result EXCEPT ![t] = status[req[t]]]
  /\ Goto(t, "check")
  /\ UNCHANGED <<service, device, lock, latest, task, req, read, said, published,
                 order>>

\* WaitApply answers, unless the record is gone or the data plane is.
WaitAnswers(t) ==
  LET st == status[req[t]]
  IN  /\ step[t] = "wait"
      /\ \/ /\ st \notin Unsettled \cup {"forgotten"}
            /\ result' = [result EXCEPT ![t] = st]
            /\ Goto(t, "check")
            /\ UNCHANGED <<stage, said>>
         \/ /\ st = "forgotten" \/ "unknown" \in Faults
            /\ Fail(t)
            /\ UNCHANGED result
      /\ UNCHANGED <<service, device, lock, latest, task, req, read, hash, order>>

\* Mutant of CheckLatest: silent while the data plane is busy.
CheckIdle(t) ==
  /\ step[t] = "check"
  /\ lock = None
  /\ Goto(t, IF result[t] = "superseded" \/ active # None THEN "done"
             ELSE IF result[t] = "failed" THEN "error"
             ELSE IF req[t] \in blank THEN "done" ELSE "hash")
  /\ UNCHANGED <<service, device, lock, latest, task, req, result, read, said,
                 published, order>>

\* Mutant of CheckLatest: a failure is reported like a success.
CheckLatestOnly(t) ==
  /\ step[t] = "check"
  /\ lock = None
  /\ Goto(t, IF result[t] = "superseded" \/ latest # req[t] \/ req[t] \in blank
             THEN "done" ELSE "hash")
  /\ UNCHANGED <<service, device, lock, latest, task, req, result, read, said,
                 published, order>>

\* Only the latest request reports; a reconnect that found no state is silent.
CheckLatest(t) ==
  /\ step[t] = "check"
  /\ lock = None
  /\ Goto(t, IF result[t] = "superseded" \/ latest # req[t] THEN "done"
             ELSE IF result[t] = "failed" THEN "error"
             ELSE IF req[t] \in blank THEN "done" ELSE "hash")
  /\ UNCHANGED <<service, device, lock, latest, task, req, result, read, said,
                 published, order>>

SayError(t) ==
  /\ step[t] = "error"
  /\ Publish(t, "error")
  /\ Goto(t, "done")
  /\ UNCHANGED <<service, device, lock, latest, task, req, result, read, hash, order>>

\* _get_state_hash reads the file ...
ReadFile(t) ==
  /\ step[t] = "hash"
  /\ read' = [read EXCEPT ![t] = file]
  /\ Goto(t, "publish")
  /\ UNCHANGED <<service, device, lock, latest, task, req, result, said,
                 published, order>>

\* ... and _publish_state_hash publishes what it read.
PublishHash(t) ==
  /\ step[t] = "publish"
  /\ hash' = read[t]
  /\ Goto(t, "tunnel")
  /\ UNCHANGED <<service, device, lock, latest, task, req, result, read, said,
                 stage, order>>

\* wait_for_tunnel_health returns after at most a minute; then "ready".
SayReady(t) ==
  /\ step[t] = "tunnel"
  /\ Publish(t, "ready")
  /\ Goto(t, "done")
  /\ UNCHANGED <<service, device, lock, latest, task, req, result, read, hash, order>>

Control(t) ==
  \/ \E r \in Ids : SubmitAnswered(t, r) \/ SubmitLost(t, r)
  \/ SubmitFails(t) \/ Mark(t) \/ WaitAnswers(t) \/ CheckLatest(t)
  \/ SayError(t) \/ ReadFile(t) \/ PublishHash(t) \/ SayReady(t)

-----------------------------------------------------------------------------
(* The data plane *)

controlVars == <<lock, latest, thread, published, order>>

\* The boot thread or the artifact retry timer reconciles.
InternalReconcile(r) ==
  /\ Internals
  /\ Accept(r, Resync)
  /\ UNCHANGED <<device, controlVars>>

Begin ==
  /\ Svc!Begin
  /\ written' = FALSE
  /\ blank' = IF job[active] = Resync /\ file = NoState
                THEN blank \cup {active} ELSE blank
  /\ UNCHANGED <<job, file, good, crashes, controlVars>>

\* An accepted apply replaces the state file.
Save ==
  /\ active # None /\ status[active] = "running"
  /\ job[active] # Resync /\ ~written
  /\ file' = job[active] /\ written' = TRUE
  /\ UNCHANGED <<service, blank, good, crashes, controlVars>>

\* It fails at any point, and succeeds only after that.
Settle ==
  /\ Svc!Settle
  /\ IF status'[active] \in Successes
       THEN /\ job[active] = Resync \/ written
            /\ good' = good \cup {file}
       ELSE UNCHANGED good
  /\ UNCHANGED <<job, blank, file, written, crashes, controlVars>>

Advance ==
  /\ Svc!Advance
  /\ UNCHANGED <<job, device, controlVars>>

Crash ==
  /\ crashes < MaxCrashes /\ crashes' = crashes + 1
  /\ Svc!Crash
  /\ UNCHANGED <<job, blank, file, written, good, controlVars>>

DataPlane == Begin \/ Save \/ Settle \/ Advance

Idle == active = None /\ \A t \in Threads : step[t] \in {"new", "done"}

\* Nothing is left to do, or no request id is left to do it with.
Done ==
  /\ active = None /\ lock = None
  /\ \A t \in Threads :
       step[t] \in {"new", "done"}
         \/ (step[t] = "submit" /\ \A r \in Ids : status[r] # "unborn")
  /\ UNCHANGED vars

Next ==
  \/ \E t \in Threads :
       Control(t) \/ Reconnect(t) \/ \E p \in States : ReceiveCommand(t, p)
  \/ \E r \in Ids : InternalReconcile(r)
  \/ DataPlane \/ Crash
  \/ Done

Spec == Init /\ [][Next]_vars

\* Varlink calls are bounded by retries, the tunnel check by a timeout, and the
\* data plane settles every request (EveryRequestSettles of ApplyScheduler).
LiveSpec ==
  Spec /\ WF_vars(DataPlane) /\ \A t \in Threads : WF_vars(Control(t))

-----------------------------------------------------------------------------
(* Properties *)

\* Every variable keeps its type.
TypeOK ==
  /\ status \in [Ids -> Svc!Verdicts \cup Unsettled
                        \cup {"unborn", "superseded", "forgotten"}]
  /\ active \in Ids \cup {None} /\ waiting \in Ids \cup {None}
  /\ job \in [Ids -> States \cup {Resync}] /\ blank \subseteq Ids
  /\ file \in States \cup {NoState} /\ written \in BOOLEAN
  /\ good \subseteq States \cup {NoState} /\ crashes \in Nat
  /\ lock \in Threads \cup {None} /\ latest \in Ids \cup {None}
  /\ step \in [Threads -> Steps] /\ task \in [Threads -> States \cup {Resync}]
  /\ req \in [Threads -> Ids \cup {None}]
  /\ result \in [Threads -> Svc!Verdicts \cup {"superseded", "none"}]
  /\ read \in [Threads -> States \cup {NoState}]
  /\ said \in [Threads -> Stages]
  /\ stage \in [is : Stages, by : Threads \cup {None}]
  /\ hash \in States \cup {NoState}
  /\ order \in Seq(Ids)

\* Outside the critical section the marker names the newest request that was
\* answered to a thread: acceptance and marker cannot be reordered.
MarkerIsNewest == lock = None /\ order # <<>> => latest = Last(order)

\* The newest request is never silent: the thread that owns it reports its
\* success or its failure, however many older threads finish around it.
TheLatestReports ==
  \A t \in Threads :
    step[t] = "done" /\ order # <<>> /\ req[t] = Last(order) =>
      /\ result[t] = "failed" => said[t] = "error"
      /\ result[t] \in Successes /\ req[t] \notin blank => said[t] = "ready"

\* A device that says "ready" between commands published the hash of the state
\* file it has, so the server neither pushes a state again nor misses one.
ReadyMeansConverged == Idle /\ stage.is = "ready" => hash = file

\* Every command and every reconnect comes to an end.
EveryThreadEnds == \A t \in Threads : step[t] = "submit" ~> step[t] = "done"

\* test_older_completion_cannot_overwrite_newer_applying_stage: "ready" is
\* published for the latest request only.  The check comes before the minute
\* that wait_for_tunnel_health may take.
OnlyTheLatestSaysReady ==
  [][stage' # stage /\ stage'.is = "ready" => latest = req[stage'.by]]_vars

\* desired-state.md: "An apply failure reports `error` and does not claim
\* convergence."  A hash that is published is that of a state whose apply
\* succeeded.  A newer apply may replace the file between check and read.
HashClaimsOnlySuccess == [][hash' # hash => hash' \in good]_vars

\* The same sentence for a request the data plane never took: between commands
\* the last word is not "applying".
ApplyingEnds == Idle => stage.is # "applying"
=============================================================================
