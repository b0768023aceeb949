---------------------------- MODULE ApplyService ----------------------------
(***************************************************************************)
(* What the data plane promises its callers about desired-state requests,  *)
(* without threads, records or a disk: one request is active, at most one  *)
(* waits, a newer request replaces the waiting one and never the active    *)
(* one, every accepted request gets one verdict, and old verdicts may be   *)
(* forgotten.  ApplyScheduler implements this.                             *)
(***************************************************************************)
CONSTANTS Ids, None

VARIABLES
  status,   \* what a caller can learn of each request
  active,   \* the request being executed
  waiting   \* the one that is next

vars == <<status, active, waiting>>

Verdicts == {"succeeded", "succeeded_with_warnings", "failed"}
Settled == {r \in Ids : status[r] \in Verdicts \cup {"superseded"}}

\* The new status of every request, when those of F are forgotten.
Forgetting(F, st) == [r \in Ids |-> IF r \in F THEN "forgotten" ELSE st[r]]

Init ==
  /\ status = [r \in Ids |-> "unborn"]
  /\ active = None /\ waiting = None

\* A request starts at once when the service is idle.
AcceptIdle(r) ==
  /\ status[r] = "unborn" /\ active = None
  /\ status' = [status EXCEPT ![r] = "queued"]
  /\ active' = r /\ UNCHANGED waiting

\* Otherwise it waits, in place of an older one that never started.
AcceptWaiting(r) ==
  /\ status[r] = "unborn" /\ active # None
  /\ \E F \in SUBSET Settled :
       status' = Forgetting(F, [x \in Ids |-> IF x = r THEN "queued"
                                              ELSE IF x = waiting THEN "superseded"
                                              ELSE status[x]])
  /\ waiting' = r /\ UNCHANGED active

\* It can also be turned away, with a failure on record or without a record.
Reject(r) ==
  /\ status[r] = "unborn"
  /\ \E F \in SUBSET Settled, st \in {"failed", "forgotten"} :
       status' = Forgetting(F, [status EXCEPT ![r] = st])
  /\ UNCHANGED <<active, waiting>>

Begin ==
  /\ active # None /\ status[active] = "queued"
  /\ status' = [status EXCEPT ![active] = "running"]
  /\ UNCHANGED <<active, waiting>>

Settle ==
  /\ active # None /\ status[active] = "running"
  /\ \E F \in SUBSET Settled, v \in Verdicts :
       status' = Forgetting(F, [status EXCEPT ![active] = v])
  /\ UNCHANGED <<active, waiting>>

Advance ==
  /\ active # None /\ status[active] \notin {"queued", "running"}
  /\ active' = waiting /\ waiting' = None
  /\ UNCHANGED status

\* A crash fails what had not finished, and leaves every verdict alone.
Crash ==
  /\ \E F \in SUBSET {r \in Ids : status[r] # "unborn"} :
       status' = Forgetting(F, [r \in Ids |->
                   IF status[r] \in {"queued", "running"} THEN "failed"
                                                          ELSE status[r]])
  /\ active' = None /\ waiting' = None

Next ==
  \/ \E r \in Ids : AcceptIdle(r) \/ AcceptWaiting(r) \/ Reject(r)
  \/ Begin \/ Settle \/ Advance \/ Crash

Spec == Init /\ [][Next]_vars
=============================================================================
