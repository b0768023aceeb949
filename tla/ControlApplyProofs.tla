------------------------- MODULE ControlApplyProofs -------------------------
(***************************************************************************)
(* The control process, for any number of threads, requests, states and    *)
(* crashes, and with every fault.  The first invariant holds of            *)
(* overlapping threads, the second one when commands do not overlap.       *)
(***************************************************************************)
EXTENDS ControlApply, TLAPS

Verdicts == Svc!Verdicts

\* The critical section, and what the marker says inside and outside of it.
Marker ==
  /\ \A t \in Threads : lock = t => step[t] \in {"submit", "mark"}
  /\ \A t \in Threads :
       step[t] = "mark" => lock = t /\ order # <<>> /\ req[t] = Last(order)
  /\ order # <<>> /\ (\A t \in Threads : step[t] # "mark") => latest = Last(order)

\* A thread has a request from its submission on; an accepted one is born.
Born ==
  \A t \in Threads :
    /\ step[t] \in {"new", "submit"} => req[t] = None
    /\ step[t] \notin {"new", "submit", "done"} => req[t] # None
    /\ req[t] # None => status[req[t]] # "unborn"

\* What the result of a thread means for its next steps.
Reports ==
  \A t \in Threads :
    /\ step[t] \in {"new", "submit", "mark", "wait"} => result[t] = "none"
    /\ step[t] = "check" => result[t] # "none"
    /\ step[t] = "error" => result[t] = "failed"
    /\ step[t] \in {"hash", "publish", "tunnel"} => result[t] \in Successes

\* The slots of the data plane hold what is not settled.
Slots ==
  /\ \A r \in Ids : status[r] \in Unsettled => r \in {active, waiting}
  /\ active # None => status[active] # "unborn"
  /\ waiting # None => active # None /\ status[waiting] = "queued" /\ waiting # active

IInv == TypeOK /\ Slots /\ Marker /\ Born /\ Reports /\ TheLatestReports

\* Nothing is under way that replaces the file.
Calm == \A r \in Ids : status[r] \in Unsettled => job[r] = Resync

Busy(t) == step[t] \notin {"new", "done"}
Alone == \A t, u \in Threads : Busy(t) /\ Busy(u) => t = u

\* Only a reconcile may follow the request of the thread that waits.
TurnOf(t) ==
  step[t] \in {"mark", "wait"} =>
    /\ status[req[t]] \in Unsettled =>
         req[t] = waiting \/ (req[t] = active /\ (waiting # None => job[waiting] = Resync))
    /\ status[req[t]] \in Verdicts => Calm
    /\ status[req[t]] \in Successes => file \in good

\* From the answer to the last publication nothing replaces the file.
AnswerOf(t) ==
  /\ step[t] = "check" /\ result[t] \in Verdicts => Calm
  /\ step[t] = "check" /\ result[t] \in Successes => file \in good
  /\ step[t] \in {"hash", "publish", "tunnel"} => Calm /\ file \in good
  /\ step[t] = "publish" => read[t] = file
  /\ step[t] = "tunnel" => hash = file

Fresh == \A t \in Threads : step[t] = "new" => task[t] = Resync

Converged ==
  stage.is = "ready" =>
    /\ hash = file /\ Calm
    /\ \A t \in Threads : Busy(t) => task[t] = Resync

SInv ==
  /\ IInv /\ Alone /\ Fresh /\ Converged
  /\ \A t \in Threads : TurnOf(t) /\ AnswerOf(t)

-----------------------------------------------------------------------------
(* Sequences, and the steps of the service.                                *)

LEMMA AppendedLast ==
  ASSUME NEW r \in Ids, NEW o \in Seq(Ids)
  PROVE  Append(o, r) \in Seq(Ids) /\ Append(o, r) # <<>> /\ Last(Append(o, r)) = r
  BY DEF Last

LEMMA LastIsRequest ==
  ASSUME NEW o \in Seq(Ids), o # <<>>
  PROVE  Last(o) \in Ids /\ Last(o) # None
  BY ControlAssumption DEF Last

Conditions == Verdicts \cup Unsettled \cup {"unborn", "superseded", "forgotten"}

\* The types of what the data plane changes.
PlaneTypes ==
  /\ status \in [Ids -> Conditions]
  /\ active \in Ids \cup {None} /\ waiting \in Ids \cup {None}
  /\ job \in [Ids -> States \cup {Resync}] /\ blank \subseteq Ids
  /\ file \in States \cup {NoState} /\ written \in BOOLEAN
  /\ good \subseteq States \cup {NoState} /\ crashes \in Nat

LEMMA TypesOfPlane ==
  ASSUME TypeOK
  PROVE  PlaneTypes
  BY DEF TypeOK, PlaneTypes, Conditions, Verdicts

\* What is settled, or replaced, may be forgotten; it is never unborn again.
StillBorn == \A r \in Ids : status[r] # "unborn" => status'[r] # "unborn"

\* A request that is accepted is new; of the others only what waited, and
\* what was settled, changes.
LEMMA Accepted ==
  ASSUME PlaneTypes, NEW r \in Ids, NEW j \in States \cup {Resync}, Accept(r, j)
  PROVE  /\ status[r] = "unborn" /\ status'[r] = "queued" /\ StillBorn
         /\ status' \in [Ids -> Conditions]
         /\ active' \in Ids \cup {None} /\ waiting' \in Ids \cup {None}
         /\ job' = [job EXCEPT ![r] = j]
         /\ \A x \in Ids \ {r} :
              \/ status'[x] = status[x]
              \/ x = waiting /\ status'[x] \in {"superseded", "forgotten"}
              \/ status[x] \notin Unsettled /\ status'[x] = "forgotten"
         /\ \/ active = None /\ active' = r /\ waiting' = waiting
            \/ /\ active # None /\ active' = active /\ waiting' = r
               /\ waiting \in Ids \ {r} => status'[waiting] \notin Unsettled
<1> USE DEF Accept, Conditions
<1>1. CASE Svc!AcceptIdle(r)
  BY <1>1 DEF Svc!AcceptIdle, PlaneTypes, StillBorn, Unsettled
<1>2. CASE Svc!AcceptWaiting(r)
  <2> DEFINE st == [x \in Ids |-> IF x = r THEN "queued"
                                  ELSE IF x = waiting THEN "superseded" ELSE status[x]]
  <2>1. PICK F \in SUBSET Svc!Settled : status' = Svc!Forgetting(F, st)
    BY <1>2 DEF Svc!AcceptWaiting
  <2>2. /\ st \in [Ids -> Conditions] /\ st[r] = "queued"
        /\ \A x \in Ids \ {r} : st[x] = IF x = waiting THEN "superseded" ELSE status[x]
    BY DEF PlaneTypes, Unsettled
  <2> HIDE DEF st
  <2>3. /\ status' \in [Ids -> Conditions]
        /\ \A x \in Ids : status'[x] = IF x \in F THEN "forgotten" ELSE st[x]
    BY <2>1, <2>2 DEF Svc!Forgetting
  <2>4. r \notin F /\ \A x \in F : status[x] \notin Unsettled
    BY <1>2 DEF Svc!AcceptWaiting, Svc!Settled, Svc!Verdicts, Unsettled
  <2>5. QED
    BY <1>2, <2>2, <2>3, <2>4 DEF Svc!AcceptWaiting, PlaneTypes, StillBorn, Unsettled
<1>3. QED
  BY <1>1, <1>2

\* A request that settles, and what is forgotten with it.
LEMMA Settled ==
  ASSUME PlaneTypes, Settle
  PROVE  /\ active \in Ids /\ status[active] = "running" /\ status' \in [Ids -> Conditions]
         /\ StillBorn /\ status'[active] \in Verdicts
         /\ \A x \in Ids \ {active} :
              \/ status'[x] = status[x]
              \/ status[x] \notin Unsettled /\ status'[x] = "forgotten"
         /\ UNCHANGED <<active, waiting, job, blank, file, written, crashes>>
         /\ \/ status'[active] \in Successes /\ good' = good \cup {file}
            \/ status'[active] = "failed" /\ good' = good
<1>1. PICK F \in SUBSET Svc!Settled, v \in Verdicts :
        status' = Svc!Forgetting(F, [status EXCEPT ![active] = v])
  BY DEF Settle, Svc!Settle, Verdicts
<1>2. active \in Ids /\ status[active] = "running" /\ UNCHANGED <<active, waiting>>
  BY DEF Settle, Svc!Settle, PlaneTypes
<1>3. active \notin F /\ \A x \in F : status[x] \notin Unsettled
  BY <1>2 DEF Svc!Settled, Svc!Verdicts, Unsettled
<1>4. /\ status' \in [Ids -> Conditions]
      /\ \A x \in Ids : status'[x] =
           IF x \in F THEN "forgotten" ELSE IF x = active THEN v ELSE status[x]
  BY <1>1 DEF Svc!Forgetting, PlaneTypes, Conditions
<1>5. \A x \in Ids : status'[x] # "unborn" \/ status[x] = "unborn"
  BY <1>2, <1>3, <1>4 DEF Verdicts, Svc!Verdicts
<1>6. status'[active] = v
  BY <1>2, <1>3, <1>4
<1>7. \/ status'[active] \in Successes /\ good' = good \cup {file}
      \/ status'[active] = "failed" /\ good' = good
  BY <1>2, <1>6 DEF Settle, Successes, Verdicts, Svc!Verdicts
<1>8. QED
  BY <1>2, <1>3, <1>4, <1>5, <1>6, <1>7 DEF Settle, StillBorn

LEMMA Crashed ==
  ASSUME PlaneTypes, Crash
  PROVE  /\ status' \in [Ids -> Conditions] /\ StillBorn
         /\ \A x \in Ids : status'[x] \notin Unsettled
         /\ \A x \in Ids : status'[x] \in Successes => status'[x] = status[x]
         /\ active' = None /\ waiting' = None /\ crashes' = crashes + 1
         /\ UNCHANGED <<job, blank, file, written, good>>
<1>1. PICK F \in SUBSET {r \in Ids : status[r] # "unborn"} :
        status' = Svc!Forgetting(F, [r \in Ids |->
                    IF status[r] \in {"queued", "running"} THEN "failed" ELSE status[r]])
  BY DEF Crash, Svc!Crash
<1>2. /\ status' \in [Ids -> Conditions]
      /\ \A x \in Ids : status'[x] =
           IF x \in F THEN "forgotten"
           ELSE IF status[x] \in {"queued", "running"} THEN "failed" ELSE status[x]
  BY <1>1 DEF Svc!Forgetting, PlaneTypes, Conditions, Verdicts, Svc!Verdicts
<1>3. QED
  BY <1>2 DEF Crash, Svc!Crash, StillBorn, Unsettled, Successes

-----------------------------------------------------------------------------
(* The first invariant: threads that overlap.                              *)

LEMMA InitIsSafe == Init => IInv
<1> SUFFICES ASSUME Init PROVE IInv
  OBVIOUS
<1>1. TypeOK
  <2>1. status \in [Ids -> Svc!Verdicts \cup Unsettled \cup {"unborn", "superseded", "forgotten"}]
    BY DEF Init, Svc!Init
  <2>2. active = None /\ waiting = None
    BY DEF Init, Svc!Init
  <2>3. order \in Seq(Ids)
    BY DEF Init
  <2>4. QED
    BY <2>1, <2>2, <2>3 DEF Init, TypeOK, Steps, Stages
<1>2. Slots
  BY DEF Init, Svc!Init, Slots, Unsettled
<1>3. Marker /\ Born /\ Reports /\ TheLatestReports
  BY ControlAssumption DEF Init, Marker, Born, Reports, TheLatestReports
<1>4. QED
  BY <1>1, <1>2, <1>3 DEF IInv

\* The data plane leaves the threads alone.
LEMMA PlaneIsSafe ==
  ASSUME IInv, UNCHANGED controlVars, PlaneTypes', Slots', StillBorn, blank \subseteq blank'
  PROVE  IInv'
<1> USE DEF IInv, controlVars, thread, published
<1>1. TypeOK'
  BY DEF TypeOK, PlaneTypes, Conditions, Verdicts
<1>2. (Marker /\ Reports /\ TheLatestReports)'
  BY DEF Marker, Reports, TheLatestReports
<1>3. Born'
  BY DEF Born, StillBorn, TypeOK
<1>4. QED
  BY <1>1, <1>2, <1>3

\* A step of thread t outside the critical section and the service.
OwnStep(t) ==
  /\ UNCHANGED <<service, device, lock, latest, req, order>>
  /\ \A u \in Threads \ {t} :
       step'[u] = step[u] /\ result'[u] = result[u] /\ said'[u] = said[u]

\* What thread t may conclude at its end.
Conclusion(t) ==
  order # <<>> /\ req[t] = Last(order) =>
    /\ result'[t] = "failed" => said'[t] = "error"
    /\ result'[t] \in Successes /\ req[t] \notin blank => said'[t] = "ready"

ThreadTypes ==
  /\ step \in [Threads -> Steps] /\ task \in [Threads -> States \cup {Resync}]
  /\ result \in [Threads -> Verdicts \cup {"superseded", "none"}]
  /\ read \in [Threads -> States \cup {NoState}]
  /\ said \in [Threads -> Stages]
  /\ stage \in [is : Stages, by : Threads \cup {None}]
  /\ hash \in States \cup {NoState}

LEMMA OwnStepIsSafe ==
  ASSUME IInv, NEW t \in Threads, OwnStep(t), ThreadTypes',
         step[t] \notin {"mark", "done"}, step'[t] # "mark", lock = t => step'[t] = "submit",
         step'[t] = "submit" => step[t] \in {"new", "submit"}, step'[t] # "new",
         step[t] \in {"new", "submit"} => step'[t] = "submit",
         step'[t] \in {"submit", "wait"} => result'[t] = "none",
         step'[t] = "check" => result'[t] # "none",
         step'[t] = "error" => result'[t] = "failed",
         step'[t] \in {"hash", "publish", "tunnel"} => result'[t] \in Successes,
         step'[t] = "done" => Conclusion(t)
  PROVE  IInv'
<1> USE DEF IInv, OwnStep, service, device
<1>1. TypeOK'
  BY DEF TypeOK, ThreadTypes, Verdicts
<1>2. (Slots /\ Marker)'
  BY DEF Slots, Marker
<1>3. (Born /\ Reports)'
  BY DEF Born, Reports
<1>4. TheLatestReports'
  BY DEF TheLatestReports, Conclusion
<1>5. QED
  BY <1>1, <1>2, <1>3, <1>4

LEMMA TypesOfThreads ==
  ASSUME TypeOK
  PROVE  ThreadTypes
  BY DEF TypeOK, ThreadTypes, Verdicts

\* An accepted request finds a slot.
LEMMA AcceptedHasSlot ==
  ASSUME IInv, NEW r \in Ids, NEW j \in States \cup {Resync}, Accept(r, j), UNCHANGED device
  PROVE  /\ PlaneTypes' /\ Slots' /\ StillBorn
         /\ status[r] = "unborn" /\ status'[r] = "queued"
<1>1. PlaneTypes
  BY TypesOfPlane DEF IInv
<1>2. PlaneTypes' /\ StillBorn /\ status[r] = "unborn" /\ status'[r] = "queued"
  BY <1>1, Accepted DEF PlaneTypes, device
<1>3. Slots'
  <2>1. r # None /\ status[r] = "unborn"
    BY <1>2, ControlAssumption
  <2>2. CASE active = None /\ active' = r /\ waiting' = waiting
    BY <1>1, <2>1, <2>2, Accepted DEF IInv, Slots, PlaneTypes, Unsettled
  <2>3. CASE /\ active # None /\ active' = active /\ waiting' = r
             /\ waiting \in Ids \ {r} => status'[waiting] \notin Unsettled
    <3>1. \A x \in Ids : status'[x] \in Unsettled => x = r \/ x = active
      BY <1>1, <2>1, <2>3, Accepted DEF IInv, Slots, PlaneTypes, Unsettled
    <3>2. active # r
      BY <2>1, <2>3 DEF IInv, Slots
    <3>3. status'[active] # "unborn"
      BY <1>1, <1>2, <2>3 DEF IInv, Slots, PlaneTypes, StillBorn
    <3>4. QED
      BY <1>2, <2>1, <2>3, <3>1, <3>2, <3>3 DEF Slots
  <2>4. QED
    BY <1>1, <2>2, <2>3, Accepted
<1>4. QED
  BY <1>2, <1>3

-----------------------------------------------------------------------------
(* The threads.                                                            *)

LEMMA ReceiveSafe ==
  ASSUME IInv, NEW t \in Threads,
         Reconnect(t) \/ \E p \in States : ReceiveCommand(t, p)
  PROVE  IInv'
<1>1. OwnStep(t) /\ step[t] = "new" /\ step'[t] = "submit" /\ result'[t] = "none"
  BY DEF Reconnect, ReceiveCommand, Goto, Publish, OwnStep, service, device, IInv, TypeOK,
     Reports, published
<1>2. ThreadTypes'
  BY TypesOfThreads DEF IInv, ThreadTypes, Reconnect, ReceiveCommand, Goto, Publish, Steps,
     Stages, published
<1>3. lock # t
  BY <1>1 DEF IInv, Marker
<1>4. QED
  BY <1>1, <1>2, <1>3, OwnStepIsSafe

LEMMA SubmitAnsweredSafe ==
  ASSUME IInv, NEW t \in Threads, NEW r \in Ids, SubmitAnswered(t, r)
  PROVE  IInv'
<1>1. /\ step[t] = "submit" /\ step' = [step EXCEPT ![t] = "mark"] /\ lock' = t
      /\ req' = [req EXCEPT ![t] = r] /\ order' = Append(order, r)
      /\ UNCHANGED <<device, latest, task, result, read, said, published>>
      /\ TypeOK /\ Accept(r, task[t]) /\ task[t] \in States \cup {Resync}
      /\ lock \in {None, t}
  BY DEF SubmitAnswered, Goto, IInv, TypeOK
<1>2. PlaneTypes' /\ Slots' /\ StillBorn /\ status[r] = "unborn" /\ status'[r] = "queued"
  BY <1>1, AcceptedHasSlot
<1>3. order' \in Seq(Ids) /\ order' # <<>> /\ Last(order') = r
  BY <1>1, AppendedLast DEF TypeOK
<1>4. TypeOK'
  BY <1>1, <1>2, <1>3 DEF TypeOK, PlaneTypes, Conditions, Verdicts, Steps, device, published
<1>5. Marker'
  BY <1>1, <1>3, ControlAssumption DEF IInv, Marker, TypeOK
<1>6. Born'
  <2>1. r # None
    BY ControlAssumption
  <2>2. QED
    BY <1>1, <1>2, <2>1 DEF IInv, Born, StillBorn, TypeOK
<1>7. Reports'
  BY <1>1 DEF IInv, Reports, TypeOK
<1>8. TheLatestReports'
  <2>1. \A u \in Threads : step'[u] = "done" => req'[u] # r
    BY <1>1, <1>2, ControlAssumption DEF IInv, Born, TypeOK
  <2>2. QED
    BY <1>3, <2>1 DEF TheLatestReports
<1>9. QED
  BY <1>2, <1>4, <1>5, <1>6, <1>7, <1>8 DEF IInv

LEMMA SubmitLostSafe ==
  ASSUME IInv, NEW t \in Threads, NEW r \in Ids, SubmitLost(t, r)
  PROVE  IInv'
<1>1. /\ step[t] = "submit" /\ lock' = t /\ lock \in {None, t}
      /\ UNCHANGED <<device, latest, thread, published, order>>
      /\ TypeOK /\ Accept(r, task[t]) /\ task[t] \in States \cup {Resync}
  BY DEF SubmitLost, IInv, TypeOK
<1>2. PlaneTypes' /\ Slots' /\ StillBorn
  BY <1>1, AcceptedHasSlot
<1>3. TypeOK'
  BY <1>1, <1>2 DEF TypeOK, PlaneTypes, Conditions, Verdicts, thread, published
<1>4. Marker'
  BY <1>1, ControlAssumption DEF IInv, Marker, thread
<1>5. (Born /\ Reports /\ TheLatestReports)'
  BY <1>1, <1>2 DEF IInv, Born, Reports, TheLatestReports, StillBorn, TypeOK, thread, device
<1>6. QED
  BY <1>2, <1>3, <1>4, <1>5 DEF IInv

LEMMA SubmitFailsSafe ==
  ASSUME IInv, NEW t \in Threads, SubmitFails(t)
  PROVE  IInv'
<1>1. /\ step[t] = "submit" /\ step' = [step EXCEPT ![t] = "done"] /\ lock' = None
      /\ lock \in {None, t} /\ TypeOK
      /\ UNCHANGED <<service, device, latest, task, req, result, read, hash, order>>
  BY DEF SubmitFails, Fail, Goto, IInv
<1>2. stage' \in [is : Stages, by : Threads \cup {None}] /\ said' \in [Threads -> Stages]
      /\ \A u \in Threads \ {t} : said'[u] = said[u]
  BY <1>1 DEF SubmitFails, Fail, Publish, TypeOK, Stages
<1>3. TypeOK'
  BY <1>1, <1>2 DEF TypeOK, Steps, service, device
<1>4. (Slots /\ Marker)'
  BY <1>1, ControlAssumption DEF IInv, Slots, Marker, TypeOK, service
<1>5. (Born /\ Reports)'
  BY <1>1 DEF IInv, Born, Reports, TypeOK, service
<1>6. TheLatestReports'
  <2>1. req[t] = None
    BY <1>1 DEF IInv, Born
  <2>2. order # <<>> => Last(order) # None
    BY <1>1, LastIsRequest DEF TypeOK
  <2>3. QED
    BY <1>1, <1>2, <2>1, <2>2 DEF IInv, TheLatestReports, TypeOK, device
<1>7. QED
  BY <1>3, <1>4, <1>5, <1>6 DEF IInv

LEMMA MarkSafe ==
  ASSUME IInv, NEW t \in Threads, Mark(t)
  PROVE  IInv'
<1>1. /\ step[t] = "mark" /\ step' = [step EXCEPT ![t] = "wait"] /\ lock' = None
      /\ latest' = req[t] /\ lock = t /\ order # <<>> /\ req[t] = Last(order) /\ TypeOK
      /\ UNCHANGED <<service, device, task, req, result, read, said, published, order>>
  BY DEF Mark, Goto, IInv, Marker
<1>2. TypeOK'
  BY <1>1 DEF TypeOK, Steps, service, device, published
<1>3. (Slots /\ Marker)'
  <2>1. \A u \in Threads \ {t} : step[u] # "mark"
    BY <1>1 DEF IInv, Marker
  <2>2. QED
    BY <1>1, <2>1, ControlAssumption DEF IInv, Slots, Marker, TypeOK, service
<1>4. (Born /\ Reports /\ TheLatestReports)'
  BY <1>1 DEF IInv, Born, Reports, TheLatestReports, TypeOK, service, device
<1>5. QED
  BY <1>2, <1>3, <1>4 DEF IInv

\* A thread that neither submits nor marks does not have the lock.
LEMMA OutsideTheLock ==
  ASSUME IInv, NEW t \in Threads, step[t] \notin {"submit", "mark"}
  PROVE  lock # t
  BY DEF IInv, Marker

LEMMA WaitAnswersSafe ==
  ASSUME IInv, NEW t \in Threads, WaitAnswers(t)
  PROVE  IInv'
<1>1. /\ step[t] = "wait" /\ lock # t /\ result[t] = "none" /\ TypeOK
      /\ req[t] \in Ids /\ status[req[t]] # "unborn"
      /\ OwnStep(t) /\ UNCHANGED <<task, read, hash>>
  BY OutsideTheLock DEF WaitAnswers, Fail, Goto, Publish, OwnStep, IInv, Born, Reports, TypeOK
<1>2. CASE /\ status[req[t]] \notin Unsettled \cup {"forgotten"} /\ UNCHANGED <<stage, said>>
           /\ result' = [result EXCEPT ![t] = status[req[t]]] /\ Goto(t, "check")
  <2>1. status[req[t]] \in Verdicts \cup {"superseded"}
    BY <1>1, <1>2, TypesOfPlane DEF PlaneTypes, Conditions
  <2>2. ThreadTypes' /\ step'[t] = "check" /\ result'[t] # "none"
    BY <1>1, <1>2, <2>1, TypesOfThreads
       DEF ThreadTypes, TypeOK, Goto, Steps, Verdicts, Svc!Verdicts
  <2>3. QED
    BY <1>1, <2>2, OwnStepIsSafe
<1>3. CASE Fail(t) /\ UNCHANGED result
  <2>1. ThreadTypes' /\ step'[t] = "done" /\ result'[t] = "none"
    BY <1>1, <1>3, TypesOfThreads DEF ThreadTypes, Fail, Goto, Publish, Steps, Stages
  <2>2. Conclusion(t)
    BY <2>1 DEF Conclusion, Successes
  <2>3. QED
    BY <1>1, <2>1, <2>2, OwnStepIsSafe
<1>4. QED
  BY <1>2, <1>3 DEF WaitAnswers

LEMMA CheckLatestSafe ==
  ASSUME IInv, NEW t \in Threads, CheckLatest(t)
  PROVE  IInv'
<1>1. /\ step[t] = "check" /\ lock = None /\ lock # t /\ TypeOK /\ OwnStep(t)
      /\ result[t] # "none"
      /\ UNCHANGED <<service, device, task, result, read, said, published>>
      /\ \/ /\ step' = [step EXCEPT ![t] = "done"]
            /\ \/ result[t] = "superseded" \/ latest # req[t]
               \/ result[t] # "failed" /\ req[t] \in blank
         \/ /\ step' = [step EXCEPT ![t] = "error"] /\ result[t] = "failed"
         \/ /\ step' = [step EXCEPT ![t] = "hash"] /\ result[t] \notin {"superseded", "failed"}
  BY ControlAssumption DEF CheckLatest, Goto, OwnStep, IInv, Reports, TypeOK, published
<1>2. order # <<>> => latest = Last(order)
  BY <1>1, ControlAssumption DEF IInv, Marker
<1>3. ThreadTypes'
  BY <1>1, TypesOfThreads DEF ThreadTypes, Steps, published
<1>4. step'[t] \in {"done", "error", "hash"} /\ (step'[t] = "done" => Conclusion(t))
  BY <1>1, <1>2 DEF Conclusion, TypeOK, Successes
<1>5. step'[t] = "hash" => result'[t] \in Successes
  BY <1>1 DEF TypeOK, Successes, Svc!Verdicts
<1>6. step'[t] = "error" => result'[t] = "failed"
  BY <1>1 DEF TypeOK
<1>7. QED
  BY <1>1, <1>3, <1>4, <1>5, <1>6, OwnStepIsSafe

LEMMA SayErrorSafe ==
  ASSUME IInv, NEW t \in Threads, SayError(t)
  PROVE  IInv'
<1>1. /\ step[t] = "error" /\ lock # t /\ TypeOK /\ OwnStep(t) /\ result[t] = "failed"
      /\ step' = [step EXCEPT ![t] = "done"] /\ Publish(t, "error")
      /\ UNCHANGED <<task, result, read, hash>>
  BY OutsideTheLock DEF SayError, Goto, Publish, OwnStep, IInv, Reports, TypeOK
<1>2. ThreadTypes' /\ said'[t] = "error"
  BY <1>1, TypesOfThreads DEF ThreadTypes, Publish, Steps, Stages
<1>3. step'[t] = "done" /\ Conclusion(t)
  BY <1>1, <1>2 DEF Conclusion, Successes, TypeOK
<1>4. QED
  BY <1>1, <1>2, <1>3, OwnStepIsSafe

LEMMA ReadFileSafe ==
  ASSUME IInv, NEW t \in Threads, ReadFile(t)
  PROVE  IInv'
<1>1. /\ step[t] = "hash" /\ lock # t /\ TypeOK /\ OwnStep(t) /\ result[t] \in Successes
      /\ step' = [step EXCEPT ![t] = "publish"] /\ read' = [read EXCEPT ![t] = file]
      /\ UNCHANGED <<task, result, said, published>>
  BY OutsideTheLock DEF ReadFile, Goto, OwnStep, IInv, Reports, TypeOK
<1>2. ThreadTypes'
  BY <1>1, TypesOfThreads DEF ThreadTypes, Steps, TypeOK, published
<1>3. step'[t] = "publish"
  BY <1>1 DEF TypeOK
<1>4. QED
  BY <1>1, <1>2, <1>3, OwnStepIsSafe

LEMMA PublishHashSafe ==
  ASSUME IInv, NEW t \in Threads, PublishHash(t)
  PROVE  IInv'
<1>1. /\ step[t] = "publish" /\ lock # t /\ TypeOK /\ OwnStep(t) /\ result[t] \in Successes
      /\ step' = [step EXCEPT ![t] = "tunnel"] /\ hash' = read[t]
      /\ UNCHANGED <<task, result, read, said, stage>>
  BY OutsideTheLock DEF PublishHash, Goto, OwnStep, IInv, Reports, TypeOK
<1>2. ThreadTypes'
  BY <1>1, TypesOfThreads DEF ThreadTypes, Steps
<1>3. step'[t] = "tunnel"
  BY <1>1 DEF TypeOK
<1>4. QED
  BY <1>1, <1>2, <1>3, OwnStepIsSafe

LEMMA SayReadySafe ==
  ASSUME IInv, NEW t \in Threads, SayReady(t)
  PROVE  IInv'
<1>1. /\ step[t] = "tunnel" /\ lock # t /\ TypeOK /\ OwnStep(t) /\ result[t] \in Successes
      /\ step' = [step EXCEPT ![t] = "done"] /\ Publish(t, "ready")
      /\ UNCHANGED <<task, result, read, hash>>
  BY OutsideTheLock DEF SayReady, Goto, Publish, OwnStep, IInv, Reports, TypeOK
<1>2. ThreadTypes' /\ said'[t] = "ready"
  BY <1>1, TypesOfThreads DEF ThreadTypes, Publish, Steps, Stages
<1>3. step'[t] = "done" /\ Conclusion(t)
  BY <1>1, <1>2 DEF Conclusion, Successes, TypeOK
<1>4. QED
  BY <1>1, <1>2, <1>3, OwnStepIsSafe

-----------------------------------------------------------------------------
(* The data plane.                                                         *)

LEMMA InternalReconcileSafe ==
  ASSUME IInv, NEW r \in Ids, InternalReconcile(r)
  PROVE  IInv'
<1>1. PlaneTypes' /\ Slots' /\ StillBorn
  BY AcceptedHasSlot DEF InternalReconcile
<1>2. QED
  BY <1>1, PlaneIsSafe DEF InternalReconcile, device

LEMMA BeginSafe ==
  ASSUME IInv, Begin
  PROVE  IInv'
<1>1. /\ active \in Ids /\ status[active] = "queued"
      /\ status' = [status EXCEPT ![active] = "running"] /\ PlaneTypes
      /\ UNCHANGED <<active, waiting, job, file, good, crashes, controlVars>>
      /\ written' = FALSE /\ blank' \in {blank, blank \cup {active}}
  BY TypesOfPlane DEF Begin, Svc!Begin, IInv, TypeOK
<1>2. PlaneTypes' /\ StillBorn
  BY <1>1 DEF PlaneTypes, StillBorn, Conditions, Unsettled
<1>3. Slots'
  BY <1>1 DEF IInv, Slots, PlaneTypes, Unsettled
<1>4. QED
  BY <1>1, <1>2, <1>3, PlaneIsSafe

LEMMA SaveSafe ==
  ASSUME IInv, Save
  PROVE  IInv'
<1>1. PlaneTypes' /\ Slots' /\ StillBorn
  BY TypesOfPlane DEF Save, service, IInv, Slots, PlaneTypes, StillBorn
<1>2. QED
  BY <1>1, PlaneIsSafe DEF Save

LEMMA SettleSafe ==
  ASSUME IInv, Settle
  PROVE  IInv'
<1>1. PlaneTypes
  BY TypesOfPlane DEF IInv
<1>2. PlaneTypes' /\ StillBorn
  BY <1>1, Settled DEF PlaneTypes
<1>3. Slots'
  BY <1>1, <1>2, Settled DEF IInv, Slots, PlaneTypes, Unsettled, StillBorn, Verdicts, Svc!Verdicts
<1>4. QED
  BY <1>1, <1>2, <1>3, Settled, PlaneIsSafe DEF Settle

LEMMA AdvanceSafe ==
  ASSUME IInv, Advance
  PROVE  IInv'
<1>1. PlaneTypes' /\ Slots' /\ StillBorn
  BY TypesOfPlane, ControlAssumption DEF Advance, Svc!Advance, device, IInv, Slots, PlaneTypes,
     StillBorn, Unsettled
<1>2. QED
  BY <1>1, PlaneIsSafe DEF Advance, device

LEMMA CrashSafe ==
  ASSUME IInv, Crash
  PROVE  IInv'
<1>1. PlaneTypes
  BY TypesOfPlane DEF IInv
<1>2. PlaneTypes' /\ StillBorn /\ Slots'
  BY <1>1, Crashed DEF PlaneTypes, Slots
<1>3. QED
  BY <1>1, <1>2, Crashed, PlaneIsSafe DEF Crash

LEMMA StutterSafe ==
  ASSUME IInv, UNCHANGED vars
  PROVE  IInv'
<1>1. PlaneTypes' /\ Slots' /\ StillBorn
  BY TypesOfPlane DEF vars, service, device, IInv, Slots, PlaneTypes, StillBorn
<1>2. QED
  BY <1>1, PlaneIsSafe DEF vars, controlVars, device

LEMMA NextIsSafe == IInv /\ [Next]_vars => IInv'
<1> SUFFICES ASSUME IInv, [Next]_vars PROVE IInv'
  OBVIOUS
<1>1. CASE \E t \in Threads :
             Control(t) \/ Reconnect(t) \/ \E p \in States : ReceiveCommand(t, p)
  BY <1>1, ReceiveSafe, SubmitAnsweredSafe, SubmitLostSafe, SubmitFailsSafe, MarkSafe,
     WaitAnswersSafe, CheckLatestSafe, SayErrorSafe, ReadFileSafe, PublishHashSafe, SayReadySafe
     DEF Control
<1>2. CASE \E r \in Ids : InternalReconcile(r)
  BY <1>2, InternalReconcileSafe
<1>3. CASE DataPlane \/ Crash
  BY <1>3, BeginSafe, SaveSafe, SettleSafe, AdvanceSafe, CrashSafe DEF DataPlane
<1>4. CASE Done \/ UNCHANGED vars
  BY <1>4, StutterSafe DEF Done
<1>5. QED
  BY <1>1, <1>2, <1>3, <1>4 DEF Next

-----------------------------------------------------------------------------
(* The second invariant: commands that do not overlap.                     *)

LEMMA SequentialInit == Init => SInv
<1> SUFFICES ASSUME Init PROVE SInv
  OBVIOUS
<1>1. \A t \in Threads : step[t] = "new" /\ task[t] = Resync
  BY DEF Init
<1>2. Alone /\ Fresh
  BY <1>1 DEF Alone, Fresh, Busy
<1>3. \A t \in Threads : TurnOf(t) /\ AnswerOf(t)
  BY <1>1 DEF TurnOf, AnswerOf
<1>4. Converged
  BY DEF Init, Converged
<1>5. QED
  BY <1>2, <1>3, <1>4, InitIsSafe DEF SInv

\* An accepted reconcile leaves the file alone.
LEMMA CalmStays ==
  ASSUME IInv, Calm, NEW r \in Ids, Accept(r, Resync), UNCHANGED device
  PROVE  Calm'
<1>1. PlaneTypes
  BY TypesOfPlane DEF IInv
<1>2. QED
  BY <1>1, Accepted DEF Calm, PlaneTypes, Unsettled

\* After a step of thread t the others still rest.
LEMMA OneThread ==
  ASSUME IInv', NEW t \in Threads,
         \A u \in Threads \ {t} : step[u] \in {"new", "done"} /\ step'[u] = step[u],
         \A u \in Threads \ {t} : step'[u] = "new" => task'[u] = Resync,
         step'[t] # "new", TurnOf(t)', AnswerOf(t)', Converged'
  PROVE  SInv'
<1>1. Alone' /\ Fresh'
  BY DEF Alone, Fresh, Busy
<1>2. \A u \in Threads : TurnOf(u)' /\ AnswerOf(u)'
  <2>1. \A u \in Threads \ {t} : TurnOf(u)' /\ AnswerOf(u)'
    BY DEF TurnOf, AnswerOf
  <2>2. QED
    BY <2>1
<1>3. QED
  BY <1>1, <1>2 DEF SInv

\* While a thread is busy the others rest.
LEMMA OthersRest ==
  ASSUME SInv, NEW t \in Threads, Busy(t)
  PROVE  \A u \in Threads \ {t} :
           step[u] \in {"new", "done"} /\ (step[u] = "new" => task[u] = Resync)
  BY DEF SInv, Alone, Fresh, Busy

LEMMA ReceiveInTurn ==
  ASSUME SInv, ~Overlap, NEW t \in Threads,
         Reconnect(t) \/ \E p \in States : ReceiveCommand(t, p)
  PROVE  SInv'
<1>1. IInv'
  BY ReceiveSafe DEF SInv
<1>2. /\ step[t] = "new" /\ step' = [step EXCEPT ![t] = "submit"] /\ TypeOK /\ task[t] = Resync
      /\ \A u \in Threads : step[u] \in {"new", "done"}
  BY DEF Reconnect, ReceiveCommand, Goto, SInv, IInv, Fresh
<1>3. step'[t] = "submit" /\ \A u \in Threads \ {t} : step'[u] = step[u] /\ task'[u] = task[u]
  BY <1>2 DEF TypeOK, Reconnect, ReceiveCommand
<1>4. TurnOf(t)' /\ AnswerOf(t)'
  BY <1>3 DEF TurnOf, AnswerOf
<1>5. Converged'
  <2>1. CASE Reconnect(t)
    BY <1>2, <1>3, <2>1
       DEF Reconnect, SInv, Converged, Calm, Busy, service, device, published
  <2>2. CASE \E p \in States : ReceiveCommand(t, p)
    BY <2>2 DEF ReceiveCommand, Publish, Converged
  <2>3. QED
    BY <2>1, <2>2
<1>6. QED
  BY <1>1, <1>2, <1>3, <1>4, <1>5, OneThread DEF SInv, Fresh

LEMMA SubmitInTurn ==
  ASSUME SInv, NEW t \in Threads, NEW r \in Ids, SubmitAnswered(t, r) \/ SubmitLost(t, r)
  PROVE  SInv'
<1>1. IInv'
  BY SubmitAnsweredSafe, SubmitLostSafe DEF SInv
<1>2. /\ step[t] = "submit" /\ Accept(r, task[t]) /\ UNCHANGED <<device, task, published>>
      /\ TypeOK /\ PlaneTypes /\ task[t] \in States \cup {Resync}
      /\ \/ step' = [step EXCEPT ![t] = "mark"] /\ req' = [req EXCEPT ![t] = r]
         \/ step' = step
  BY TypesOfPlane DEF SubmitAnswered, SubmitLost, Goto, SInv, IInv, TypeOK, thread
<1>3. /\ \A u \in Threads \ {t} : step[u] \in {"new", "done"} /\ step'[u] = step[u]
      /\ \A u \in Threads \ {t} : step'[u] = "new" => task'[u] = Resync
      /\ step'[t] \in {"submit", "mark"} /\ (step'[t] = "mark" => req'[t] = r)
  BY <1>2, OthersRest DEF Busy, TypeOK
<1>4. TurnOf(t)'
  <2>1. status'[r] = "queued" /\ (r = waiting' \/ (r = active' /\ waiting' = None))
    BY <1>2, Accepted DEF SInv, IInv, Slots
  <2>2. QED
    BY <1>3, <2>1 DEF TurnOf, Verdicts, Svc!Verdicts, Successes
<1>5. AnswerOf(t)'
  BY <1>3 DEF AnswerOf
<1>6. Converged'
  <2>1. CASE stage.is = "ready"
    <3>1. hash = file /\ Calm /\ task[t] = Resync
      BY <1>2, <2>1 DEF SInv, Converged, Busy
    <3>2. Calm'
      BY <1>2, <3>1, CalmStays DEF SInv
    <3>3. QED
      BY <1>2, <1>3, <3>1, <3>2 DEF Converged, Busy, device, published
  <2>2. CASE stage.is # "ready"
    BY <1>2, <2>2 DEF Converged, published
  <2>3. QED
    BY <2>1, <2>2
<1>7. QED
  BY <1>1, <1>3, <1>4, <1>5, <1>6, OneThread

\* A thread that ends without "ready" leaves what the stage says true.
LEMMA EndsInTurn ==
  ASSUME SInv, IInv', NEW t \in Threads, Busy(t), step' = [step EXCEPT ![t] = "done"],
         UNCHANGED <<service, device, task, hash>>, stage' = stage \/ stage'.is # "ready"
  PROVE  SInv'
<1>1. step'[t] = "done" /\ \A u \in Threads \ {t} : step'[u] = step[u]
  BY DEF SInv, IInv, TypeOK
<1>2. TurnOf(t)' /\ AnswerOf(t)'
  BY <1>1 DEF TurnOf, AnswerOf
<1>3. Converged'
  BY <1>1 DEF SInv, Converged, Calm, Busy, service, device
<1>4. QED
  BY <1>1, <1>2, <1>3, OthersRest, OneThread

\* A thread that goes on leaves what the stage says true.
LEMMA GoesOnInTurn ==
  ASSUME SInv, IInv', NEW t \in Threads, NEW next \in Steps, Busy(t),
         step' = [step EXCEPT ![t] = next], next # "new",
         UNCHANGED <<service, device, task, stage>>, hash' = hash \/ hash' = file,
         TurnOf(t)', AnswerOf(t)'
  PROVE  SInv'
<1>1. step'[t] = next /\ \A u \in Threads \ {t} : step'[u] = step[u]
  BY DEF SInv, IInv, TypeOK
<1>2. Converged'
  BY <1>1 DEF SInv, Converged, Calm, Busy, service, device
<1>3. QED
  BY <1>1, <1>2, OthersRest, OneThread

LEMMA MarkInTurn ==
  ASSUME SInv, NEW t \in Threads, SubmitFails(t) \/ Mark(t)
  PROVE  SInv'
<1>1. IInv' /\ TypeOK
  BY SubmitFailsSafe, MarkSafe DEF SInv, IInv
<1>2. CASE SubmitFails(t)
  <2>1. stage' = stage \/ stage'.is # "ready"
    BY <1>2 DEF SubmitFails, Fail, Publish
  <2>2. QED
    BY <1>1, <1>2, <2>1, EndsInTurn DEF SubmitFails, Fail, Goto, Busy
<1>3. CASE Mark(t)
  <2>1. step[t] = "mark" /\ step'[t] = "wait" /\ TurnOf(t)
    BY <1>1, <1>3 DEF Mark, Goto, TypeOK, SInv
  <2>2. TurnOf(t)' /\ AnswerOf(t)'
    BY <1>3, <2>1 DEF Mark, TurnOf, AnswerOf, Calm, service, device
  <2>3. QED
    BY <1>1, <1>3, <2>1, <2>2, GoesOnInTurn DEF Mark, Goto, Busy, Steps, published
<1>4. QED
  BY <1>2, <1>3

LEMMA AnswerInTurn ==
  ASSUME SInv, NEW t \in Threads, WaitAnswers(t) \/ CheckLatest(t) \/ SayError(t)
  PROVE  SInv'
<1>1. IInv' /\ TypeOK
  BY WaitAnswersSafe, CheckLatestSafe, SayErrorSafe DEF SInv, IInv
<1>2. CASE WaitAnswers(t) /\ Fail(t)
  <2>1. stage' = stage \/ stage'.is # "ready"
    BY <1>2 DEF Fail, Publish
  <2>2. QED
    BY <1>1, <1>2, <2>1, EndsInTurn DEF WaitAnswers, Fail, Goto, Busy
<1>3. CASE /\ step[t] = "wait" /\ UNCHANGED <<service, device, task, published>>
           /\ result' = [result EXCEPT ![t] = status[req[t]]]
           /\ Goto(t, "check")
  <2>1. step'[t] = "check" /\ result'[t] = status[req[t]] /\ TurnOf(t)
    BY <1>1, <1>3 DEF Goto, TypeOK, SInv
  <2>2. TurnOf(t)' /\ AnswerOf(t)'
    BY <1>3, <2>1 DEF TurnOf, AnswerOf, Calm, service, device
  <2>3. QED
    BY <1>1, <1>3, <2>2, GoesOnInTurn DEF Goto, Busy, Steps, published
<1>4. CASE CheckLatest(t)
  <2>1. /\ step[t] = "check" /\ UNCHANGED <<service, device, task, result, published>>
        /\ \E next \in {"done", "error", "hash"} : Goto(t, next)
        /\ result[t] \in Verdicts \cup {"superseded", "none"} /\ result[t] # "none"
    BY <1>1, <1>4 DEF CheckLatest, SInv, IInv, Reports, TypeOK, Verdicts
  <2>2. step'[t] = "hash" => result[t] \in Successes
    BY <1>1, <1>4, <2>1 DEF CheckLatest, Goto, TypeOK, Successes, Verdicts, Svc!Verdicts
  <2>3. Successes \subseteq Verdicts
    BY DEF Successes, Verdicts, Svc!Verdicts
  <2>4. step'[t] \in {"done", "error", "hash"} /\ AnswerOf(t)
    BY <1>1, <2>1 DEF Goto, TypeOK, SInv
  <2>5. TurnOf(t)' /\ AnswerOf(t)'
    BY <2>1, <2>2, <2>3, <2>4 DEF TurnOf, AnswerOf, Calm, service, device
  <2>6. QED
    BY <1>1, <2>1, <2>5, GoesOnInTurn DEF Goto, Busy, Steps, published
<1>5. CASE SayError(t)
  BY <1>1, <1>5, EndsInTurn DEF SayError, Publish, Goto, Busy
<1>6. QED
  BY <1>2, <1>3, <1>4, <1>5 DEF WaitAnswers, published

LEMMA PublishInTurn ==
  ASSUME SInv, NEW t \in Threads, ReadFile(t) \/ PublishHash(t) \/ SayReady(t)
  PROVE  SInv'
<1>1. IInv' /\ TypeOK /\ AnswerOf(t)
  BY ReadFileSafe, PublishHashSafe, SayReadySafe DEF SInv, IInv
<1>2. CASE ReadFile(t)
  <2>1. step[t] = "hash" /\ step'[t] = "publish" /\ read'[t] = file
    BY <1>1, <1>2 DEF ReadFile, Goto, TypeOK
  <2>2. TurnOf(t)' /\ AnswerOf(t)'
    BY <1>1, <1>2, <2>1 DEF ReadFile, TurnOf, AnswerOf, Calm, service, device
  <2>3. QED
    BY <1>1, <1>2, <2>2, GoesOnInTurn DEF ReadFile, Goto, Busy, Steps, published
<1>3. CASE PublishHash(t)
  <2>1. step[t] = "publish" /\ step'[t] = "tunnel" /\ hash' = file
    BY <1>1, <1>3 DEF PublishHash, Goto, TypeOK, AnswerOf
  <2>2. TurnOf(t)' /\ AnswerOf(t)'
    BY <1>1, <1>3, <2>1 DEF PublishHash, TurnOf, AnswerOf, Calm, service, device
  <2>3. QED
    BY <1>1, <1>3, <2>1, <2>2, GoesOnInTurn DEF PublishHash, Goto, Busy, Steps
<1>4. CASE SayReady(t)
  <2>1. /\ step[t] = "tunnel" /\ step'[t] = "done" /\ hash = file /\ Calm
        /\ \A u \in Threads \ {t} : step'[u] = step[u]
    BY <1>1, <1>4 DEF SayReady, Goto, TypeOK, AnswerOf
  <2>2. TurnOf(t)' /\ AnswerOf(t)'
    BY <2>1 DEF TurnOf, AnswerOf
  <2>3. Converged'
    BY <1>4, <2>1, OthersRest DEF SayReady, Converged, Calm, Busy, service, device
  <2>4. QED
    BY <1>1, <1>4, <2>1, <2>2, <2>3, OthersRest, OneThread DEF SayReady, Busy
<1>5. QED
  BY <1>2, <1>3, <1>4

\* The data plane leaves the threads and the file alone.
LEMMA PlaneInTurn ==
  ASSUME SInv, IInv', UNCHANGED controlVars, file' = file, good \subseteq good',
         Calm => Calm', \A t \in Threads : TurnOf(t)'
  PROVE  SInv'
<1> USE DEF SInv, controlVars, thread, published
<1>1. Alone' /\ Fresh' /\ Converged'
  BY DEF Alone, Fresh, Converged, Busy
<1>2. \A t \in Threads : AnswerOf(t)'
  BY DEF AnswerOf
<1>3. QED
  BY <1>1, <1>2

\* A thread in its turn has a request that was accepted.
LEMMA HasRequest ==
  ASSUME IInv, NEW t \in Threads, step[t] \in {"mark", "wait"}
  PROVE  req[t] \in Ids /\ status[req[t]] # "unborn" /\ status[req[t]] \in Conditions
  BY TypesOfPlane DEF IInv, Born, TypeOK, PlaneTypes

LEMMA InternalReconcileInTurn ==
  ASSUME SInv, NEW r \in Ids, InternalReconcile(r)
  PROVE  SInv'
<1>1. IInv' /\ PlaneTypes /\ Accept(r, Resync) /\ UNCHANGED <<device, controlVars>>
  BY InternalReconcileSafe, TypesOfPlane DEF SInv, IInv, InternalReconcile
<1>2. Calm => Calm'
  BY <1>1, CalmStays DEF SInv
<1>3. ASSUME NEW t \in Threads PROVE TurnOf(t)'
  <2>1. SUFFICES ASSUME step[t] \in {"mark", "wait"} PROVE TurnOf(t)'
    BY <1>1 DEF TurnOf, controlVars, thread
  <2>2. req[t] \in Ids \ {r} /\ TurnOf(t) /\ req'[t] = req[t] /\ step'[t] = step[t]
    BY <1>1, <2>1, Accepted, HasRequest DEF SInv, controlVars, thread
  <2>3. status'[req[t]] \in Unsettled => req[t] = active' /\ waiting' = r /\ job'[r] = Resync
    <3>1. status'[req[t]] \in Unsettled => status[req[t]] \in Unsettled
      BY <1>1, <2>2, Accepted DEF Unsettled
    <3>2. status'[req[t]] \in Unsettled => active # None
      BY <2>2, <3>1, ControlAssumption DEF SInv, IInv, Slots
    <3>3. status'[req[t]] \in Unsettled => active' = active /\ waiting' = r /\ req[t] # waiting
      BY <1>1, <2>2, <3>2, Accepted
    <3>4. status'[req[t]] \in Unsettled => req[t] = active
      BY <2>1, <2>2, <3>1, <3>3 DEF TurnOf
    <3>5. job'[r] = Resync
      BY <1>1, Accepted DEF PlaneTypes
    <3>6. QED
      BY <3>3, <3>4, <3>5
  <2>4. status'[req[t]] \in Verdicts => status'[req[t]] = status[req[t]]
    BY <1>1, <2>2, Accepted DEF Verdicts, Svc!Verdicts
  <2>5. Successes \subseteq Verdicts
    BY DEF Successes, Verdicts, Svc!Verdicts
  <2>6. QED
    BY <1>1, <1>2, <2>1, <2>2, <2>3, <2>4, <2>5 DEF TurnOf, device
<1>4. QED
  BY <1>1, <1>2, <1>3, PlaneInTurn DEF device

LEMMA BeginInTurn ==
  ASSUME SInv, Begin
  PROVE  SInv'
<1>1. /\ IInv' /\ PlaneTypes /\ active \in Ids /\ status[active] = "queued"
      /\ status' = [status EXCEPT ![active] = "running"]
      /\ UNCHANGED <<active, waiting, job, file, good, controlVars>>
  BY BeginSafe, TypesOfPlane DEF SInv, IInv, Begin, Svc!Begin, PlaneTypes
<1>2. \A r \in Ids : /\ status'[r] \in Unsettled <=> status[r] \in Unsettled
                     /\ status'[r] \in Verdicts => status'[r] = status[r]
  BY <1>1 DEF PlaneTypes, Unsettled, Verdicts, Svc!Verdicts
<1>3. Calm' <=> Calm
  BY <1>1, <1>2 DEF Calm
<1>4. ASSUME NEW t \in Threads PROVE TurnOf(t)'
  <2>1. SUFFICES ASSUME step[t] \in {"mark", "wait"} PROVE TurnOf(t)'
    BY <1>1 DEF TurnOf, controlVars, thread
  <2>2. req[t] \in Ids /\ TurnOf(t) /\ Successes \subseteq Verdicts
    BY <2>1, HasRequest DEF SInv, Successes, Verdicts, Svc!Verdicts
  <2>3. QED
    BY <1>1, <1>2, <1>3, <2>1, <2>2 DEF TurnOf, controlVars, thread
<1>5. QED
  BY <1>1, <1>3, <1>4, PlaneInTurn

\* Only a state that somebody still waits for replaces the file.
LEMMA SaveInTurn ==
  ASSUME SInv, Save
  PROVE  SInv'
<1>1. IInv' /\ ~Calm /\ UNCHANGED <<service, controlVars>> /\ TypeOK
  BY SaveSafe, TypesOfPlane DEF SInv, IInv, Save, Calm, PlaneTypes, Unsettled
<1>2. Alone' /\ Fresh' /\ Converged'
  BY <1>1 DEF SInv, Alone, Fresh, Converged, Busy, controlVars, thread, published
<1>3. ASSUME NEW t \in Threads PROVE TurnOf(t)' /\ AnswerOf(t)'
  <2>1. Successes \subseteq Verdicts
    BY DEF Successes, Verdicts, Svc!Verdicts
  <2>2. TurnOf(t) /\ AnswerOf(t)
    BY DEF SInv
  <2>3. TurnOf(t)'
    BY <1>1, <2>1, <2>2 DEF TurnOf, service, controlVars, thread
  <2>4. AnswerOf(t)'
    BY <1>1, <2>1, <2>2 DEF AnswerOf, service, controlVars, thread
  <2>5. QED
    BY <2>3, <2>4
<1>4. QED
  BY <1>1, <1>2, <1>3 DEF SInv

LEMMA SettleInTurn ==
  ASSUME SInv, Settle
  PROVE  SInv'
<1>1. IInv' /\ PlaneTypes /\ UNCHANGED controlVars
  BY SettleSafe, TypesOfPlane DEF SInv, IInv, Settle
<1>2. \A r \in Ids : status'[r] \in Unsettled => status[r] \in Unsettled /\ r # active
  BY <1>1, Settled DEF Unsettled, Verdicts, Svc!Verdicts
<1>3. Calm => Calm'
  BY <1>1, <1>2, Settled DEF Calm
<1>4. ASSUME NEW t \in Threads PROVE TurnOf(t)'
  <2>1. SUFFICES ASSUME step[t] \in {"mark", "wait"} PROVE TurnOf(t)'
    BY <1>1 DEF TurnOf, controlVars, thread
  <2>2. req[t] \in Ids /\ TurnOf(t) /\ req' = req /\ step' = step /\ Successes \subseteq Verdicts
    BY <1>1, <2>1, HasRequest DEF SInv, Successes, Verdicts, Svc!Verdicts, controlVars, thread
  <2>3. CASE req[t] = active
    <3>1. waiting # None => job[waiting] = Resync
      BY <1>1, <2>1, <2>2, <2>3, Settled DEF SInv, IInv, Slots, TurnOf, Unsettled
    <3>2. Calm'
      BY <1>1, <1>2, <3>1, Settled, ControlAssumption DEF SInv, IInv, Slots, Calm
    <3>3. QED
      BY <1>1, <1>2, <2>2, <2>3, <3>2, Settled DEF TurnOf, Successes
  <2>4. CASE req[t] # active
    <3>1. status'[req[t]] \in Unsettled \cup Verdicts => status'[req[t]] = status[req[t]]
      BY <1>1, <2>2, <2>4, Settled DEF Unsettled, Verdicts, Svc!Verdicts
    <3>2. QED
      BY <1>1, <1>3, <2>1, <2>2, <2>4, <3>1, Settled DEF TurnOf
  <2>5. QED
    BY <2>3, <2>4
<1>5. good \subseteq good' /\ file' = file
  BY <1>1, Settled
<1>6. QED
  BY <1>1, <1>3, <1>4, <1>5, PlaneInTurn

LEMMA AdvanceInTurn ==
  ASSUME SInv, Advance
  PROVE  SInv'
<1>1. /\ IInv' /\ status[active] \notin Unsettled /\ active' = waiting /\ waiting' = None
      /\ UNCHANGED <<status, job, file, good, controlVars>>
  BY AdvanceSafe DEF SInv, Advance, Svc!Advance, device, Unsettled
<1>2. Calm' <=> Calm
  BY <1>1 DEF Calm
<1>3. ASSUME NEW t \in Threads PROVE TurnOf(t)'
  <2>1. TurnOf(t) /\ req' = req /\ step' = step
    BY <1>1 DEF SInv, controlVars, thread
  <2>2. QED
    BY <1>1, <1>2, <2>1 DEF TurnOf
<1>4. QED
  BY <1>1, <1>2, <1>3, PlaneInTurn

LEMMA CrashInTurn ==
  ASSUME SInv, Crash
  PROVE  SInv'
<1>1. IInv' /\ PlaneTypes /\ UNCHANGED controlVars
  BY CrashSafe, TypesOfPlane DEF SInv, IInv, Crash
<1>2. Calm'
  BY <1>1, Crashed DEF Calm
<1>3. ASSUME NEW t \in Threads PROVE TurnOf(t)'
  <2>1. SUFFICES ASSUME step[t] \in {"mark", "wait"} PROVE TurnOf(t)'
    BY <1>1 DEF TurnOf, controlVars, thread
  <2>2. req[t] \in Ids /\ TurnOf(t) /\ req' = req /\ step' = step
    BY <1>1, <2>1, HasRequest DEF SInv, controlVars, thread
  <2>3. QED
    BY <1>1, <1>2, <2>1, <2>2, Crashed DEF TurnOf
<1>4. QED
  BY <1>1, <1>2, <1>3, Crashed, PlaneInTurn

LEMMA StutterInTurn ==
  ASSUME SInv, UNCHANGED vars
  PROVE  SInv'
<1>1. IInv' /\ (Calm' <=> Calm)
  BY StutterSafe DEF SInv, Calm, vars, service
<1>2. \A t \in Threads : TurnOf(t)'
  BY <1>1 DEF SInv, TurnOf, vars, service, device, thread
<1>3. QED
  BY <1>1, <1>2, PlaneInTurn DEF vars, controlVars, device

LEMMA SequentialNext == ~Overlap /\ SInv /\ [Next]_vars => SInv'
<1> SUFFICES ASSUME ~Overlap, SInv, [Next]_vars PROVE SInv'
  OBVIOUS
<1>1. CASE \E t \in Threads :
             Control(t) \/ Reconnect(t) \/ \E p \in States : ReceiveCommand(t, p)
  BY <1>1, ReceiveInTurn, SubmitInTurn, MarkInTurn, AnswerInTurn, PublishInTurn DEF Control
<1>2. CASE \E r \in Ids : InternalReconcile(r)
  BY <1>2, InternalReconcileInTurn
<1>3. CASE DataPlane \/ Crash
  BY <1>3, BeginInTurn, SaveInTurn, SettleInTurn, AdvanceInTurn, CrashInTurn DEF DataPlane
<1>4. CASE Done \/ UNCHANGED vars
  BY <1>4, StutterInTurn DEF Done
<1>5. QED
  BY <1>1, <1>2, <1>3, <1>4 DEF Next

-----------------------------------------------------------------------------
\* The inductive invariant of threads that overlap.
THEOREM ControlInvariant == Spec => []IInv
<1>1. Init => IInv
  BY InitIsSafe
<1>2. IInv /\ [Next]_vars => IInv'
  BY NextIsSafe
<1>3. QED
  BY <1>1, <1>2, PTL DEF Spec

\* The control process and the service keep their types.
THEOREM ControlTypes == Spec => []TypeOK
<1>1. IInv => TypeOK
  BY DEF IInv
<1>2. QED
  BY <1>1, ControlInvariant, PTL

\* For any number of threads, lost answers and crashes: the lock around the
\* call and the marker keeps them in one order (_submit_and_wait_apply).
THEOREM MarkerStaysNewest == Spec => []MarkerIsNewest
<1>1. IInv => MarkerIsNewest
  BY ControlAssumption DEF IInv, Marker, MarkerIsNewest
<1>2. QED
  BY <1>1, ControlInvariant, PTL

\* For any number of threads: the owner of the newest request reports how it
\* ended (_apply_and_update_status and _handle_device_connect).
THEOREM NewestIsNeverSilent == Spec => []TheLatestReports
<1>1. IInv => TheLatestReports
  BY DEF IInv
<1>2. QED
  BY <1>1, ControlInvariant, PTL

\* When commands do not overlap, "ready" means that the published hash is
\* that of the file, whatever is lost, refused, or crashes.
THEOREM ReadyIsConverged ==
  ASSUME ~Overlap
  PROVE  Spec => []ReadyMeansConverged
<1>1. Init => SInv
  BY SequentialInit
<1>2. SInv /\ [Next]_vars => SInv'
  BY SequentialNext
<1>3. SInv => ReadyMeansConverged
  BY DEF SInv, Converged, ReadyMeansConverged
<1>4. QED
  BY <1>1, <1>2, <1>3, PTL DEF Spec

\* A step that changes the hash publishes a state that has been applied.
LEMMA HashIsApplied ==
  ASSUME SInv, Next, hash' # hash
  PROVE  hash' \in good
<1>1. PICK t \in Threads : PublishHash(t)
  BY DEF Next, Control, SubmitAnswered, SubmitLost, SubmitFails, Mark, WaitAnswers, CheckLatest,
     SayError, ReadFile, SayReady, Reconnect, ReceiveCommand, InternalReconcile, DataPlane, Begin,
     Save, Settle, Advance, Crash, Done, controlVars, published, thread, vars
<1>2. QED
  BY <1>1 DEF PublishHash, SInv, AnswerOf

\* When commands do not overlap, no hash is published of a state whose apply
\* failed (desired-state.md).
THEOREM HashIsOfSuccess ==
  ASSUME ~Overlap
  PROVE  Spec => HashClaimsOnlySuccess
<1>1. Init => SInv
  BY SequentialInit
<1>2. SInv /\ [Next]_vars => SInv'
  BY SequentialNext
<1>3. SInv /\ [Next]_vars => [hash' # hash => hash' \in good]_vars
  BY HashIsApplied
<1>4. QED
  BY <1>1, <1>2, <1>3, PTL DEF Spec, HashClaimsOnlySuccess
=============================================================================
