------------------------- MODULE ApplyServiceProofs -------------------------
(***************************************************************************)
(* The scheduler implements the abstract service, for any number of        *)
(* requests, states and crashes, as long as the file operations on records *)
(* that exist do not fail: a record that cannot be created is a refusal,   *)
(* but a lost write or unlink lets a restart tell another verdict.         *)
(***************************************************************************)
EXTENDS ApplySchedulerProofs

-----------------------------------------------------------------------------
(* The operations of the store when nothing but a creation fails.          *)

OnlyCreateFails == StoreFaults \subseteq {"create"}

\* The files are the memory, and no record is from the future.
Whole(s) ==
  /\ s \in Store /\ s.mem = s.disk
  /\ \A r \in Ids : s.mem[r].at <= s.clock

\* What is written and what is pruned: the records of a stored store.
LEMMA StoredForm ==
  ASSUME NEW s \in Store, NEW U \in SUBSET Ids, NEW upd \in [U -> Record],
         NEW ticks \in Nat, NEW t \in Stored(s, upd, ticks)
  PROVE  LET mem == Overwrite(s.mem, upd)
             old == IF \E r \in DOMAIN upd : upd[r].status \in TerminalStatuses
                      THEN Expired(mem) ELSE {}
         IN  \E w \in Written(DOMAIN upd), left \in LeftBehind(old) :
               t = [mem |-> Drop(mem, old),
                    disk |-> Drop(Overwrite(s.disk, OnlyOn(w, upd)), old \ left),
                    clock |-> s.clock + ticks]
BY DEF Stored

\* What is stored is in the files as well.
LEMMA StoredIsWhole ==
  ASSUME OnlyCreateFails, NEW s, Whole(s), NEW U \in SUBSET Ids, NEW upd \in [U -> Record],
         NEW ticks \in Nat, \A r \in U : upd[r].at <= s.clock + ticks,
         NEW t \in Stored(s, upd, ticks)
  PROVE  Whole(t)
<1> DEFINE mem == Overwrite(s.mem, upd)
           old == IF \E r \in DOMAIN upd : upd[r].status \in TerminalStatuses
                    THEN Expired(mem) ELSE {}
<1>1. /\ s \in Store /\ s.mem = s.disk /\ s.clock \in Nat /\ DOMAIN upd = U
      /\ \A r \in Ids : s.mem[r].at <= s.clock /\ s.mem[r].at \in Nat
      /\ \A r \in U : upd[r].at \in Nat
  BY DEF Whole, Store, Record
<1>2. Written(DOMAIN upd) = {U} /\ LeftBehind(old) = {{}}
  BY <1>1 DEF OnlyCreateFails, Written, LeftBehind
<1>3. t = [mem |-> Drop(mem, old), disk |-> Drop(Overwrite(s.disk, OnlyOn(U, upd)), old \ {}),
           clock |-> s.clock + ticks]
  <2>1. PICK w \in Written(DOMAIN upd), left \in LeftBehind(old) :
          t = [mem |-> Drop(mem, old),
               disk |-> Drop(Overwrite(s.disk, OnlyOn(w, upd)), old \ left),
               clock |-> s.clock + ticks]
    BY <1>1, StoredForm
  <2>2. w = U /\ left = {}
    BY <1>2
  <2>3. QED
    BY <2>1, <2>2
<1>4. OnlyOn(U, upd) = upd
  BY <1>1 DEF OnlyOn
<1>5. t.mem = Drop(mem, old) /\ t.disk = Drop(mem, old) /\ t.clock = s.clock + ticks
  BY <1>1, <1>3, <1>4
<1>6. \A r \in Ids : t.mem[r] \in {NoRecord, s.mem[r]} \/ (r \in U /\ t.mem[r] = upd[r])
  BY <1>1, <1>5 DEF Drop, Overwrite
<1>7. \A r \in Ids : t.mem[r].at <= t.clock
  BY <1>1, <1>5, <1>6 DEF NoRecord
<1>8. t \in Store
  BY <1>1, StoredFacts
<1>9. QED
  BY <1>5, <1>7, <1>8 DEF Whole

\* One record is updated.  It is the newest, so pruning does not take it, and
\* nothing is pruned before it is terminal.
LEMMA UpdateIsWhole ==
  ASSUME OnlyCreateFails, NEW s, Whole(s), NEW r \in Ids, s.mem[r].status # "absent",
         NEW v \in Statuses, NEW a \in BOOLEAN, NEW t \in Update(s, r, v, a)
  PROVE  /\ Whole(t) /\ t.mem[r].status = v
         /\ v \notin TerminalStatuses => \A x \in Ids \ {r} : t.mem[x] = s.mem[x]
<1> DEFINE rec == [status |-> v, applied |-> a, at |-> s.clock + 1]
           upd == [x \in {r} |-> rec]
           mem == Overwrite(s.mem, upd)
           old == IF \E x \in DOMAIN upd : upd[x].status \in TerminalStatuses
                    THEN Expired(mem) ELSE {}
<1>1. /\ s \in Store /\ s.clock \in Nat /\ s.mem \in [Ids -> Record]
      /\ \A x \in Ids : s.mem[x].at <= s.clock /\ s.mem[x].at \in Nat
  BY DEF Whole, Store, Record
<1>2. rec \in Record /\ rec.status = v /\ rec.at = s.clock + 1
  BY <1>1 DEF Record
<1>3. upd \in [{r} -> Record] /\ DOMAIN upd = {r} /\ upd[r] = rec /\ {r} \in SUBSET Ids
  BY <1>2
<1>4. t \in Stored(s, upd, 1)
  BY DEF Update
<1> HIDE DEF upd, rec
<1>5. t.mem = Drop(mem, old)
  <2>1. PICK w \in Written(DOMAIN upd), left \in LeftBehind(old) :
          t = [mem |-> Drop(mem, old),
               disk |-> Drop(Overwrite(s.disk, OnlyOn(w, upd)), old \ left),
               clock |-> s.clock + 1]
    BY <1>1, <1>3, <1>4, StoredForm
  <2>2. QED
    BY <2>1
<1>6. mem = [x \in Ids |-> IF x = r THEN rec ELSE s.mem[x]]
  BY <1>3 DEF Overwrite
<1>7. v \notin TerminalStatuses => old = {}
  BY <1>2, <1>3
<1> HIDE DEF mem
<1>8. r \notin old
  <2>1. \A q \in Terminal(mem) : ~(mem[q].at > mem[r].at)
    BY <1>1, <1>2, <1>6 DEF Terminal
  <2>2. {q \in Terminal(mem) : mem[q].at > mem[r].at} = {}
    BY <2>1
  <2>3. Cardinality({q \in Terminal(mem) : mem[q].at > mem[r].at}) = 0
    BY <2>2, FS_EmptySet
  <2>4. ~(0 >= TerminalLimit)
    BY LimitAssumption
  <2>5. r \notin Expired(mem)
    BY <2>3, <2>4 DEF Expired
  <2>6. QED
    BY <2>5
<1> HIDE DEF old
<1>9. Whole(t)
  <2>1. \A x \in {r} : upd[x].at <= s.clock + 1
    BY <1>1, <1>2, <1>3
  <2>2. QED
    BY <1>3, <1>4, <2>1, StoredIsWhole
<1>10. t.mem[r] = rec /\ (old = {} => \A x \in Ids \ {r} : t.mem[x] = s.mem[x])
  BY <1>5, <1>6, <1>8 DEF Drop
<1>11. QED
  BY <1>2, <1>7, <1>9, <1>10

LEMMA CreatedIsWhole ==
  ASSUME NEW s, Whole(s), NEW r \in Ids
  PROVE  Whole(Created(s, r))
<1> DEFINE t == Created(s, r)
<1>1. s \in Store /\ s.clock \in Nat /\ s.mem \in [Ids -> Record] /\ s.disk = s.mem
  BY DEF Whole, Store
<1>2. t \in Store
  BY <1>1, CreatedFacts
<1>3. t.mem = t.disk /\ t.clock = s.clock + 1
  BY <1>1 DEF Created
<1>4. \A x \in Ids : t.mem[x].at <= t.clock
  BY <1>1 DEF Created, Whole, Record
<1> HIDE DEF t
<1>5. Whole(t)
  BY <1>2, <1>3, <1>4 DEF Whole
<1>6. QED
  BY <1>5 DEF t

LEMMA ReloadedIsWhole ==
  ASSUME OnlyCreateFails, NEW s, Whole(s), NEW t \in Reloaded(s)
  PROVE  Whole(t)
<1> DEFINE live == Live(s.disk)
           loaded == [s EXCEPT !.mem = s.disk]
           upd(f) == [r \in live |-> [status |-> "failed",
                                      applied |-> s.disk[r].applied,
                                      at |-> s.clock + f[r]]]
<1>1. PICK f \in Orders(live) : t \in Stored(loaded, upd(f), Cardinality(live))
  BY DEF Reloaded
<1>2. live \in SUBSET Ids /\ Cardinality(live) \in Nat
  BY IdsAssumption, FS_Subset, FS_CardinalityType DEF Live
<1>3. s \in Store /\ s.mem = s.disk /\ s.clock \in Nat
  BY DEF Whole, Store
<1>4. loaded = s
  BY <1>3 DEF Store
<1>5. \A r \in live : f[r] \in Nat /\ f[r] <= Cardinality(live)
  BY <1>2 DEF Orders
<1>6. upd(f) \in [live -> Record]
  BY <1>2, <1>3, <1>5 DEF Record, Store, Statuses, TerminalStatuses
<1>7. \A r \in live : upd(f)[r].at <= s.clock + Cardinality(live)
  BY <1>2, <1>3, <1>5
<1> HIDE DEF live, loaded, upd
<1>8. QED
  BY <1>1, <1>2, <1>4, <1>6, <1>7, StoredIsWhole

-----------------------------------------------------------------------------
(* The refinement.                                                         *)

\* The invariant of the refinement: what the next process would load is what
\* callers are told now.
RInv == IInv /\ Whole(store)


\* The records that pruning took are those of settled requests, which the
\* service may forget.
LEMMA OthersArePruned ==
  ASSUME IInv, NEW D \in SUBSET Ids,
         \A x \in Ids \ D :
           /\ store'.mem[x] = store.mem[x]
                \/ (store.mem[x].status \in TerminalStatuses /\ store'.mem[x] = NoRecord)
           /\ pc'[x] \in Enqueued <=> pc[x] \in Enqueued
  PROVE  \E F \in SUBSET (Service!Settled \ D) :
           \A x \in Ids \ D :
             ServiceStatus'[x] = IF x \in F THEN "forgotten" ELSE ServiceStatus[x]
<1> DEFINE F == {x \in Ids \ D : store'.mem[x] # store.mem[x]}
<1>1. \A x \in F : /\ store.mem[x].status \in TerminalStatuses
                   /\ store'.mem[x].status = "absent" /\ pc'[x] \in Enqueued
  BY DEF IInv, FreshHasNoRecord, TerminalStatuses, SuccessStatuses, NoRecord
<1>2. F \in SUBSET (Service!Settled \ D)
  BY <1>1 DEF Service!Settled, Service!Verdicts, ServiceStatus, TerminalStatuses,
       SuccessStatuses
<1>3. \A x \in Ids \ D :
        ServiceStatus'[x] = IF x \in F THEN "forgotten" ELSE ServiceStatus[x]
  BY <1>1 DEF ServiceStatus
<1> HIDE DEF F
<1> QED
  BY <1>2, <1>3

\* The service does not see the steps that leave records, slots and fates alone.
LEMMA SameService ==
  ASSUME UNCHANGED <<running, pending>>,
         \A x \in Ids : /\ store'.mem[x] = store.mem[x]
                        /\ pc'[x] \in Enqueued <=> pc[x] \in Enqueued
  PROVE  UNCHANGED Service!vars
BY DEF Service!vars, ServiceStatus

\* The threads that only move.
LEMMA MovesAreStutters ==
  ASSUME IInv, NEW r \in Ids,
         Submit(r) \/ TimerFires(r) \/ ParkForIdle(r) \/ CallWait(r) \/ WaitApply(r)
  PROVE  UNCHANGED Service!vars /\ UNCHANGED store
<1>1. /\ UNCHANGED <<running, pending, store>> /\ pc \in [Ids -> CallStates]
      /\ \E s \in CallStates : /\ pc' = [pc EXCEPT ![r] = s]
                               /\ s \in Enqueued <=> pc[r] \in Enqueued
  <2> USE DEF slotVars, CallStates, Enqueued
  <2>1. pc \in [Ids -> CallStates]
    BY DEF IInv, TypeOK
  <2>2. CASE Submit(r) \/ TimerFires(r)
    BY <2>1, <2>2 DEF Submit, SubmitApply, SubmitReconcile, TimerFires, Call
  <2>3. CASE ParkForIdle(r)
    BY <2>1, <2>3 DEF ParkForIdle
  <2>4. CASE CallWait(r)
    BY <2>1, <2>4 DEF CallWait
  <2>5. CASE WaitApply(r)
    BY <2>1, <2>5 DEF WaitApply
  <2> QED
    BY <2>2, <2>3, <2>4, <2>5
<1> QED
  BY <1>1, SameService

\* The phases of the worker between the two records.
LEMMA PhasesAreStutters ==
  ASSUME WorkerSave \/ WorkerHostBegin \/ WorkerHostEnd \/ WorkerAppsBegin \/ WorkerAppsEnd
  PROVE  UNCHANGED Service!vars /\ UNCHANGED store
<1>1. UNCHANGED <<running, pending, store, pc>>
  BY DEF WorkerSave, WorkerHostBegin, WorkerHostEnd, WorkerAppsBegin, WorkerAppsEnd,
       WorkerAt, clientVars
<1> QED
  BY <1>1, SameService

\* A request that is not enqueued is unknown to the service.
LEMMA EnteringIsUnborn ==
  ASSUME IInv, NEW r \in Ids, MayEnqueue(r)
  PROVE  /\ ServiceStatus[r] = "unborn" /\ r # running /\ r # pending
         /\ pc[r] = "entering" /\ pc \in [Ids -> CallStates]
BY EnteringIsFresh DEF MayEnqueue, ServiceStatus, Enqueued, IInv, TypeOK

\* A refusal without a record.
LEMMA RefuseIsReject ==
  ASSUME IInv, NEW r \in Ids, Refuse(r)
  PROVE  Service!Reject(r) /\ UNCHANGED store
<1>1. /\ MayEnqueue(r) /\ UNCHANGED <<running, pending, store>>
      /\ pc' = [pc EXCEPT ![r] = "refused"]
  BY DEF Refuse, slotVars
<1>2. ServiceStatus' = [ServiceStatus EXCEPT ![r] = "forgotten"]
  BY <1>1, EnteringIsUnborn, EnteringIsFresh DEF ServiceStatus, Enqueued
<1>3. ServiceStatus' = Service!Forgetting({}, [ServiceStatus EXCEPT ![r] = "forgotten"])
  BY <1>2 DEF Service!Forgetting, ServiceStatus
<1> QED
  BY <1>1, <1>3, EnteringIsUnborn DEF Service!Reject

\* The request an idle scheduler starts.
LEMMA EnqueueIdleIsAccept ==
  ASSUME IInv, NEW r \in Ids, EnqueueIdle(r)
  PROVE  Service!AcceptIdle(r)
<1> DEFINE p == [pc EXCEPT ![r] = "accepted"]
<1>1. /\ MayEnqueue(r) /\ running = None /\ running' = r /\ pending' = pending
      /\ store' = Created(store, r) /\ pc' = Woken(p) /\ store \in Store
  BY DEF EnqueueIdle, IInv, TypeOK
<1>2. /\ \A x \in Ids \ {r} : store'.mem[x] = store.mem[x]
      /\ store'.mem[r].status = "queued"
  BY <1>1, CreatedFacts
<1>3. p \in [Ids -> CallStates] /\ \A x \in Ids \ {r} : p[x] = pc[x]
  BY <1>1, EnteringIsUnborn DEF CallStates
<1> HIDE DEF p
<1>4. \A x \in Ids \ {r} : pc'[x] \in Enqueued <=> pc[x] \in Enqueued
  BY <1>1, <1>3, WokenFacts
<1>5. ServiceStatus' = [ServiceStatus EXCEPT ![r] = "queued"]
  BY <1>2, <1>4 DEF ServiceStatus
<1> QED
  BY <1>1, <1>5, EnteringIsUnborn DEF Service!AcceptIdle

\* A request whose thread does not start.
LEMMA ThreadFailsIsReject ==
  ASSUME OnlyCreateFails, IInv, Whole(store), NEW r \in Ids, ThreadFails(r)
  PROVE  Service!Reject(r) /\ Whole(store')
<1> DEFINE c == Created(store, r)
           p == [pc EXCEPT ![r] = "refused"]
<1>1. /\ MayEnqueue(r) /\ UNCHANGED <<running, pending>>
      /\ store' \in Update(c, r, "failed", FALSE) /\ pc' = Woken(p)
  BY DEF ThreadFails, slotVars
<1>2. Whole(c) /\ c.mem[r].status = "queued"
  BY CreatedIsWhole, CreatedFacts DEF Whole
<1>3. p \in [Ids -> CallStates] /\ \A x \in Ids \ {r} : p[x] = pc[x]
  BY <1>1, EnteringIsUnborn DEF CallStates
<1> HIDE DEF c, p
<1>4. Whole(store') /\ store'.mem[r].status = "failed"
  <2>1. c.mem[r].status # "absent" /\ "failed" \in Statuses
    BY <1>2 DEF Statuses, TerminalStatuses
  <2>2. ASSUME NEW v \in Statuses, NEW a \in BOOLEAN, store' \in Update(c, r, v, a)
        PROVE  Whole(store') /\ store'.mem[r].status = v
    BY <1>2, <2>1, <2>2, UpdateIsWhole
  <2> QED
    BY <1>1, <2>1, <2>2
<1>5. \A x \in Ids \ {r} : pc'[x] \in Enqueued <=> pc[x] \in Enqueued
  BY <1>1, <1>3, WokenFacts
<1>6. PICK F \in SUBSET (Service!Settled \ {r}) :
        \A x \in Ids \ {r} :
          ServiceStatus'[x] = IF x \in F THEN "forgotten" ELSE ServiceStatus[x]
  <2>1. \A x \in Ids \ {r} :
          store'.mem[x] = store.mem[x]
            \/ (store.mem[x].status \in TerminalStatuses /\ store'.mem[x] = NoRecord)
    BY FailedThreadFacts
  <2>2. {r} \in SUBSET Ids
    OBVIOUS
  <2> QED
    BY <1>5, <2>1, <2>2, OthersArePruned
<1>7. ServiceStatus'[r] = "failed" /\ r \notin F
  BY <1>4 DEF ServiceStatus
<1>8. ServiceStatus' = Service!Forgetting(F, [ServiceStatus EXCEPT ![r] = "failed"])
  BY <1>6, <1>7 DEF Service!Forgetting, ServiceStatus
<1>9. Service!Reject(r)
  BY <1>1, <1>6, <1>8, EnteringIsUnborn DEF Service!Reject
<1> QED
  BY <1>4, <1>9

\* The request that takes the waiting place, from one that is superseded.
LEMMA EnqueuePendingIsAccept ==
  ASSUME OnlyCreateFails, IInv, Whole(store), NEW r \in Ids, EnqueuePending(r)
  PROVE  Service!AcceptWaiting(r) /\ Whole(store')
<1> DEFINE c == Created(store, r)
           p == [pc EXCEPT ![r] = "accepted"]
           D == {r, pending} \ {None}
<1>1. /\ MayEnqueue(r) /\ running # None /\ running' = running /\ pending' = r
      /\ store' \in Superseding(c) /\ pc' = Woken(p) /\ pending \in Ids \cup {None}
  BY DEF EnqueuePending, IInv, TypeOK
<1>2. Whole(c) /\ \A x \in Ids \ {r} : c.mem[x] = store.mem[x]
  BY CreatedIsWhole, CreatedFacts DEF Whole
<1>3. p \in [Ids -> CallStates] /\ \A x \in Ids \ {r} : p[x] = pc[x]
  BY <1>1, EnteringIsUnborn DEF CallStates
<1> HIDE DEF c, p
<1>4. Whole(store') /\ (pending # None => store'.mem[pending].status = "superseded")
  <2>1. CASE pending = None
    BY <1>1, <1>2, <2>1 DEF Superseding
  <2>2. CASE pending # None
    <3>1. pending \in Ids /\ pending # r /\ store.mem[pending].status = "queued"
      BY <1>1, <2>2, EnteringIsUnborn DEF IInv, SlotsHaveRecords
    <3>2. c.mem[pending].status # "absent" /\ "superseded" \in Statuses
      BY <1>2, <3>1 DEF Statuses, TerminalStatuses
    <3>3. store' \in Update(c, pending, "superseded", FALSE)
      BY <1>1, <2>2 DEF Superseding
    <3>4. Whole(store') /\ store'.mem[pending].status = "superseded"
      <4>1. pending \in Ids
        BY <3>1
      <4>2. ASSUME NEW v \in Statuses, NEW a \in BOOLEAN,
                   store' \in Update(c, pending, v, a)
            PROVE  Whole(store') /\ store'.mem[pending].status = v
        BY <1>2, <3>2, <4>1, <4>2, UpdateIsWhole
      <4> QED
        BY <3>2, <3>3, <4>2
    <3> QED
      BY <3>4
  <2> QED
    BY <2>1, <2>2
<1>5. /\ store'.mem[r].status = "queued"
      /\ \A x \in Ids \ D :
           store'.mem[x] = store.mem[x]
             \/ (store.mem[x].status \in TerminalStatuses /\ store'.mem[x] = NoRecord)
  BY SupersedingFacts, NoneAssumption
<1>6. \A x \in Ids \ D : pc'[x] \in Enqueued <=> pc[x] \in Enqueued
  BY <1>1, <1>3, WokenFacts, NoneAssumption
<1>7. D \in SUBSET Ids /\ r \in D
  BY <1>1, NoneAssumption
<1>8. \A x \in Ids : x \in D <=> x = r \/ x = pending
  BY NoneAssumption
<1> HIDE DEF D
<1>9. PICK F \in SUBSET (Service!Settled \ D) :
        \A x \in Ids \ D :
          ServiceStatus'[x] = IF x \in F THEN "forgotten" ELSE ServiceStatus[x]
  BY <1>5, <1>6, <1>7, OthersArePruned
<1>10. /\ ServiceStatus'[r] = "queued" /\ r # pending
       /\ pending # None => ServiceStatus'[pending] = "superseded"
  BY <1>1, <1>4, <1>5, EnteringIsUnborn DEF ServiceStatus
<1> DEFINE st == [x \in Ids |-> IF x = r THEN "queued"
                                ELSE IF x = pending THEN "superseded"
                                ELSE ServiceStatus[x]]
<1>11. ServiceStatus' = Service!Forgetting(F, st)
  <2>1. \A x \in Ids : ServiceStatus'[x] = IF x \in F THEN "forgotten" ELSE st[x]
    BY <1>7, <1>8, <1>9, <1>10, NoneAssumption
  <2> HIDE DEF st
  <2> QED
    BY <2>1 DEF Service!Forgetting, ServiceStatus
<1>12. Service!AcceptWaiting(r)
  BY <1>1, <1>9, <1>11, EnteringIsUnborn DEF Service!AcceptWaiting
<1> QED
  BY <1>4, <1>12

\* The worker starts a job.
LEMMA StartIsBegin ==
  ASSUME OnlyCreateFails, IInv, Whole(store), WorkerStart
  PROVE  Service!Begin /\ Whole(store')
<1>1. /\ worker = "start" /\ UNCHANGED <<running, pending, pc>>
      /\ store' \in Update(store, running, "running", FALSE)
  BY DEF WorkerStart, WorkerAt, clientVars
<1>2. running \in Ids /\ running # None /\ store.mem[running].status = "queued"
  BY <1>1, NoneAssumption DEF IInv, TypeOK, SlotsAgree, SlotsHaveRecords
<1>3. "running" \in Statuses \ TerminalStatuses
  BY DEF Statuses, LiveStatuses, TerminalStatuses, SuccessStatuses
<1>4. /\ Whole(store') /\ store'.mem[running].status = "running"
      /\ \A x \in Ids \ {running} : store'.mem[x] = store.mem[x]
  <2>1. running \in Ids /\ store.mem[running].status # "absent" /\ "running" \in Statuses
    BY <1>2, <1>3
  <2>2. ASSUME NEW v \in Statuses, NEW a \in BOOLEAN,
               store' \in Update(store, running, v, a)
        PROVE  /\ Whole(store') /\ store'.mem[running].status = v
               /\ v \notin TerminalStatuses =>
                    \A x \in Ids \ {running} : store'.mem[x] = store.mem[x]
    BY <2>1, <2>2, UpdateIsWhole
  <2> QED
    BY <1>1, <1>3, <2>1, <2>2
<1>5. ServiceStatus' = [ServiceStatus EXCEPT ![running] = "running"]
  BY <1>1, <1>2, <1>4 DEF ServiceStatus
<1>6. ServiceStatus[running] = "queued"
  BY <1>2 DEF ServiceStatus
<1> QED
  BY <1>1, <1>2, <1>4, <1>5, <1>6 DEF Service!Begin

\* The worker records the verdict.
LEMMA RecordIsSettle ==
  ASSUME OnlyCreateFails, IInv, Whole(store), WorkerRecord
  PROVE  Service!Settle /\ Whole(store')
<1> DEFINE a == IsApply \/ saved # NoState
<1>1. /\ worker = "record" /\ UNCHANGED <<running, pending, pc>>
      /\ store' \in Update(store, running, verdict, a) /\ a \in BOOLEAN
  BY DEF WorkerRecord, WorkerAt, clientVars
<1> HIDE DEF a
<1>2. running \in Ids /\ running # None /\ store.mem[running].status = "running"
  BY <1>1, NoneAssumption DEF IInv, TypeOK, SlotsAgree, SlotsHaveRecords
<1>3. verdict \in Service!Verdicts /\ verdict \in Statuses \ {"superseded"}
  BY <1>1 DEF IInv, TypeOK, SlotsAgree, Service!Verdicts, Statuses, TerminalStatuses,
       SuccessStatuses
<1>4. Whole(store') /\ store'.mem[running].status = verdict
  BY <1>1, <1>2, <1>3, UpdateIsWhole
<1>5. \A x \in Ids \ {running} :
        store'.mem[x] = store.mem[x]
          \/ (store.mem[x].status \in TerminalStatuses /\ store'.mem[x] = NoRecord)
  BY <1>1, <1>3, RunningRecord
<1>6. PICK F \in SUBSET (Service!Settled \ {running}) :
        \A x \in Ids \ {running} :
          ServiceStatus'[x] = IF x \in F THEN "forgotten" ELSE ServiceStatus[x]
  <2>1. {running} \in SUBSET Ids /\ pc' = pc
    BY <1>1, <1>2
  <2> QED
    BY <1>5, <2>1, OthersArePruned
<1>7. ServiceStatus'[running] = verdict /\ ServiceStatus[running] = "running"
  BY <1>2, <1>3, <1>4 DEF ServiceStatus, Statuses, LiveStatuses, TerminalStatuses,
       SuccessStatuses
<1>8. ServiceStatus' = Service!Forgetting(F, [ServiceStatus EXCEPT ![running] = verdict])
  BY <1>2, <1>6, <1>7 DEF Service!Forgetting, ServiceStatus
<1>9. Service!Settle
  BY <1>1, <1>2, <1>3, <1>6, <1>7, <1>8 DEF Service!Settle
<1> QED
  BY <1>4, <1>9

\* The next job comes up, once the record of the last one is settled.
LEMMA PromoteIsAdvance ==
  ASSUME IInv, WorkerPromote
  PROVE  Service!Advance /\ UNCHANGED store
<1>1. /\ worker = "promote" /\ running' = pending /\ pending' = None /\ store' = store
      /\ pc' = Woken(pc) /\ pc \in [Ids -> CallStates]
  BY DEF WorkerPromote, IInv, TypeOK
<1>2. ServiceStatus' = ServiceStatus
  BY <1>1, WokenFacts DEF ServiceStatus
<1>3. running \in Ids /\ running # None /\ running # pending
  BY <1>1, NoneAssumption DEF IInv, TypeOK, SlotsAgree
<1>4. running \notin Live(store.mem)
  BY <1>1, <1>3 DEF IInv, LiveRecordsHaveAJob, Owned
<1>5. ServiceStatus[running] \notin {"queued", "running"}
  BY <1>3, <1>4 DEF ServiceStatus, Live, LiveStatuses
<1> QED
  BY <1>1, <1>2, <1>3, <1>5 DEF Service!Advance

\* A crash: what was not terminal is failed, and pruning may forget any record.
LEMMA RestartIsCrash ==
  ASSUME OnlyCreateFails, IInv, Whole(store), Restart
  PROVE  Service!Crash /\ Whole(store')
<1>1. /\ running' = None /\ pending' = None /\ store' \in Reloaded(store)
      /\ store \in Store /\ store.mem = store.disk
  BY DEF Restart, Whole
<1>2. PICK b \in Ids : pc[b] = "new" /\ pc' = [AfterCrash(pc) EXCEPT ![b] = "entering"]
  BY DEF Restart
<1>3. \A x \in Ids : pc'[x] \in Enqueued <=> pc[x] \in Enqueued
  <2>1. /\ pc \in [Ids -> CallStates] /\ AfterCrash(pc) \in [Ids -> CallStates]
        /\ \A x \in Ids : AfterCrash(pc)[x] \in Enqueued <=> pc[x] \in Enqueued
    BY DEF IInv, TypeOK, AfterCrash, CallStates, Enqueued
  <2> QED
    BY <1>2, <2>1 DEF Enqueued
<1>4. /\ Whole(store')
      /\ \A x \in Ids :
           IF store.mem[x].status \in LiveStatuses
             THEN store'.mem[x].status = "failed" \/ store'.mem[x] = NoRecord
             ELSE store'.mem[x] \in {store.mem[x], NoRecord}
  BY <1>1, ReloadedFacts, ReloadedIsWhole
<1>5. \A x \in Ids : pc[x] \notin Enqueued => store.mem[x].status = "absent"
  BY DEF IInv, FreshHasNoRecord
<1> DEFINE F == {x \in Ids : pc[x] \in Enqueued /\ store'.mem[x].status = "absent"}
           st == [x \in Ids |-> IF ServiceStatus[x] \in {"queued", "running"}
                                  THEN "failed" ELSE ServiceStatus[x]]
<1>6. F \in SUBSET {x \in Ids : ServiceStatus[x] # "unborn"}
  BY <1>1 DEF ServiceStatus, Store, Record, Statuses, LiveStatuses, TerminalStatuses,
       SuccessStatuses
<1>7. \A x \in Ids : ServiceStatus'[x] = IF x \in F THEN "forgotten" ELSE st[x]
  BY <1>3, <1>4, <1>5 DEF ServiceStatus, LiveStatuses, NoRecord
<1>8. ServiceStatus' = Service!Forgetting(F, st)
  <2> HIDE DEF F, st
  <2> QED
    BY <1>7 DEF Service!Forgetting, ServiceStatus
<1>9. Service!Crash
  <2> HIDE DEF F
  <2> QED
    BY <1>1, <1>6, <1>8 DEF Service!Crash
<1> QED
  BY <1>4, <1>9

\* The service starts where the scheduler does.
LEMMA InitIsServiceInit == Init => RInv /\ Service!Init
<1> SUFFICES ASSUME Init PROVE RInv /\ Service!Init
  OBVIOUS
<1>1. store = EmptyStore /\ running = None /\ pending = None
      /\ \A r \in Ids : pc[r] \notin Enqueued
  BY DEF Init, Enqueued
<1>2. Whole(store)
  BY <1>1 DEF Whole, EmptyStore, Store, Record, NoRecord
<1>3. \A r \in Ids : store.mem[r].status = "absent"
  BY <1>1 DEF EmptyStore, NoRecord
<1>4. ServiceStatus = [r \in Ids |-> "unborn"]
  BY <1>1, <1>3 DEF ServiceStatus
<1> QED
  BY <1>1, <1>2, <1>4, InitInv DEF RInv, Service!Init

\* Every step of the scheduler is a step of the service or none at all, and
\* leaves the files in agreement with the memory.
LEMMA NextIsServiceNext ==
  ASSUME OnlyCreateFails, RInv, [Next]_vars
  PROVE  [Service!Next]_Service!vars /\ RInv'
<1> USE DEF RInv
<1>1. IInv'
  BY NextInv
<1>2. store' = store => Whole(store')
  OBVIOUS
<1>3. CASE \E r \in Ids : \/ Submit(r) \/ TimerFires(r) \/ ParkForIdle(r)
                          \/ CallWait(r) \/ WaitApply(r)
  BY <1>1, <1>2, <1>3, MovesAreStutters
<1>4. CASE \E r \in Ids : Enqueue(r)
  <2>1. PICK r \in Ids : Enqueue(r)
    BY <1>4
  <2>2. (Service!AcceptIdle(r) \/ Service!AcceptWaiting(r) \/ Service!Reject(r))
        /\ Whole(store')
    <3>1. CASE Refuse(r)
      BY <1>2, <3>1, RefuseIsReject
    <3>2. CASE EnqueueIdle(r)
      BY <3>2, EnqueueIdleIsAccept, CreatedIsWhole DEF EnqueueIdle
    <3>3. CASE ThreadFails(r)
      BY <3>3, ThreadFailsIsReject
    <3>4. CASE EnqueuePending(r)
      BY <3>4, EnqueuePendingIsAccept
    <3> QED
      BY <2>1, <3>1, <3>2, <3>3, <3>4 DEF Enqueue
  <2> QED
    BY <1>1, <2>2 DEF Service!Next
<1>5. CASE Worker
  <2>1. CASE WorkerSave \/ WorkerHostBegin \/ WorkerHostEnd \/ WorkerAppsBegin \/ WorkerAppsEnd
    BY <1>1, <1>2, <2>1, PhasesAreStutters
  <2>2. CASE WorkerStart
    BY <1>1, <2>2, StartIsBegin DEF Service!Next
  <2>3. CASE WorkerRecord
    BY <1>1, <2>3, RecordIsSettle DEF Service!Next
  <2>4. CASE WorkerPromote
    BY <1>1, <1>2, <2>4, PromoteIsAdvance DEF Service!Next
  <2> QED
    BY <1>5, <2>1, <2>2, <2>3, <2>4 DEF Worker
<1>6. CASE Restart
  BY <1>1, <1>6, RestartIsCrash DEF Service!Next
<1>7. CASE UNCHANGED vars
  <2>1. UNCHANGED <<running, pending, store, pc>>
    BY <1>7 DEF vars, slotVars, clientVars
  <2> QED
    BY <1>1, <1>2, <2>1, SameService
<1> QED
  BY <1>3, <1>4, <1>5, <1>6, <1>7 DEF Next, Client, Done

\* The scheduler implements the service: whatever its callers can see of it is a
\* behaviour of ApplyService, for any number of requests, states, crashes and
\* failing threads, as long as no write or unlink of an existing record fails.
THEOREM SchedulerImplementsService ==
  ASSUME OnlyCreateFails PROVE Spec => ImplementsService
<1>1. Init => RInv /\ Service!Init
  BY InitIsServiceInit
<1>2. RInv /\ [Next]_vars => [Service!Next]_Service!vars /\ RInv'
  BY NextIsServiceNext
<1> QED
  BY <1>1, <1>2, PTL DEF Spec, ImplementsService, Service!Spec
=============================================================================
