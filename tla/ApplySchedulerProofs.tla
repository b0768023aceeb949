------------------------ MODULE ApplySchedulerProofs ------------------------
(***************************************************************************)
(* Theorems about ApplyScheduler for every set of requests, every set of   *)
(* desired states, every history limit and any number of crashes.          *)
(*                                                                         *)
(* IInv (in ApplyScheduler) is inductive; the proof goes action by action, *)
(* grouped by what the action can disturb: callers that only move, the     *)
(* worker's phases, the two ways of taking a slot, records, restart.       *)
(***************************************************************************)
EXTENDS ApplyScheduler, FiniteSetTheorems, TLAPS

-----------------------------------------------------------------------------
(* What the operations of the store do to a record, whatever the writes    *)
(* and unlinks that fail.                                                  *)

\* Storing records keeps the store well-typed, leaves every other record alone
\* or prunes it, prunes terminal records only, and never loses a live one.
LEMMA StoredFacts ==
  ASSUME NEW s \in Store, NEW U \in SUBSET Ids, NEW upd \in [U -> Record],
         NEW ticks \in Nat, NEW t \in Stored(s, upd, ticks)
  PROVE  /\ t \in Store
         /\ \A r \in Ids \ U :
              /\ t.mem[r] = s.mem[r]
                   \/ (s.mem[r].status \in TerminalStatuses /\ t.mem[r] = NoRecord)
              /\ t.disk[r] \in {s.disk[r], NoRecord}
         /\ \A r \in U :
              /\ t.mem[r] = upd[r]
                   \/ (upd[r].status \in TerminalStatuses /\ t.mem[r] = NoRecord)
              /\ t.disk[r] \in {s.disk[r], upd[r], NoRecord}
<1> DEFINE mem == Overwrite(s.mem, upd)
           old == IF \E r \in DOMAIN upd : upd[r].status \in TerminalStatuses
                    THEN Expired(mem) ELSE {}
<1>1. PICK w \in Written(DOMAIN upd), left \in LeftBehind(old) :
        t = [mem |-> Drop(mem, old),
             disk |-> Drop(Overwrite(s.disk, OnlyOn(w, upd)), old \ left),
             clock |-> s.clock + ticks]
  BY DEF Stored
<1>2. /\ s.mem \in [Ids -> Record] /\ s.disk \in [Ids -> Record] /\ s.clock \in Nat
      /\ DOMAIN upd = U /\ NoRecord \in Record
  BY DEF Store, Record, NoRecord
<1>3. mem \in [Ids -> Record] /\ \A r \in Ids : mem[r] = IF r \in U THEN upd[r] ELSE s.mem[r]
  BY <1>2 DEF Overwrite
<1>4. \A r \in old : r \in Ids /\ mem[r].status \in TerminalStatuses
  BY DEF Expired, Terminal
<1>5. t.mem = Drop(mem, old) /\ t.clock = s.clock + ticks
      /\ t.disk = Drop(Overwrite(s.disk, OnlyOn(w, upd)), old \ left)
  BY <1>1
<1> DEFINE dsk == Overwrite(s.disk, OnlyOn(w, upd))
<1>6. dsk \in [Ids -> Record]
      /\ \A r \in Ids : dsk[r] = IF r \in U \cap w THEN upd[r] ELSE s.disk[r]
  BY <1>2 DEF Overwrite, OnlyOn
<1> HIDE DEF mem, old, dsk
<1>7. t.mem \in [Ids -> Record]
      /\ \A r \in Ids : t.mem[r] = IF r \in old THEN NoRecord ELSE mem[r]
  BY <1>2, <1>3, <1>5 DEF Drop
<1>8. t.disk \in [Ids -> Record]
      /\ \A r \in Ids : t.disk[r] \in {dsk[r], NoRecord}
  <2>1. t.disk = Drop(dsk, old \ left)
    BY <1>5 DEF dsk
  <2> QED BY <1>2, <1>6, <2>1 DEF Drop
<1>9. t \in Store
  <2>1. t = [mem |-> t.mem, disk |-> t.disk, clock |-> t.clock]
    BY <1>1, <1>5
  <2>2. s.clock + ticks \in Nat
    BY <1>2
  <2> DEFINE tm == t.mem
             td == t.disk
             tc == t.clock
  <2>3. tm \in [Ids -> Record] /\ td \in [Ids -> Record] /\ tc \in Nat
    BY <1>5, <1>7, <1>8, <2>2
  <2>4. t = [mem |-> tm, disk |-> td, clock |-> tc]
    BY <2>1
  <2> HIDE DEF tm, td, tc
  <2>5. [mem |-> tm, disk |-> td, clock |-> tc] \in Store
    BY <2>3 DEF Store
  <2> QED BY <2>4, <2>5
<1> QED BY <1>3, <1>4, <1>6, <1>7, <1>8, <1>9

\* The same for one record, as update() writes it.
LEMMA UpdateFacts ==
  ASSUME NEW s \in Store, NEW r \in Ids, s.mem[r].status # "absent",
         NEW v \in Statuses, NEW a \in BOOLEAN, NEW t \in Update(s, r, v, a)
  PROVE  /\ t \in Store
         /\ \A x \in Ids \ {r} :
              /\ t.mem[x] = s.mem[x]
                   \/ (s.mem[x].status \in TerminalStatuses /\ t.mem[x] = NoRecord)
              /\ t.disk[x] \in {s.disk[x], NoRecord}
         /\ t.mem[r].status = v
              \/ (v \in TerminalStatuses /\ t.mem[r] = NoRecord)
         /\ \/ t.disk[r] \in {s.disk[r], NoRecord}
            \/ t.disk[r].status = v
<1> DEFINE rec == [status |-> v, applied |-> a, at |-> s.clock + 1]
           upd == [x \in {r} |-> rec]
<1>1. rec \in Record
  BY DEF Record, Store
<1>2. upd \in [{r} -> Record] /\ upd[r] = rec /\ {r} \in SUBSET Ids
  BY <1>1
<1>3. t \in Stored(s, upd, 1)
  BY DEF Update
<1>4. rec.status = v
  OBVIOUS
<1> HIDE DEF upd, rec
<1> QED BY <1>2, <1>3, <1>4, StoredFacts

\* create() adds one queued record.
LEMMA CreatedFacts ==
  ASSUME NEW s \in Store, NEW r \in Ids
  PROVE  LET t == Created(s, r)
         IN  /\ t \in Store
             /\ \A x \in Ids \ {r} : t.mem[x] = s.mem[x] /\ t.disk[x] = s.disk[x]
             /\ t.mem[r].status = "queued" /\ t.disk[r].status = "queued"
BY DEF Created, Store, Record, Statuses, LiveStatuses, TerminalStatuses

\* After a restart every record is terminal, and a record that was already
\* terminal on disk is that record, or pruned.
LEMMA ReloadedFacts ==
  ASSUME NEW s \in Store, NEW t \in Reloaded(s)
  PROVE  /\ t \in Store
         /\ Live(t.mem) = {}
         /\ \A r \in Ids :
              IF s.disk[r].status \in LiveStatuses
                THEN t.mem[r].status = "failed" \/ t.mem[r] = NoRecord
                ELSE t.mem[r] \in {s.disk[r], NoRecord}
         /\ \A r \in Ids : \/ t.disk[r] \in {s.disk[r], NoRecord}
                           \/ /\ s.disk[r].status \in LiveStatuses
                              /\ t.disk[r].status = "failed"
<1> DEFINE live == Live(s.disk)
           loaded == [s EXCEPT !.mem = s.disk]
           upd(f) == [r \in live |-> [status |-> "failed",
                                      applied |-> s.disk[r].applied,
                                      at |-> s.clock + f[r]]]
<1>1. PICK f \in Orders(live) : t \in Stored(loaded, upd(f), Cardinality(live))
  BY DEF Reloaded
<1>2. live \in SUBSET Ids /\ IsFiniteSet(live)
  BY IdsAssumption, FS_Subset DEF Live
<1>3. Cardinality(live) \in Nat
  BY <1>2, FS_CardinalityType
<1>4. loaded \in Store /\ loaded.mem = s.disk /\ loaded.disk = s.disk
  BY DEF Store
<1>5. \A r \in live : f[r] \in Nat
  BY <1>3 DEF Orders
<1>6. upd(f) \in [live -> Record] /\ \A r \in live : upd(f)[r].status = "failed"
  BY <1>2, <1>5 DEF Record, Store, Statuses, TerminalStatuses
<1>7. \A r \in Ids : r \in live <=> s.disk[r].status \in LiveStatuses
  BY DEF Live
<1> HIDE DEF live, loaded, upd
<1>8. /\ t \in Store
      /\ \A r \in Ids \ live :
           t.mem[r] \in {s.disk[r], NoRecord} /\ t.disk[r] \in {s.disk[r], NoRecord}
      /\ \A r \in live :
           /\ t.mem[r].status = "failed" \/ t.mem[r] = NoRecord
           /\ t.disk[r] \in {s.disk[r], NoRecord} \/ t.disk[r].status = "failed"
  BY <1>1, <1>2, <1>3, <1>4, <1>6, StoredFacts
<1>9. "failed" \notin LiveStatuses /\ NoRecord.status \notin LiveStatuses
  BY DEF LiveStatuses, NoRecord
<1>10. \A r \in Ids : t.mem[r].status \notin LiveStatuses
  BY <1>2, <1>7, <1>8, <1>9
<1> QED BY <1>7, <1>8, <1>10 DEF Live

-----------------------------------------------------------------------------
(* The scheduler.                                                          *)

Busy == {"save", "host", "hosting", "apps", "up", "record"}

\* The initial states satisfy the invariant: no record, no slot, one boot thread.
LEMMA InitInv == Init => IInv
<1> SUFFICES ASSUME Init PROVE IInv
  OBVIOUS
<1>1. PICK b \in Ids :
        /\ job = [r \in Ids |-> IF r = b THEN ReconcileJob ELSE NoJob]
        /\ pc = [r \in Ids |-> IF r = b THEN "entering" ELSE "new"]
  BY DEF Init
<1>2. /\ store \in Store
      /\ \A r \in Ids : /\ store.mem[r].status = "absent"
                        /\ store.disk[r].status = "absent"
  BY DEF Init, EmptyStore, Store, Record, NoRecord
<1>3. TypeOK
  <2>1. job \in [Ids -> Jobs]
    BY <1>1 DEF Jobs
  <2>2. pc \in [Ids -> CallStates]
    BY <1>1 DEF CallStates
  <2>3. accepted \in Seq(Ids) /\ worker \in WorkerStates /\ restarts \in Nat
    BY DEF Init, WorkerStates
  <2>4. /\ answer \in [Ids -> TerminalStatuses \cup {"none", "absent"}]
        /\ saved \in Payloads \cup {NoState} /\ timer \in BOOLEAN
    BY DEF Init
  <2> QED BY <1>2, <2>1, <2>2, <2>3, <2>4 DEF Init, TypeOK
<1>4. Live(store.mem) = {}
  BY <1>2 DEF Live, LiveStatuses
<1>5. LiveRecordsHaveAJob
  BY <1>4 DEF Init, LiveRecordsHaveAJob, Owned
<1>6. SlotsAgree /\ NoLostWakeup /\ LatestWins
  BY <1>1 DEF Init, SlotsAgree, NoLostWakeup, LatestWins
<1>7. RetriesAreNotDropped /\ FreshHasNoRecord /\ SlotsHaveRecords /\ FilesAgree
  BY <1>1, <1>2, NoneAssumption
     DEF Init, RetriesAreNotDropped, FreshHasNoRecord, SlotsHaveRecords,
         FilesAgree, ReconcileJob, NoJob
<1> QED BY <1>3, <1>5, <1>6, <1>7 DEF IInv

\* The threads that only move: a call, parking, refusal, WaitApply.
LEMMA CallStep ==
  ASSUME IInv, NEW r \in Ids, NEW j \in Jobs, Call(r, j),
         UNCHANGED <<slotVars, store, answer, accepted, restarts>>,
         saved' \in Payloads \cup {NoState}, targets' \in Payloads \cup {NoState},
         UNCHANGED <<host, apps>>, timer' \in BOOLEAN
  PROVE  IInv'
<1> USE DEF IInv
<1>1. TypeOK'
  BY DEF TypeOK, Call, CallStates, slotVars
<1>2. /\ pc[r] = "new" /\ pc' = [pc EXCEPT ![r] = "entering"]
      /\ job' = [job EXCEPT ![r] = j]
      /\ pc \in [Ids -> CallStates] /\ job \in [Ids -> Jobs]
      /\ store' = store /\ running' = running /\ pending' = pending
      /\ worker' = worker /\ verdict' = verdict /\ accepted' = accepted
  BY DEF Call, TypeOK, slotVars
<1>3. SlotsAgree' /\ LiveRecordsHaveAJob' /\ LatestWins' /\ NoLostWakeup'
  BY <1>2 DEF SlotsAgree, LiveRecordsHaveAJob, Owned, LatestWins, Newest, NoLostWakeup
<1>4. /\ store.mem[r].status = "absent" /\ store.disk[r].status = "absent"
      /\ pending # r
  BY <1>2, NoneAssumption DEF FreshHasNoRecord, Enqueued, SlotsHaveRecords
<1>5. RetriesAreNotDropped' /\ FilesAgree'
  BY <1>2, <1>4 DEF RetriesAreNotDropped, FilesAgree, Newest
<1>6. FreshHasNoRecord' /\ SlotsHaveRecords'
  BY <1>2, <1>4 DEF FreshHasNoRecord, SlotsHaveRecords, Enqueued
<1> QED BY <1>1, <1>3, <1>5, <1>6

\* A request never holds a slot before it is enqueued.
LEMMA EnteringIsFresh ==
  ASSUME IInv, NEW r \in Ids, pc[r] \notin Enqueued
  PROVE  /\ store.mem[r].status = "absent" /\ store.disk[r].status = "absent"
         /\ r # running /\ r # pending
BY NoneAssumption DEF IInv, FreshHasNoRecord, SlotsHaveRecords

\* Parking for an idle scheduler happens only while something runs.
LEMMA ParkForIdleStep ==
  ASSUME IInv, NEW r \in Ids, ParkForIdle(r) PROVE IInv'
<1> USE DEF IInv
<1>1. /\ pc[r] = "entering" /\ pc' = [pc EXCEPT ![r] = "idle_parked"]
      /\ pc \in [Ids -> CallStates] /\ job' = job /\ store' = store
      /\ running' = running /\ pending' = pending /\ worker' = worker
      /\ verdict' = verdict /\ accepted' = accepted /\ running # None
  BY DEF ParkForIdle, TypeOK, slotVars, SlotsAgree
<1>2. TypeOK'
  BY <1>1 DEF ParkForIdle, TypeOK, CallStates, slotVars, deviceVars
<1>3. SlotsAgree' /\ LiveRecordsHaveAJob' /\ LatestWins' /\ NoLostWakeup'
  BY <1>1 DEF SlotsAgree, LiveRecordsHaveAJob, Owned, LatestWins, Newest, NoLostWakeup
<1>4. RetriesAreNotDropped' /\ FilesAgree'
  BY <1>1 DEF RetriesAreNotDropped, FilesAgree, Newest
<1>5. r # running /\ r # pending
  BY <1>1, EnteringIsFresh DEF Enqueued
<1>6. FreshHasNoRecord' /\ SlotsHaveRecords'
  BY <1>1, <1>5 DEF FreshHasNoRecord, SlotsHaveRecords, Enqueued
<1> QED BY <1>2, <1>3, <1>4, <1>6

\* A refused request leaves the records and slots alone.
LEMMA RefuseStep ==
  ASSUME IInv, NEW r \in Ids, Refuse(r) PROVE IInv'
<1> USE DEF IInv
<1>1. /\ pc[r] = "entering" /\ pc' = [pc EXCEPT ![r] = "refused"]
      /\ pc \in [Ids -> CallStates] /\ job' = job /\ store' = store
      /\ running' = running /\ pending' = pending /\ worker' = worker
      /\ verdict' = verdict /\ accepted' = accepted
  BY DEF Refuse, MayEnqueue, TypeOK, slotVars
<1>2. TypeOK'
  BY <1>1 DEF Refuse, TypeOK, CallStates, slotVars, deviceVars
<1>3. SlotsAgree' /\ LiveRecordsHaveAJob' /\ LatestWins' /\ NoLostWakeup'
  BY <1>1 DEF SlotsAgree, LiveRecordsHaveAJob, Owned, LatestWins, Newest, NoLostWakeup
<1>4. RetriesAreNotDropped' /\ FilesAgree'
  BY <1>1 DEF RetriesAreNotDropped, FilesAgree, Newest
<1>5. r # running /\ r # pending
  BY <1>1, EnteringIsFresh DEF Enqueued
<1>6. FreshHasNoRecord' /\ SlotsHaveRecords'
  BY <1>1, <1>5 DEF FreshHasNoRecord, SlotsHaveRecords, Enqueued
<1> QED BY <1>2, <1>3, <1>4, <1>6

\* WaitApply parks on live records only, and changes no record.
LEMMA WaitStep ==
  ASSUME IInv, NEW r \in Ids, CallWait(r) \/ WaitApply(r) PROVE IInv'
<1> USE DEF IInv
<1> DEFINE next == pc'[r]
<1>1. /\ pc[r] \in {"accepted", "waiting"}
      /\ next \in {"waiting", "parked", "returned"}
      /\ pc' = [pc EXCEPT ![r] = next]
      /\ next = "parked" => r \in Live(store.mem)
      /\ pc \in [Ids -> CallStates] /\ job' = job /\ store' = store
      /\ running' = running /\ pending' = pending /\ worker' = worker
      /\ verdict' = verdict /\ accepted' = accepted
  <2>1. CASE CallWait(r)
    BY <2>1 DEF CallWait, TypeOK, slotVars
  <2>2. CASE WaitApply(r)
    BY <2>2 DEF WaitApply, TypeOK, slotVars, Live
  <2> QED BY <2>1, <2>2
<1>2. answer' \in [Ids -> TerminalStatuses \cup {"none", "absent"}]
  <2>1. store.mem[r].status \notin LiveStatuses =>
          store.mem[r].status \in TerminalStatuses \cup {"absent"}
    BY DEF TypeOK, Store, Record, Statuses
  <2> QED BY <2>1 DEF CallWait, WaitApply, TypeOK
<1>3. TypeOK'
  BY <1>1, <1>2 DEF CallWait, WaitApply, TypeOK, CallStates, slotVars, deviceVars
<1> HIDE DEF next
<1>4. SlotsAgree' /\ LiveRecordsHaveAJob' /\ LatestWins' /\ NoLostWakeup'
  BY <1>1 DEF SlotsAgree, LiveRecordsHaveAJob, Owned, LatestWins, Newest, NoLostWakeup
<1>5. RetriesAreNotDropped' /\ FilesAgree'
  BY <1>1 DEF RetriesAreNotDropped, FilesAgree, Newest
<1>6. FreshHasNoRecord' /\ SlotsHaveRecords'
  BY <1>1 DEF FreshHasNoRecord, SlotsHaveRecords, Enqueued
<1> QED BY <1>3, <1>4, <1>5, <1>6

\* notify_all() wakes every parked thread and changes no request's fate.
LEMMA WokenFacts ==
  ASSUME NEW p \in [Ids -> CallStates]
  PROVE  /\ Woken(p) \in [Ids -> CallStates]
         /\ \A x \in Ids :
              /\ Woken(p)[x] \notin {"parked", "idle_parked"}
              /\ Woken(p)[x] \in Enqueued <=> p[x] \in Enqueued
              /\ Woken(p)[x] = "refused" <=> p[x] = "refused"
BY DEF Woken, CallStates, Enqueued

\* What the steps that notify have in common.
LEMMA NotifiedSlots ==
  ASSUME IInv, NEW p \in [Ids -> CallStates], pc' = Woken(p)
  PROVE  NoLostWakeup' /\ pc' \in [Ids -> CallStates]
BY WokenFacts DEF NoLostWakeup

\* Taking the running slot of an idle scheduler.
LEMMA EnqueueIdleStep ==
  ASSUME IInv, NEW r \in Ids, EnqueueIdle(r) PROVE IInv'
<1> USE DEF IInv
<1> DEFINE p == [pc EXCEPT ![r] = "accepted"]
<1>1. /\ pc[r] = "entering" /\ running = None /\ pending = None
      /\ running' = r /\ pending' = None /\ worker' = "start"
      /\ verdict' = verdict /\ verdict = "none"
      /\ job' = job /\ accepted' = Append(accepted, r)
      /\ store' = Created(store, r) /\ pc' = Woken(p)
  BY DEF EnqueueIdle, MayEnqueue, SlotsAgree
<1>2. /\ p \in [Ids -> CallStates] /\ p[r] = "accepted"
      /\ \A x \in Ids \ {r} : p[x] = pc[x]
      /\ store \in Store
  BY DEF TypeOK, CallStates
<1> HIDE DEF p
<1>3. /\ store' \in Store
      /\ \A x \in Ids \ {r} : /\ store'.mem[x] = store.mem[x]
                              /\ store'.disk[x] = store.disk[x]
      /\ store'.mem[r].status = "queued" /\ store'.disk[r].status = "queued"
  BY <1>1, <1>2, CreatedFacts
<1>4. NoLostWakeup' /\ pc' \in [Ids -> CallStates]
  BY <1>1, <1>2, NotifiedSlots
<1>5. accepted' \in Seq(Ids) /\ accepted' # <<>> /\ Newest' = r
  BY <1>1 DEF Newest, TypeOK
<1>6. TypeOK'
  BY <1>1, <1>3, <1>4, <1>5
     DEF EnqueueIdle, TypeOK, WorkerStates, slotVars, deviceVars
<1>7. SlotsAgree'
  BY <1>1, NoneAssumption DEF SlotsAgree
<1>8. LiveRecordsHaveAJob'
  <2>1. Live(store.mem) = {}
    BY <1>1 DEF LiveRecordsHaveAJob, Owned
  <2>2. Live(store'.mem) = {r}
    BY <1>3, <2>1 DEF Live, LiveStatuses
  <2> QED BY <1>1, <2>2, NoneAssumption DEF LiveRecordsHaveAJob, Owned
<1>9. LatestWins'
  BY <1>1, <1>3, <1>5 DEF LatestWins
<1>10. RetriesAreNotDropped' /\ FilesAgree'
  BY <1>1, <1>3, <1>5, NoneAssumption DEF RetriesAreNotDropped, FilesAgree
<1>11. FreshHasNoRecord' /\ SlotsHaveRecords'
  BY <1>1, <1>2, <1>3, WokenFacts, NoneAssumption
     DEF FreshHasNoRecord, SlotsHaveRecords, Enqueued
<1> QED BY <1>4, <1>6, <1>7, <1>8, <1>9, <1>10, <1>11

\* A thread that does not start leaves its own record failed.
LEMMA FailedThreadFacts ==
  ASSUME IInv, NEW r \in Ids, ThreadFails(r)
  PROVE  /\ store' \in Store
         /\ \A x \in Ids \ {r} :
              /\ store'.mem[x] = store.mem[x]
                   \/ (store.mem[x].status \in TerminalStatuses /\ store'.mem[x] = NoRecord)
              /\ store'.disk[x] \in {store.disk[x], NoRecord}
         /\ store'.mem[r].status = "failed" \/ store'.mem[r] = NoRecord
         /\ store'.disk[r].status \in {"queued", "failed", "absent"}
<1> DEFINE c == Created(store, r)
<1>1. store \in Store /\ store' \in Update(c, r, "failed", FALSE)
  BY DEF ThreadFails, IInv, TypeOK
<1>2. /\ c \in Store
      /\ \A x \in Ids \ {r} : c.mem[x] = store.mem[x] /\ c.disk[x] = store.disk[x]
      /\ c.mem[r].status = "queued" /\ c.disk[r].status = "queued"
  BY <1>1, CreatedFacts
<1> HIDE DEF c
<1>3. c.mem[r].status # "absent" /\ "failed" \in Statuses
  BY <1>2 DEF Statuses, TerminalStatuses
<1>4. /\ store' \in Store
      /\ \A x \in Ids \ {r} :
           /\ store'.mem[x] = c.mem[x]
                \/ (c.mem[x].status \in TerminalStatuses /\ store'.mem[x] = NoRecord)
           /\ store'.disk[x] \in {c.disk[x], NoRecord}
      /\ store'.mem[r].status = "failed" \/ store'.mem[r] = NoRecord
      /\ \/ store'.disk[r] \in {c.disk[r], NoRecord}
         \/ store'.disk[r].status = "failed"
  BY <1>1, <1>2, <1>3, UpdateFacts
<1> QED BY <1>2, <1>4 DEF NoRecord

\* ThreadFails frees nothing and takes nothing: IInv is preserved.
LEMMA ThreadFailsStep ==
  ASSUME IInv, NEW r \in Ids, ThreadFails(r) PROVE IInv'
<1> USE DEF IInv
<1> DEFINE p == [pc EXCEPT ![r] = "refused"]
<1>1. /\ pc[r] = "entering" /\ running = None /\ pending = None
      /\ running' = None /\ pending' = None /\ worker' = worker
      /\ verdict' = verdict /\ worker = "idle"
      /\ job' = job /\ accepted' = accepted /\ pc' = Woken(p)
  BY DEF ThreadFails, MayEnqueue, SlotsAgree, slotVars
<1>2. /\ p \in [Ids -> CallStates] /\ p[r] = "refused"
      /\ \A x \in Ids \ {r} : p[x] = pc[x]
      /\ store \in Store
  BY DEF TypeOK, CallStates
<1> HIDE DEF p
<1>4. /\ store' \in Store
      /\ \A x \in Ids \ {r} :
           /\ store'.mem[x] = store.mem[x]
                \/ (store.mem[x].status \in TerminalStatuses /\ store'.mem[x] = NoRecord)
           /\ store'.disk[x] \in {store.disk[x], NoRecord}
      /\ store'.mem[r].status = "failed" \/ store'.mem[r] = NoRecord
      /\ store'.disk[r].status \in {"queued", "failed", "absent"}
  BY FailedThreadFacts
<1>5. NoRecord.status = "absent" /\ "failed" \notin LiveStatuses
  BY DEF NoRecord, LiveStatuses
<1>6. NoLostWakeup' /\ pc' \in [Ids -> CallStates]
  BY <1>1, <1>2, NotifiedSlots
<1>7. TypeOK'
  BY <1>1, <1>4, <1>6 DEF ThreadFails, TypeOK, slotVars, deviceVars
<1>8. SlotsAgree'
  BY <1>1 DEF SlotsAgree
<1>9. LiveRecordsHaveAJob'
  <2>1. Live(store.mem) = {}
    BY <1>1 DEF LiveRecordsHaveAJob, Owned
  <2>2. Live(store'.mem) = {}
    BY <1>4, <1>5, <2>1 DEF Live, LiveStatuses, NoRecord
  <2> QED BY <1>1, <2>2 DEF LiveRecordsHaveAJob, Owned
<1>10. LatestWins'
  BY <1>1, <1>4, <1>5 DEF LatestWins, Newest, TypeOK
<1>11. RetriesAreNotDropped' /\ FilesAgree'
  BY <1>1, <1>4, <1>5, NoneAssumption DEF RetriesAreNotDropped, FilesAgree, Newest, TypeOK
<1>12. FreshHasNoRecord' /\ SlotsHaveRecords'
  BY <1>1, <1>2, <1>4, <1>5, WokenFacts, NoneAssumption
     DEF FreshHasNoRecord, SlotsHaveRecords, Enqueued
<1> QED BY <1>6, <1>7, <1>8, <1>9, <1>10, <1>11, <1>12

\* Taking the pending slot: r is queued, the previous occupant (if any) is
\* superseded, and the other records are left alone or pruned.
LEMMA SupersedingFacts ==
  ASSUME IInv, NEW r \in Ids, EnqueuePending(r)
  PROVE  /\ store' \in Store
         /\ \A x \in Ids \ {r, pending} :
              /\ store'.mem[x] = store.mem[x]
                   \/ (store.mem[x].status \in TerminalStatuses /\ store'.mem[x] = NoRecord)
              /\ store'.disk[x] \in {store.disk[x], NoRecord}
         /\ store'.mem[r].status = "queued"
         /\ store'.disk[r].status \in {"queued", "absent"}
         /\ pending # None =>
              store'.mem[pending].status \in {"superseded", "absent"}
<1> DEFINE c == Created(store, r)
<1> USE DEF IInv
<1>1. /\ pc[r] = "entering" /\ store \in Store /\ store' \in Superseding(c)
      /\ pending \in Ids \cup {None} /\ r # pending
      /\ pending # None => store.mem[pending].status = "queued"
  BY EnteringIsFresh
     DEF EnqueuePending, MayEnqueue, TypeOK, Enqueued, SlotsHaveRecords
<1>2. /\ c \in Store
      /\ \A x \in Ids \ {r} : c.mem[x] = store.mem[x] /\ c.disk[x] = store.disk[x]
      /\ c.mem[r].status = "queued" /\ c.disk[r].status = "queued"
  BY <1>1, CreatedFacts
<1> HIDE DEF c
<1>3. CASE pending = None
  BY <1>1, <1>2, <1>3 DEF Superseding
<1>4. CASE pending # None
  <2>1. /\ store' \in Update(c, pending, "superseded", FALSE)
        /\ c.mem[pending].status # "absent" /\ pending \in Ids
        /\ "superseded" \in Statuses
    BY <1>1, <1>2, <1>4 DEF Superseding, Statuses, TerminalStatuses
  <2>2. /\ store' \in Store
        /\ \A x \in Ids \ {pending} :
             /\ store'.mem[x] = c.mem[x]
                  \/ (c.mem[x].status \in TerminalStatuses /\ store'.mem[x] = NoRecord)
             /\ store'.disk[x] \in {c.disk[x], NoRecord}
        /\ store'.mem[pending].status = "superseded" \/ store'.mem[pending] = NoRecord
    BY <1>2, <2>1, UpdateFacts
  <2>3. "queued" \notin TerminalStatuses
    BY DEF TerminalStatuses, SuccessStatuses
  <2> QED BY <1>1, <1>2, <1>4, <2>2, <2>3 DEF NoRecord
<1> QED BY <1>3, <1>4

\* Taking the pending slot: the new occupant is the newest request and the old
\* one is settled in the same step.
LEMMA EnqueuePendingStep ==
  ASSUME IInv, NEW r \in Ids, EnqueuePending(r) PROVE IInv'
<1> USE DEF IInv
<1> DEFINE p == [pc EXCEPT ![r] = "accepted"]
<1>1. /\ pc[r] = "entering" /\ running # None /\ ~job[r].idle
      /\ running' = running /\ pending' = r /\ worker' = worker
      /\ verdict' = verdict /\ r # running /\ r # pending
      /\ job' = job /\ accepted' = Append(accepted, r) /\ pc' = Woken(p)
  BY EnteringIsFresh DEF EnqueuePending, MayEnqueue, Enqueued
<1>2. /\ p \in [Ids -> CallStates] /\ p[r] = "accepted"
      /\ \A x \in Ids \ {r} : p[x] = pc[x]
      /\ running \in Ids /\ pending \in Ids \cup {None}
  BY <1>1 DEF TypeOK, CallStates
<1> HIDE DEF p
<1>3. /\ store' \in Store
      /\ \A x \in Ids \ {r, pending} :
           /\ store'.mem[x] = store.mem[x]
                \/ (store.mem[x].status \in TerminalStatuses /\ store'.mem[x] = NoRecord)
           /\ store'.disk[x] \in {store.disk[x], NoRecord}
      /\ store'.mem[r].status = "queued"
      /\ store'.disk[r].status \in {"queued", "absent"}
      /\ pending # None => store'.mem[pending].status \in {"superseded", "absent"}
  BY SupersedingFacts
<1>4. NoLostWakeup' /\ pc' \in [Ids -> CallStates]
  BY <1>1, <1>2, NotifiedSlots
<1>5. accepted' \in Seq(Ids) /\ accepted' # <<>> /\ Newest' = r
  BY <1>1 DEF Newest, TypeOK
<1>6. TypeOK'
  BY <1>1, <1>3, <1>4, <1>5 DEF EnqueuePending, TypeOK, slotVars, deviceVars
<1>7. SlotsAgree'
  BY <1>1, NoneAssumption DEF SlotsAgree
<1>8. LiveRecordsHaveAJob'
  <2>1. Live(store.mem) = Owned
    BY DEF LiveRecordsHaveAJob
  <2>2. Live(store'.mem) = (Live(store.mem) \ {pending}) \cup {r}
    <3>1. \A x \in Ids \ {r, pending} :
            x \in Live(store'.mem) <=> x \in Live(store.mem)
      BY <1>3 DEF Live, LiveStatuses, TerminalStatuses, SuccessStatuses, NoRecord
    <3>2. r \in Live(store'.mem)
      BY <1>3 DEF Live, LiveStatuses
    <3>3. pending # None => pending \notin Live(store'.mem)
      BY <1>3 DEF Live, LiveStatuses
    <3>4. None \notin Live(store'.mem) /\ None \notin Live(store.mem)
      BY NoneAssumption DEF Live
    <3> QED BY <1>1, <1>2, <3>1, <3>2, <3>3, <3>4 DEF Live
  <2>3. Owned' = (Owned \ {pending}) \cup {r}
    BY <1>1, <1>2, NoneAssumption DEF Owned, SlotsAgree
  <2> QED BY <2>1, <2>2, <2>3 DEF LiveRecordsHaveAJob
<1>9. LatestWins'
  BY <1>1, <1>3, <1>5 DEF LatestWins
<1>10. \A x \in Ids : job[x].idle => x # pending /\ x # r
  BY <1>1 DEF RetriesAreNotDropped
<1>11. RetriesAreNotDropped' /\ FilesAgree'
  BY <1>1, <1>3, <1>5, <1>10 DEF RetriesAreNotDropped, FilesAgree, NoRecord
<1>12. SlotsHaveRecords'
  <2>1. worker \notin {"idle", "promote"} =>
          store'.mem[running] = store.mem[running]
    BY <1>1, <1>2, <1>3
       DEF SlotsHaveRecords, SlotsAgree, TerminalStatuses, SuccessStatuses
  <2>2. \A x \in {running, r} : pc'[x] \in Enqueued \ {"refused"}
    BY <1>1, <1>2, WokenFacts DEF SlotsHaveRecords, Enqueued
  <2> QED BY <1>1, <1>2, <1>3, <2>1, <2>2, NoneAssumption DEF SlotsHaveRecords
<1>13. FreshHasNoRecord'
  <2> SUFFICES ASSUME NEW x \in Ids, pc'[x] \notin Enqueued
               PROVE store'.mem[x].status = "absent" /\ store'.disk[x].status = "absent"
    BY DEF FreshHasNoRecord
  <2>1. pc[x] \notin Enqueued /\ x # r
    BY <1>1, <1>2, WokenFacts DEF Enqueued
  <2>2. x # pending
    BY <2>1, EnteringIsFresh
  <2> QED BY <1>3, <2>1, <2>2 DEF FreshHasNoRecord, NoRecord
<1> QED BY <1>4, <1>6, <1>7, <1>8, <1>9, <1>11, <1>12, <1>13

\* The worker's phases between the two records: no record, slot or caller moves.
LEMMA PhaseStep ==
  ASSUME IInv, worker \in Busy \ {"record"}, worker' \in Busy,
         UNCHANGED <<running, pending, store, clientVars, restarts>>,
         verdict' \in (TerminalStatuses \ {"superseded"}) \cup {"none"},
         worker' = "record" <=> verdict' # "none",
         saved' \in Payloads \cup {NoState}, UNCHANGED targets,
         host' \in Payloads \cup {NoState, Mixed},
         apps' \in Payloads \cup {NoState, Mixed}, timer' \in BOOLEAN
  PROVE  IInv'
<1> USE DEF IInv
<1>1. /\ running' = running /\ pending' = pending /\ store' = store
      /\ job' = job /\ pc' = pc /\ accepted' = accepted /\ answer' = answer
      /\ worker \notin {"idle", "start", "promote"}
      /\ worker' \notin {"idle", "start", "promote"}
      /\ worker' \in WorkerStates
  BY DEF clientVars, Busy, WorkerStates
<1>2. TypeOK'
  BY <1>1 DEF TypeOK
<1>3. SlotsAgree' /\ LiveRecordsHaveAJob' /\ LatestWins' /\ NoLostWakeup'
  BY <1>1 DEF SlotsAgree, LiveRecordsHaveAJob, Owned, LatestWins, Newest, NoLostWakeup
<1>4. RetriesAreNotDropped' /\ FilesAgree' /\ FreshHasNoRecord' /\ SlotsHaveRecords'
  BY <1>1 DEF RetriesAreNotDropped, FilesAgree, Newest, FreshHasNoRecord, SlotsHaveRecords
<1> QED BY <1>2, <1>3, <1>4

\* Each phase of an apply between its two records is a PhaseStep.
LEMMA WorkerPhases ==
  ASSUME IInv,
         WorkerSave \/ WorkerHostBegin \/ WorkerHostEnd \/ WorkerAppsBegin \/ WorkerAppsEnd
  PROVE  IInv'
<1> USE DEF WorkerAt, Conclude, GoOn, deviceVars, Busy
<1>1. /\ job \in [Ids -> Jobs] /\ saved \in Payloads \cup {NoState}
      /\ host \in Payloads \cup {NoState, Mixed}
      /\ apps \in Payloads \cup {NoState, Mixed} /\ timer \in BOOLEAN
      /\ verdict \in (TerminalStatuses \ {"superseded"}) \cup {"none"}
      /\ verdict # "none" <=> worker = "record"
  BY DEF IInv, TypeOK, SlotsAgree
<1>2. {"failed"} \cup SuccessStatuses \subseteq TerminalStatuses \ {"superseded", "none"}
  BY DEF TerminalStatuses, SuccessStatuses
<1>3. CASE WorkerSave
  <2>1. worker = "save" /\ running \in Ids
    BY <1>3 DEF WorkerSave, IInv, SlotsAgree, TypeOK
  <2>2. job[running].state \in Payloads \cup {NoState}
    BY <1>1, <2>1 DEF Jobs, NoJob, ReconcileJob, RetryJob, ApplyJob
  <2> QED BY <1>1, <1>2, <1>3, <2>1, <2>2, PhaseStep DEF WorkerSave
<1>4. CASE WorkerHostBegin
  BY <1>1, <1>2, <1>4, PhaseStep DEF WorkerHostBegin, SuccessStatuses
<1>5. CASE WorkerHostEnd
  BY <1>1, <1>2, <1>5, PhaseStep DEF WorkerHostEnd
<1>6. CASE WorkerAppsBegin
  BY <1>1, <1>2, <1>6, PhaseStep DEF WorkerAppsBegin, SuccessStatuses
<1>7. CASE WorkerAppsEnd
  BY <1>1, <1>2, <1>7, PhaseStep DEF WorkerAppsEnd, SuccessStatuses
<1> QED BY <1>3, <1>4, <1>5, <1>6, <1>7

\* The worker writes the record of the running job.
LEMMA RunningRecord ==
  ASSUME IInv, worker \in {"start", "record"}, NEW a \in BOOLEAN,
         NEW v \in Statuses \ {"superseded"},
         store' \in Update(store, running, v, a)
  PROVE  /\ store' \in Store /\ running \in Ids
         /\ \A x \in Ids \ {running} :
              /\ store'.mem[x] = store.mem[x]
                   \/ (store.mem[x].status \in TerminalStatuses /\ store'.mem[x] = NoRecord)
              /\ store'.disk[x] \in {store.disk[x], NoRecord}
         /\ store'.mem[running].status = v
              \/ (v \in TerminalStatuses /\ store'.mem[running] = NoRecord)
         /\ \/ store'.disk[running] \in {store.disk[running], NoRecord}
            \/ store'.disk[running].status = v
<1>1. running \in Ids /\ store \in Store /\ store.mem[running].status # "absent"
  BY DEF IInv, TypeOK, SlotsAgree, SlotsHaveRecords
<1> QED BY <1>1, UpdateFacts

\* The running and terminal records of the job being executed.
LEMMA RecordStep ==
  ASSUME IInv, WorkerStart \/ WorkerRecord PROVE IInv'
<1> USE DEF IInv
<1>1. /\ worker \in {"start", "record"}
      /\ running' = running /\ pending' = pending /\ job' = job /\ pc' = pc
      /\ answer' = answer /\ accepted' = accepted
  BY DEF WorkerStart, WorkerRecord, WorkerAt, clientVars
<1>2. \E v \in Statuses \ {"superseded"}, a \in BOOLEAN :
        /\ store' \in Update(store, running, v, a)
        /\ \/ v = "running" /\ worker' \in {"save", "host"} /\ verdict' = verdict
              /\ worker = "start"
           \/ v \in TerminalStatuses /\ worker' = "promote" /\ verdict' = "none"
              /\ worker = "record"
  <2>1. CASE WorkerStart
    <3>1. /\ store' \in Update(store, running, "running", FALSE)
          /\ worker' \in {"save", "host"} /\ verdict' = verdict /\ worker = "start"
      BY <2>1 DEF WorkerStart, WorkerAt, GoOn
    <3>2. "running" \in Statuses \ {"superseded"}
      BY DEF Statuses, LiveStatuses
    <3> QED BY <3>1, <3>2
  <2>2. CASE WorkerRecord
    <3> DEFINE a == IsApply \/ saved # NoState
    <3>1. /\ store' \in Update(store, running, verdict, a) /\ a \in BOOLEAN
          /\ worker' = "promote" /\ verdict' = "none" /\ worker = "record"
      BY <2>2 DEF WorkerRecord, WorkerAt
    <3>2. verdict \in TerminalStatuses \ {"superseded"}
      BY <3>1 DEF TypeOK, SlotsAgree
    <3> HIDE DEF a
    <3> QED BY <3>1, <3>2 DEF Statuses
  <2> QED BY <2>1, <2>2
<1>3. PICK v \in Statuses \ {"superseded"}, a \in BOOLEAN :
        /\ store' \in Update(store, running, v, a)
        /\ \/ v = "running" /\ worker' \in {"save", "host"} /\ verdict' = verdict
              /\ worker = "start"
           \/ v \in TerminalStatuses /\ worker' = "promote" /\ verdict' = "none"
              /\ worker = "record"
  BY <1>2
<1>4. /\ store' \in Store /\ running \in Ids
      /\ \A x \in Ids \ {running} :
           /\ store'.mem[x] = store.mem[x]
                \/ (store.mem[x].status \in TerminalStatuses /\ store'.mem[x] = NoRecord)
           /\ store'.disk[x] \in {store.disk[x], NoRecord}
      /\ store'.mem[running].status = v
           \/ (v \in TerminalStatuses /\ store'.mem[running] = NoRecord)
      /\ \/ store'.disk[running] \in {store.disk[running], NoRecord}
         \/ store'.disk[running].status = v
  BY <1>1, <1>3, RunningRecord
<1>5. /\ NoRecord.status = "absent" /\ "running" \in LiveStatuses
      /\ TerminalStatuses \cap LiveStatuses = {}
      /\ "absent" \notin LiveStatuses /\ "queued" \notin TerminalStatuses
      /\ "running" \notin TerminalStatuses
  BY DEF NoRecord, LiveStatuses, TerminalStatuses, SuccessStatuses
<1>6. TypeOK'
  BY <1>1, <1>3, <1>4
     DEF TypeOK, WorkerStart, WorkerRecord, WorkerAt, WorkerStates, deviceVars
<1>7. SlotsAgree'
  BY <1>1, <1>3 DEF SlotsAgree
<1>8. \A x \in Ids \ {running} : x \in Live(store'.mem) <=> x \in Live(store.mem)
  BY <1>4, <1>5 DEF Live
<1>9. running \in Live(store'.mem) <=> v = "running"
  BY <1>3, <1>4, <1>5 DEF Live
<1>10. LiveRecordsHaveAJob'
  <2>1. Live(store.mem) = Owned /\ running \in Owned /\ running # pending /\ running # None
    BY <1>1, <1>4, NoneAssumption DEF LiveRecordsHaveAJob, Owned, SlotsAgree
  <2>2. Owned' = IF v = "running" THEN Owned ELSE Owned \ {running}
    BY <1>1, <1>3, <1>5, <2>1 DEF Owned
  <2>3. Live(store'.mem) = IF v = "running" THEN Live(store.mem)
                                            ELSE Live(store.mem) \ {running}
    BY <1>8, <1>9, <2>1 DEF Live
  <2> QED BY <2>1, <2>2, <2>3 DEF LiveRecordsHaveAJob
<1>11. NoLostWakeup'
  BY <1>1, <1>3, <1>8, <1>9 DEF NoLostWakeup
<1>12. LatestWins'
  <2>1. Newest' = Newest /\ (accepted # <<>> => Newest \in Ids)
    BY <1>1 DEF Newest, TypeOK
  <2> QED BY <1>1, <1>4, <1>5, <2>1 DEF LatestWins
<1>13. RetriesAreNotDropped' /\ FilesAgree'
  <2>1. Newest' = Newest /\ (accepted # <<>> => Newest \in Ids)
    BY <1>1 DEF Newest, TypeOK
  <2> QED BY <1>1, <1>4, <1>5, <2>1 DEF RetriesAreNotDropped, FilesAgree
<1>14. FreshHasNoRecord'
  <2> SUFFICES ASSUME NEW x \in Ids, pc[x] \notin Enqueued
               PROVE store'.mem[x].status = "absent" /\ store'.disk[x].status = "absent"
    BY <1>1 DEF FreshHasNoRecord
  <2> QED BY <1>4, <1>5, EnteringIsFresh
<1>15. SlotsHaveRecords'
  <2>1. pending # None => store'.mem[pending] = store.mem[pending]
    BY <1>4, <1>5 DEF SlotsHaveRecords, SlotsAgree, TypeOK
  <2> QED BY <1>1, <1>3, <1>4, <1>5, <2>1 DEF SlotsHaveRecords
<1> QED BY <1>6, <1>7, <1>10, <1>11, <1>12, <1>13, <1>14, <1>15

\* The end of a job: everybody is woken and the pending job, if any, runs.
LEMMA PromoteStep ==
  ASSUME IInv, WorkerPromote PROVE IInv'
<1> USE DEF IInv
<1>1. /\ worker = "promote" /\ running' = pending /\ pending' = None
      /\ worker' = (IF pending = None THEN "idle" ELSE "start")
      /\ pc' = Woken(pc) /\ store' = store /\ job' = job /\ accepted' = accepted
      /\ verdict' = verdict /\ verdict = "none" /\ pc \in [Ids -> CallStates]
  BY DEF WorkerPromote, SlotsAgree, TypeOK
<1>2. NoLostWakeup' /\ pc' \in [Ids -> CallStates]
  BY <1>1, NotifiedSlots
<1>3. TypeOK'
  BY <1>1, <1>2 DEF WorkerPromote, TypeOK, WorkerStates, deviceVars
<1>4. SlotsAgree' /\ LiveRecordsHaveAJob'
  BY <1>1 DEF SlotsAgree, LiveRecordsHaveAJob, Owned
<1>5. LatestWins' /\ RetriesAreNotDropped' /\ FilesAgree'
  BY <1>1, NoneAssumption DEF LatestWins, Newest, RetriesAreNotDropped, FilesAgree
<1>6. \A x \in Ids : (pc'[x] \in Enqueued <=> pc[x] \in Enqueued)
                   /\ (pc'[x] = "refused" <=> pc[x] = "refused")
  BY <1>1, WokenFacts
<1>7. FreshHasNoRecord'
  BY <1>1, <1>6 DEF FreshHasNoRecord
<1>8. SlotsHaveRecords'
  BY <1>1, <1>6 DEF SlotsHaveRecords, TypeOK
<1> QED BY <1>2, <1>3, <1>4, <1>5, <1>7, <1>8

\* A crash: slots are empty, records are reloaded from the files, of which none
\* is superseded when FilesAgree forbids it, and the boot thread comes in.
LEMMA RestartStep ==
  ASSUME IInv, Restart PROVE IInv'
<1> USE DEF IInv
<1>1. /\ running' = None /\ pending' = None /\ worker' = "idle" /\ verdict' = "none"
      /\ store \in Store /\ store' \in Reloaded(store) /\ accepted' = accepted
  BY DEF Restart, TypeOK
<1>2. PICK b \in Ids : /\ pc[b] = "new"
                       /\ pc' = [AfterCrash(pc) EXCEPT ![b] = "entering"]
                       /\ job' = [job EXCEPT ![b] = ReconcileJob]
  BY DEF Restart
<1>3. /\ store' \in Store /\ Live(store'.mem) = {}
      /\ \A r \in Ids :
           /\ IF store.disk[r].status \in LiveStatuses
                THEN store'.mem[r].status = "failed" \/ store'.mem[r] = NoRecord
                ELSE store'.mem[r] \in {store.disk[r], NoRecord}
           /\ \/ store'.disk[r] \in {store.disk[r], NoRecord}
              \/ /\ store.disk[r].status \in LiveStatuses
                 /\ store'.disk[r].status = "failed"
  BY <1>1, ReloadedFacts
<1>4. /\ pc \in [Ids -> CallStates] /\ job \in [Ids -> Jobs]
      /\ AfterCrash(pc) \in [Ids -> CallStates]
      /\ \A r \in Ids : /\ AfterCrash(pc)[r] \notin {"parked", "idle_parked"}
                        /\ AfterCrash(pc)[r] \in Enqueued <=> pc[r] \in Enqueued
  BY DEF TypeOK, AfterCrash, CallStates, Enqueued
<1>5. TypeOK'
  <2>1. pc' \in [Ids -> CallStates] /\ job' \in [Ids -> Jobs]
    BY <1>2, <1>4 DEF CallStates, Jobs
  <2>2. /\ targets' = NoState /\ timer' = FALSE /\ restarts' \in Nat
        /\ UNCHANGED <<answer, accepted, saved, host, apps>>
    BY DEF Restart, TypeOK
  <2>3. "idle" \in WorkerStates
    BY DEF WorkerStates
  <2> QED BY <1>1, <1>3, <2>1, <2>2, <2>3 DEF TypeOK
<1>6. SlotsAgree' /\ LiveRecordsHaveAJob'
  BY <1>1, <1>3 DEF SlotsAgree, LiveRecordsHaveAJob, Owned
<1>7. NoLostWakeup' /\ SlotsHaveRecords'
  BY <1>1, <1>2, <1>4 DEF NoLostWakeup, SlotsHaveRecords
<1>8. NoRecord.status = "absent" /\ "superseded" \notin LiveStatuses /\ "absent" \notin LiveStatuses
  BY DEF NoRecord, LiveStatuses
<1>9. \A r \in Ids : store.disk[r].status # "superseded" =>
        store'.mem[r].status # "superseded" /\ store'.disk[r].status # "superseded"
  BY <1>3, <1>8
<1>10. LatestWins'
  <2>1. Newest' = Newest /\ (accepted # <<>> => Newest \in Ids)
    BY <1>1 DEF Newest, TypeOK
  <2> QED BY <1>1, <1>9, <2>1 DEF LatestWins, FilesAgree
<1>11. \A r \in Ids : job'[r].idle => job[r].idle
  BY <1>2, <1>4 DEF ReconcileJob
<1>12. RetriesAreNotDropped' /\ FilesAgree'
  <2>1. Newest' = Newest /\ (accepted # <<>> => Newest \in Ids)
    BY <1>1 DEF Newest, TypeOK
  <2> QED BY <1>1, <1>9, <1>11, <2>1, NoneAssumption DEF RetriesAreNotDropped, FilesAgree
<1>13. FreshHasNoRecord'
  <2> SUFFICES ASSUME NEW x \in Ids, pc'[x] \notin Enqueued
               PROVE store'.mem[x].status = "absent" /\ store'.disk[x].status = "absent"
    BY DEF FreshHasNoRecord
  <2>1. pc[x] \notin Enqueued
    BY <1>2, <1>4 DEF Enqueued
  <2> QED BY <1>3, <1>8, <2>1 DEF FreshHasNoRecord
<1> QED BY <1>5, <1>6, <1>7, <1>10, <1>12, <1>13

\* Every step preserves the inductive invariant.
LEMMA NextInv == IInv /\ [Next]_vars => IInv'
<1> SUFFICES ASSUME IInv, [Next]_vars PROVE IInv'
  OBVIOUS
<1>1. job \in [Ids -> Jobs] /\ saved \in Payloads \cup {NoState}
      /\ targets \in Payloads \cup {NoState} /\ timer \in BOOLEAN
      /\ ReconcileJob \in Jobs /\ RetryJob \in Jobs
      /\ \A p \in Payloads : ApplyJob(p) \in Jobs
  BY DEF IInv, TypeOK, Jobs
<1>2. CASE \E r \in Ids, p \in Payloads : SubmitApply(r, p)
  BY <1>1, <1>2, CallStep, PayloadsAssumption DEF SubmitApply, SetTargets, deviceVars
<1>3. CASE \E r \in Ids : SubmitReconcile(r)
  BY <1>1, <1>3, CallStep DEF SubmitReconcile, deviceVars
<1>4. CASE \E r \in Ids : TimerFires(r)
  BY <1>1, <1>4, CallStep DEF TimerFires
<1>5. CASE \E r \in Ids : ParkForIdle(r)
  BY <1>5, ParkForIdleStep
<1>6. CASE \E r \in Ids : Enqueue(r)
  BY <1>6, RefuseStep, EnqueueIdleStep, ThreadFailsStep, EnqueuePendingStep DEF Enqueue
<1>7. CASE \E r \in Ids : CallWait(r) \/ WaitApply(r)
  BY <1>7, WaitStep
<1>8. CASE Worker
  BY <1>8, WorkerPhases, RecordStep, PromoteStep DEF Worker
<1>9. CASE Restart
  BY <1>9, RestartStep
<1>10. CASE UNCHANGED vars
  BY <1>10 DEF IInv, TypeOK, SlotsAgree, LiveRecordsHaveAJob, Owned, NoLostWakeup,
       LatestWins, Newest, RetriesAreNotDropped, FreshHasNoRecord, SlotsHaveRecords,
       FilesAgree, vars, slotVars, clientVars, deviceVars
<1> QED
  BY <1>2, <1>3, <1>4, <1>5, <1>6, <1>7, <1>8, <1>9, <1>10
     DEF Next, Submit, Client, Done

\* IInv holds of every reachable state, for any number of requests, states,
\* crashes and failing file operations.
THEOREM Invariance == Spec => []IInv
<1>1. Init => IInv
  BY InitInv
<1>2. IInv /\ [Next]_vars => IInv'
  BY NextInv
<1> QED BY <1>1, <1>2, PTL DEF Spec

\* Type correctness of the scheduler and of its record store.
THEOREM TypeCorrect == Spec => []TypeOK
<1>1. IInv => TypeOK
  BY DEF IInv
<1> QED BY <1>1, Invariance, PTL

\* The slots and the worker thread never disagree: no job is pending behind
\* nothing, and no request runs and waits at once.
THEOREM SlotsAlwaysAgree == Spec => []SlotsAgree
<1>1. IInv => SlotsAgree
  BY DEF IInv
<1> QED BY <1>1, Invariance, PTL

\* No queued or running record is orphaned: a caller never waits for a request
\* that no thread will finish, whatever writes fail and whenever it crashes.
THEOREM NoStuckRecord == Spec => []LiveRecordsHaveAJob
<1>1. IInv => LiveRecordsHaveAJob
  BY DEF IInv
<1> QED BY <1>1, Invariance, PTL

\* Every parked thread still has a notification coming.
THEOREM NoWakeupIsLost == Spec => []NoLostWakeup
<1>1. IInv => NoLostWakeup
  BY DEF IInv
<1> QED BY <1>1, Invariance, PTL

\* The newest accepted request is never superseded, and nothing older than it
\* is ever pending.
THEOREM LatestAlwaysWins == Spec => []LatestWins
<1>1. IInv => LatestWins
  BY DEF IInv
<1> QED BY <1>1, Invariance, PTL

\* A retry that waited for an idle scheduler neither displaces a request nor is
\* displaced by one.
THEOREM RetriesAreKept == Spec => []RetriesAreNotDropped
<1>1. IInv => RetriesAreNotDropped
  BY DEF IInv
<1> QED BY <1>1, Invariance, PTL

\* A terminal record is final, or pruned, as long as the process lives: the
\* scheduler never rewrites the verdict of a request.
THEOREM VerdictsAreFinal == Spec => TerminalIsFinal
<1> DEFINE Kept(r) == store'.mem[r] \in {store.mem[r], NoRecord}
           Final == restarts' = restarts => \A r \in Terminal(store.mem) : Kept(r)
<1>1. IInv /\ [Next]_vars => [Final]_vars
  <2> SUFFICES ASSUME IInv, [Next]_vars, restarts' = restarts,
                      NEW r \in Terminal(store.mem)
               PROVE  Kept(r)
    OBVIOUS
  <2>1. /\ r \in Ids /\ store.mem[r].status \in TerminalStatuses /\ store \in Store
        /\ store.mem[r].status \notin LiveStatuses \cup {"absent"}
    BY DEF Terminal, TerminalStatuses, SuccessStatuses, LiveStatuses, IInv, TypeOK
  <2>2. CASE store' = store
    BY <2>2
  <2>3. ASSUME NEW q \in Ids, EnqueueIdle(q) \/ ThreadFails(q)
        PROVE  Kept(r)
    <3>1. pc[q] = "entering" /\ q # r
      BY <2>1, <2>3, EnteringIsFresh DEF EnqueueIdle, ThreadFails, MayEnqueue, Enqueued
    <3>2. CASE EnqueueIdle(q)
      BY <2>1, <3>1, <3>2, CreatedFacts DEF EnqueueIdle
    <3>3. CASE ThreadFails(q)
      BY <2>1, <3>1, <3>3, FailedThreadFacts
    <3> QED BY <2>3, <3>2, <3>3
  <2>4. ASSUME NEW q \in Ids, EnqueuePending(q)
        PROVE  Kept(r)
    <3>1. pc[q] = "entering" /\ q # r
      BY <2>1, <2>4, EnteringIsFresh DEF EnqueuePending, MayEnqueue, Enqueued
    <3>2. r # pending
      BY <2>1, NoneAssumption
         DEF IInv, SlotsHaveRecords, TerminalStatuses, SuccessStatuses
    <3> QED BY <2>1, <2>4, <3>1, <3>2, SupersedingFacts
  <2>5. CASE WorkerStart \/ WorkerRecord
    <3>1. worker \in {"start", "record"}
      BY <2>5 DEF WorkerStart, WorkerRecord, WorkerAt
    <3>2. PICK v \in Statuses \ {"superseded"}, a \in BOOLEAN :
            store' \in Update(store, running, v, a)
      <4>1. "running" \in Statuses \ {"superseded"}
        BY DEF Statuses, LiveStatuses
      <4> DEFINE b == IsApply \/ saved # NoState
      <4>2. CASE WorkerStart
        BY <4>1, <4>2 DEF WorkerStart
      <4>3. CASE WorkerRecord
        <5>1. verdict \in Statuses \ {"superseded"}
          BY <4>3 DEF WorkerRecord, WorkerAt, IInv, TypeOK, SlotsAgree, Statuses
        <5>2. b \in BOOLEAN /\ store' \in Update(store, running, verdict, b)
          BY <4>3 DEF WorkerRecord
        <5> QED BY <5>1, <5>2
      <4> QED BY <2>5, <4>2, <4>3
    <3>3. r # running
      BY <2>1, <3>1 DEF IInv, SlotsHaveRecords, LiveStatuses
    <3> QED BY <2>1, <3>1, <3>2, <3>3, RunningRecord
  <2>6. ~Restart
    BY DEF Restart, IInv, TypeOK
  <2>7. CASE \E q \in Ids : Submit(q) \/ TimerFires(q)
    BY <2>2, <2>7 DEF Submit, SubmitApply, SubmitReconcile, TimerFires
  <2>8. CASE \E q \in Ids : Client(q)
    BY <2>2, <2>3, <2>4, <2>8
       DEF Client, ParkForIdle, Enqueue, Refuse, CallWait, WaitApply
  <2>9. CASE Worker
    BY <2>2, <2>5, <2>9
       DEF Worker, WorkerSave, WorkerHostBegin, WorkerHostEnd, WorkerAppsBegin,
           WorkerAppsEnd, WorkerPromote
  <2>10. CASE UNCHANGED vars
    BY <2>2, <2>10 DEF vars
  <2> QED BY <2>6, <2>7, <2>8, <2>9, <2>10 DEF Next, Done
<1>2. TerminalIsFinal <=> [][Final]_vars
  BY DEF TerminalIsFinal
<1> HIDE DEF Final
<1> QED BY <1>1, <1>2, Invariance, PTL DEF Spec

-----------------------------------------------------------------------------
(* What a success means.                                                   *)

\* What the worker has done so far: an apply has written its state to the file,
\* the host was configured from the file, and what the app project runs.
Progress ==
  /\ (worker \in {"host", "hosting", "apps", "up"} \/ verdict = "succeeded") =>
       (job[running].kind = "apply" => saved = job[running].state)
  /\ worker = "hosting" => saved # NoState
  /\ worker \in {"apps", "up"} => saved # NoState /\ host = saved
  /\ verdict = "succeeded" =>
       /\ host = saved
       /\ saved # NoState => apps = saved \/ (saved \in V2Payloads /\ targets # NoState)

\* Callers leave the job that runs alone, and never take back the targets.
LEMMA ProgressIsKept ==
  ASSUME IInv, Progress, UNCHANGED <<running, worker, verdict, saved, host, apps>>,
         running # None => job'[running] = job[running],
         targets' = targets \/ targets' # NoState
  PROVE  Progress'
<1>1. running = None => worker = "idle" /\ verdict = "none"
  BY DEF IInv, SlotsAgree
<1> QED BY <1>1 DEF Progress

\* A new caller is not the one whose job runs.
LEMMA CallsLeaveTheJob ==
  ASSUME IInv, NEW r \in Ids, NEW j, Call(r, j)
  PROVE  running # None => job'[running] = job[running]
<1>1. r # running
  BY EnteringIsFresh DEF Call, Enqueued
<1> QED BY <1>1 DEF Call, IInv, TypeOK

\* The worker's phases advance what is done in the order of _apply_state.
LEMMA ProgressByWorker ==
  ASSUME IInv, Progress, Worker
  PROVE  Progress'
<1> USE DEF WorkerAt, GoOn, Conclude, Progress, deviceVars, clientVars
<1>1. verdict # "none" <=> worker = "record"
  BY DEF IInv, SlotsAgree
<1>2. CASE WorkerStart
  BY <1>1, <1>2 DEF WorkerStart, IsApply
<1>3. CASE WorkerSave
  BY <1>1, <1>3 DEF WorkerSave
<1>4. CASE WorkerHostBegin
  BY <1>1, <1>4 DEF WorkerHostBegin
<1>5. CASE WorkerHostEnd
  BY <1>1, <1>5 DEF WorkerHostEnd
<1>6. CASE WorkerAppsBegin
  BY <1>1, <1>6 DEF WorkerAppsBegin, Superseded
<1>7. CASE WorkerAppsEnd
  BY <1>1, <1>7 DEF WorkerAppsEnd, Superseded
<1>8. CASE WorkerRecord
  BY <1>8 DEF WorkerRecord
<1>9. CASE WorkerPromote
  BY <1>1, <1>9 DEF WorkerPromote
<1> QED BY <1>2, <1>3, <1>4, <1>5, <1>6, <1>7, <1>8, <1>9 DEF Worker

LEMMA NextProgress == IInv /\ Progress /\ [Next]_vars => Progress'
<1> SUFFICES ASSUME IInv, Progress, [Next]_vars PROVE Progress'
  OBVIOUS
<1>1. CASE \E r \in Ids, p \in Payloads : SubmitApply(r, p)
  <2>1. PICK r \in Ids, p \in Payloads : SubmitApply(r, p)
    BY <1>1
  <2>2. targets' = targets \/ targets' # NoState
    BY <2>1, PayloadsAssumption DEF SubmitApply, SetTargets
  <2> QED BY <2>1, <2>2, CallsLeaveTheJob, ProgressIsKept
          DEF SubmitApply, slotVars, deviceVars
<1>2. CASE \E r \in Ids : SubmitReconcile(r)
  BY <1>2, CallsLeaveTheJob, ProgressIsKept DEF SubmitReconcile, slotVars, deviceVars
<1>3. CASE \E r \in Ids : TimerFires(r)
  BY <1>3, CallsLeaveTheJob, ProgressIsKept DEF TimerFires, slotVars
<1>4. CASE \E r \in Ids : \/ ParkForIdle(r) \/ Refuse(r) \/ ThreadFails(r)
                            \/ EnqueuePending(r) \/ CallWait(r) \/ WaitApply(r)
  BY <1>4, ProgressIsKept
     DEF ParkForIdle, Refuse, ThreadFails, EnqueuePending, CallWait, WaitApply,
         slotVars, deviceVars
<1>5. CASE \E r \in Ids : EnqueueIdle(r)
  BY <1>5 DEF EnqueueIdle, Progress, IInv, SlotsAgree
<1>6. CASE Worker
  BY <1>6, ProgressByWorker
<1>7. CASE Restart
  BY <1>7 DEF Restart, Progress
<1>8. CASE UNCHANGED vars
  BY <1>8, ProgressIsKept DEF vars, slotVars, clientVars, deviceVars
<1> QED
  BY <1>1, <1>2, <1>3, <1>4, <1>5, <1>6, <1>7, <1>8
     DEF Next, Submit, Client, Enqueue, Done

\* Only the worker's own record turns into a success.
LEMMA OnlyTheWorkerSucceeds ==
  ASSUME IInv, [Next]_vars, NEW r \in Ids, Succeeds(r)
  PROVE  worker = "record" /\ r = running /\ verdict = "succeeded"
<1>1. /\ store' # store
      /\ store.mem[r].status \notin TerminalStatuses /\ store'.mem[r] # NoRecord
      /\ store'.mem[r] # store.mem[r] /\ store'.mem[r].status = "succeeded"
  BY DEF Succeeds, TerminalStatuses, SuccessStatuses, NoRecord
<1>2. ~(\E q \in Ids : EnqueueIdle(q) \/ ThreadFails(q) \/ EnqueuePending(q))
  <2>1. \A q \in Ids : ~EnqueueIdle(q)
    BY <1>1, CreatedFacts DEF EnqueueIdle, IInv, TypeOK
  <2>2. \A q \in Ids : ~ThreadFails(q)
    BY <1>1, FailedThreadFacts
  <2>3. \A q \in Ids : ~EnqueuePending(q)
    <3>1. SUFFICES ASSUME NEW q \in Ids, EnqueuePending(q) PROVE FALSE
      OBVIOUS
    <3>2. r \notin {q, pending} => store'.mem[r] \in {store.mem[r], NoRecord}
      BY <3>1, SupersedingFacts
    <3>3. pending = r => pending # None
      BY NoneAssumption
    <3> QED BY <1>1, <3>1, <3>2, <3>3, SupersedingFacts
  <2> QED BY <2>1, <2>2, <2>3
<1>3. CASE WorkerStart
  <2>1. worker = "start" /\ store' \in Update(store, running, "running", FALSE)
    BY <1>3 DEF WorkerStart, WorkerAt
  <2>2. "running" \in Statuses \ {"superseded"} /\ "running" \notin TerminalStatuses
    BY DEF Statuses, LiveStatuses, TerminalStatuses, SuccessStatuses
  <2> QED BY <1>1, <2>1, <2>2, RunningRecord
<1>4. CASE WorkerRecord
  <2> DEFINE a == IsApply \/ saved # NoState
  <2>1. worker = "record" /\ a \in BOOLEAN /\ store' \in Update(store, running, verdict, a)
    BY <1>4 DEF WorkerRecord, WorkerAt
  <2>2. verdict \in Statuses \ {"superseded"}
    BY <2>1 DEF IInv, TypeOK, SlotsAgree, Statuses
  <2> QED BY <1>1, <2>1, <2>2, RunningRecord
<1>5. ~Restart
  BY DEF Restart, Succeeds, IInv, TypeOK
<1>6. CASE \E q \in Ids : Submit(q) \/ TimerFires(q) \/ ParkForIdle(q) \/ Refuse(q)
                          \/ CallWait(q) \/ WaitApply(q)
  BY <1>1, <1>6 DEF Submit, SubmitApply, SubmitReconcile, TimerFires, ParkForIdle, Refuse,
                    CallWait, WaitApply
<1>7. CASE Worker /\ ~WorkerStart /\ ~WorkerRecord
  BY <1>1, <1>7 DEF Worker, WorkerSave, WorkerHostBegin, WorkerHostEnd, WorkerAppsBegin,
                    WorkerAppsEnd, WorkerPromote
<1>8. ~UNCHANGED vars
  BY <1>1 DEF vars
<1> QED BY <1>2, <1>3, <1>4, <1>5, <1>6, <1>7, <1>8 DEF Next, Client, Enqueue, Done

\* Whatever fails and whatever is submitted meanwhile, a job is recorded as
\* succeeded only when the host is configured from the desired-state file, the
\* app project runs it or was called off, and the file is what was submitted
\* (dataplane.py, _run_apply_job and _apply_state).
THEOREM SuccessIsEarned == Spec => SuccessMeansApplied
<1> DEFINE Earned(r) ==
      /\ host = saved
      /\ saved # NoState =>
           apps = saved \/ (saved \in V2Payloads /\ targets # NoState)
      /\ job[r].kind = "apply" => saved = job[r].state
           Means == \A r \in Ids : Succeeds(r) => Earned(r)
<1>1. Init => Progress
  BY DEF Init, Progress
<1>2. Spec => []Progress
  BY <1>1, NextProgress, Invariance, PTL DEF Spec
<1>3. IInv /\ Progress /\ [Next]_vars => [Means]_vars
  BY OnlyTheWorkerSucceeds DEF Progress
<1>4. SuccessMeansApplied <=> [][Means]_vars
  BY DEF SuccessMeansApplied
<1> HIDE DEF Means
<1> QED BY <1>2, <1>3, <1>4, Invariance, PTL DEF Spec
=============================================================================
