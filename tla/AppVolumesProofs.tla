-------------------------- MODULE AppVolumesProofs --------------------------
(***************************************************************************)
(* The safety of app volumes, for any number of paths, instances, desired  *)
(* states, failures, kills and power losses.                               *)
(***************************************************************************)
EXTENDS AppVolumes, TLAPS

\* The steps on one volume, and those in which it is not mounted.
OnVolume == {"create", "format", "undo", "mount", "repair", "tag"}
Unmounted == OnVolume \ {"tag"}

\* The path that a step is for.
HasPath ==
  /\ pc \in OnVolume \cup {"seed"} => cur \in Paths /\ cur \notin todo
  /\ pc \in Unmounted => shows[cur] = "below"
  /\ pc = "tag" => shows[cur] = "lv"
  /\ pc = "create" => lv[cur] = "none"
  /\ pc \in {"format", "mount", "repair", "tag"} => lv[cur] # "none"

\* What is not there has no data, is not mounted, and no container has it.
NothingMeansNothing ==
  \A p \in Paths : lv[p] = "none" => ~data[p] /\ app[p] # "lv" /\ shows[p] # "lv"

\* What may be removed again is new: nobody has written to it.
NewIsEmpty ==
  pc \in {"create", "format", "undo"} \/ made => ~data[cur] /\ app[cur] # "lv"

\* Where a volume will be mounted there are no files, but for those a
\* container goes on writing.
NothingBelow == pc \in OnVolume /\ below[cur] => app[cur] = "below"

\* The reclaim works on volumes of deleted instances, and unmounts first.
OnlyGone ==
  pc = "reclaim" =>
    /\ todo \subseteq Gone
    /\ cur # NoPath => cur \in Gone /\ shows[cur] # "lv"

\* The apply has looked at every path it no longer has to do, and the
\* inventory knows every volume that it has still to look at.
Looked ==
  docker /\ pc \in OnVolume \cup {"next", "seed"} =>
    /\ sure /\ \A p \in todo : lv[p] # "none" => p \in inv
    /\ \A p \in Listed(saved) \ todo :
         shows[p] = "below" /\ lv[p] # "none" => p = cur /\ pc \in OnVolume

\* The mounter runs before Docker.
BarrierFirst == pc = "off" => ~docker

Failed == count.fault > 0
FailedTwice == count.crash > 0 \/ count.fault > 1

\* A raw volume is being formatted, or removed after a failure, or stranded.
RawIsTreated ==
  \A p \in Paths : lv[p] = "raw" =>
    \/ FailedTwice
    \/ p = cur /\ (pc = "format" \/ (pc = "undo" /\ Failed))

IInv ==
  /\ TypeOK /\ HasPath /\ NothingMeansNothing /\ NewIsEmpty /\ NothingBelow
  /\ OnlyGone /\ Looked /\ BarrierFirst /\ RawIsTreated

-----------------------------------------------------------------------------
LEMMA InitIsSafe == Init => IInv
<1> SUFFICES ASSUME Init PROVE IInv
  OBVIOUS
<1>1. TypeOK
  BY DEF Init, TypeOK
<1>2. HasPath /\ NewIsEmpty /\ NothingBelow /\ OnlyGone
  BY DEF Init, HasPath, NewIsEmpty, NothingBelow, OnlyGone, OnVolume, Unmounted
<1>3. \A p \in Paths : (lv[p] = "none" => ~data[p]) /\ app[p] = "none" /\ shows[p] = "below"
  <2>1. PICK old \in [Paths -> {"new", "volume", "files"}] :
          /\ lv = [p \in Paths |-> IF old[p] = "volume" THEN "xfs" ELSE "none"]
          /\ data = [p \in Paths |-> old[p] = "volume"]
    BY DEF Init
  <2>2. \A p \in Paths : lv[p] = "none" => ~data[p]
    BY <2>1
  <2>3. QED
    BY <2>2 DEF Init
<1>4. Looked /\ BarrierFirst /\ RawIsTreated
  BY DEF Init, Looked, BarrierFirst, RawIsTreated
<1>5. QED
  BY <1>1, <1>2, <1>3, <1>4 DEF IInv, NothingMeansNothing

-----------------------------------------------------------------------------
(* What is used of the budget never gets less.                             *)

CountTypes == count \in [fault : Nat, crash : Nat, state : Nat]
NoLess == CountTypes' /\ count'.fault >= count.fault /\ count'.crash >= count.crash

LEMMA FaultIsCounted ==
  ASSUME CountTypes, Fault
  PROVE  NoLess /\ Failed' /\ (Failed => FailedTwice')
  BY DEF CountTypes, NoLess, Fault, Bounded, Failed, FailedTwice

LEMMA CrashIsCounted ==
  ASSUME CountTypes, Bounded("crash")
  PROVE  NoLess /\ FailedTwice'
  BY DEF CountTypes, NoLess, Bounded, FailedTwice

LEMMA StateIsCounted ==
  ASSUME CountTypes, Bounded("state")
  PROVE  NoLess
  BY DEF CountTypes, NoLess, Bounded

LEMMA NothingIsCounted ==
  ASSUME CountTypes, UNCHANGED count
  PROVE  NoLess
  BY DEF CountTypes, NoLess

\* What was counted stays counted.
LEMMA FailuresStay ==
  ASSUME CountTypes, NoLess
  PROVE  (Failed => Failed') /\ (FailedTwice => FailedTwice')
  BY DEF CountTypes, NoLess, Failed, FailedTwice

-----------------------------------------------------------------------------
(* The ways out of an invocation.                                          *)

\* The working process is done with path p: with Docker it either ends the
\* apply or goes on to the seed files of p.
Done(p) ==
  /\ made' = FALSE /\ pc' \in {"idle", "next", "seed"}
  /\ cur' \in Paths \cup {NoPath} /\ (pc' = "seed" => cur' = p)
  /\ todo' \subseteq todo \ {p}
  /\ docker => pc' = "idle" \/ (pc' = "seed" /\ todo' = todo \ {p})

LEMMA RaiseIsDone ==
  ASSUME TypeOK, NEW p \in Paths, Raise(p)
  PROVE  Done(p) /\ (docker => pc' = "idle")
  BY DEF TypeOK, Raise, Turn, Done

LEMMA GoOnIsDone ==
  ASSUME TypeOK, NEW p \in Paths, GoOn(p)
  PROVE  Done(p)
  BY DEF TypeOK, GoOn, Turn, Done

LEMMA LeaveOffIsDone ==
  ASSUME TypeOK, NEW p \in Paths, LeaveOff(p)
  PROVE  Done(p)
  BY RaiseIsDone, GoOnIsDone DEF LeaveOff

\* The types of what is on the host.
HostTypes ==
  /\ lv \in [Paths -> {"none", "raw", "xfs"}]
  /\ data \in [Paths -> BOOLEAN] /\ damaged \in [Paths -> BOOLEAN]
  /\ tagged \in [Paths -> BOOLEAN] /\ below \in [Paths -> BOOLEAN]
  /\ shows \in [Paths -> {"below", "lv", "other"}] /\ tried \subseteq Paths

\* The apply may leave a path that shows its volume, or that has none.
Settled(p) ==
  docker /\ pc' # "idle" => (shows'[p] = "below" => lv'[p] = "none")

LEMMA DoneIsSafe ==
  ASSUME IInv, NEW p \in Paths, Done(p), UNCHANGED <<plan, app>>, NoLess, HostTypes',
         pc = "next" \/ (pc \in OnVolume /\ p = cur),
         \A o \in Paths \ {p} : lv'[o] = lv[o] /\ shows'[o] = shows[o] /\ data'[o] = data[o],
         NothingMeansNothing', Settled(p),
         lv'[p] = "raw" => FailedTwice'
  PROVE  IInv'
<1> USE DEF IInv, plan
<1>1. TypeOK'
  BY DEF TypeOK, Done, NoLess, CountTypes, HostTypes
<1>2. (HasPath /\ NewIsEmpty /\ NothingBelow /\ OnlyGone /\ BarrierFirst)'
  BY DEF HasPath, NewIsEmpty, NothingBelow, OnlyGone, BarrierFirst, Done, OnVolume,
     Unmounted, TypeOK
<1>3. Looked'
  BY DEF Looked, Listed, Done, OnVolume, TypeOK, Settled, HasPath
<1>4. RawIsTreated'
  <2>1. FailedTwice => FailedTwice'
    BY FailuresStay DEF TypeOK, CountTypes
  <2>2. QED
    BY <2>1 DEF RawIsTreated, OnVolume
<1>5. QED
  BY <1>1, <1>2, <1>3, <1>4

\* A step to the next command on the same volume.
LEMMA OnwardIsSafe ==
  ASSUME IInv, pc \in OnVolume, pc' \in OnVolume, UNCHANGED <<cur, todo, plan, app, below, data>>,
         NoLess, HostTypes', made' \in BOOLEAN, made' => pc' \in {"mount", "undo", "tag"},
         \A o \in Paths \ {cur} : lv'[o] = lv[o] /\ shows'[o] = shows[o],
         HasPath', NothingMeansNothing',
         (pc' \in {"format", "undo"} \/ made') => ~data[cur] /\ app[cur] # "lv",
         pc' # "create",
         lv'[cur] = "raw" => FailedTwice' \/ pc' = "format" \/ (pc' = "undo" /\ Failed')
  PROVE  IInv'
<1> USE DEF IInv, plan
<1>1. TypeOK'
  BY DEF TypeOK, NoLess, CountTypes, HostTypes, OnVolume
<1>2. (NewIsEmpty /\ NothingBelow /\ OnlyGone /\ BarrierFirst)'
  BY DEF NewIsEmpty, NothingBelow, OnlyGone, BarrierFirst, OnVolume
<1>3. Looked'
  BY DEF Looked, Listed, HasPath, OnVolume, TypeOK
<1>4. RawIsTreated'
  <2>1. FailedTwice => FailedTwice'
    BY FailuresStay DEF TypeOK, CountTypes
  <2>2. QED
    BY <2>1 DEF RawIsTreated
<1>5. QED
  BY <1>1, <1>2, <1>3, <1>4

\* A step after which the process looks at no path.
LEMMA QuietIsSafe ==
  ASSUME TypeOK', NothingMeansNothing', pc' \in {"off", "idle", "adopt", "reclaim"},
         made' = FALSE, OnlyGone', BarrierFirst',
         \A p \in Paths : lv'[p] = "raw" => FailedTwice'
  PROVE  IInv'
<1>1. (HasPath /\ NewIsEmpty /\ NothingBelow)'
  BY DEF HasPath, NewIsEmpty, NothingBelow, OnVolume, Unmounted
<1>2. (Looked /\ RawIsTreated)'
  BY DEF Looked, RawIsTreated, OnVolume
<1>3. QED
  BY <1>1, <1>2 DEF IInv

\* Between two paths every raw volume is stranded.
LEMMA RawIsStranded ==
  ASSUME IInv, pc \notin {"format", "undo"}, NEW p \in Paths, lv[p] = "raw"
  PROVE  FailedTwice
  BY DEF IInv, RawIsTreated

-----------------------------------------------------------------------------
(* The look at a path.                                                     *)

\* With Docker, what the inventory does not name does not exist.
LEMMA InventoryKnows ==
  ASSUME IInv, NEW p \in Paths, pc = "next", p \in todo, docker, lv[p] # "none"
  PROVE  sure /\ Expected(p)
  BY DEF IInv, Looked, Expected

LEMMA EnterIsSafe ==
  ASSUME IInv, NEW p \in Paths, NEW step \in {"create", "mount"}, Enter(step, p),
         pc = "next", p \in todo, shows[p] = "below",
         below' \in [Paths -> BOOLEAN], ~below'[p],
         step = "create" <=> lv[p] = "none",
         UNCHANGED <<lv, data, damaged, tagged, tried, shows, plan, app, count>>
  PROVE  IInv'
<1> USE DEF IInv, plan, Enter
<1>1. TypeOK'
  BY DEF TypeOK
<1>2. (HasPath /\ NothingMeansNothing /\ OnlyGone /\ BarrierFirst)'
  BY DEF HasPath, NothingMeansNothing, OnlyGone, BarrierFirst, OnVolume, Unmounted
<1>3. (NewIsEmpty /\ NothingBelow)'
  BY DEF NewIsEmpty, NothingBelow, NothingMeansNothing, TypeOK
<1>4. (Looked /\ RawIsTreated)'
  BY DEF Looked, RawIsTreated, FailedTwice, OnVolume
<1>5. QED
  BY <1>1, <1>2, <1>3, <1>4

\* The look ends the invocation.
LEMMA LookEndsSafe ==
  ASSUME IInv, NEW p \in Paths, pc = "next", Done(p), NoLess,
         UNCHANGED <<lv, data, shows, damaged, below, tried, plan, app>>,
         tagged' \in [Paths -> BOOLEAN], Settled(p)
  PROVE  IInv'
<1>1. NothingMeansNothing' /\ HostTypes'
  BY DEF IInv, NothingMeansNothing, HostTypes, TypeOK
<1>2. lv'[p] = "raw" => FailedTwice'
  BY RawIsStranded, FailuresStay DEF IInv, TypeOK, CountTypes
<1>3. QED
  BY <1>1, <1>2, DoneIsSafe

LEMMA LookIsSafe ==
  ASSUME IInv, NEW p \in Paths, Look(p)
  PROVE  IInv'
<1>1. TypeOK /\ CountTypes /\ pc = "next" /\ p \in todo /\ tagged \in [Paths -> BOOLEAN]
  BY DEF IInv, TypeOK, CountTypes, Look, Looks, Skip, LookFails, FoundMounted, FoundForeign,
     FoundFilesOnly, PreserveFallback, FoundConflict, FoundNothing, FoundVolume
<1>2. CASE Skip(p)
  <2>1. Done(p) /\ NoLess
    BY <1>1, <1>2, GoOnIsDone, NothingIsCounted DEF Skip
  <2>2. Settled(p)
    BY <1>1, <1>2, InventoryKnows DEF Skip, Concerns, Settled, host
  <2>3. QED
    BY <1>1, <1>2, <2>1, <2>2, LookEndsSafe DEF Skip, host
<1>3. CASE LookFails(p)
  <2>1. Done(p) /\ NoLess /\ (Expected(p) /\ docker => pc' = "idle")
    BY <1>1, <1>3, RaiseIsDone, LeaveOffIsDone, FaultIsCounted DEF LookFails
  <2>2. Settled(p)
    BY <1>1, <1>3, <2>1, InventoryKnows DEF LookFails, Settled, host
  <2>3. QED
    BY <1>1, <1>3, <2>1, <2>2, LookEndsSafe DEF LookFails, host
<1>4. CASE FoundMounted(p)
  <2>1. Done(p) /\ NoLess /\ tagged' \in [Paths -> BOOLEAN]
    BY <1>1, <1>4, GoOnIsDone, FaultIsCounted, NothingIsCounted DEF FoundMounted
  <2>2. Settled(p)
    BY <1>4 DEF FoundMounted, Settled
  <2>3. QED
    BY <1>1, <1>4, <2>1, <2>2, LookEndsSafe DEF FoundMounted
<1>5. CASE FoundForeign(p)
  <2>1. Done(p) /\ NoLess
    BY <1>1, <1>5, RaiseIsDone, LeaveOffIsDone, NothingIsCounted DEF FoundForeign
  <2>2. Settled(p)
    BY <1>5 DEF FoundForeign, Settled, host
  <2>3. QED
    BY <1>1, <1>5, <2>1, <2>2, LookEndsSafe DEF FoundForeign, host
<1>6. CASE FoundFilesOnly(p)
  <2>1. Done(p) /\ NoLess
    BY <1>1, <1>6, LeaveOffIsDone, NothingIsCounted DEF FoundFilesOnly
  <2>2. Settled(p)
    BY <1>6 DEF FoundFilesOnly, Settled, host
  <2>3. QED
    BY <1>1, <1>6, <2>1, <2>2, LookEndsSafe DEF FoundFilesOnly, host
<1>7. CASE PreserveFallback(p)
  <2>1. below' \in [Paths -> BOOLEAN] /\ ~below'[p]
    BY <1>1, <1>7 DEF PreserveFallback, TypeOK
  <2>2. QED
    BY <1>1, <1>7, <2>1, EnterIsSafe DEF PreserveFallback
<1>8. CASE FoundConflict(p)
  <2>1. Done(p) /\ NoLess /\ (docker => pc' = "idle")
    BY <1>1, <1>8, RaiseIsDone, FaultIsCounted, NothingIsCounted DEF FoundConflict
  <2>2. QED
    BY <1>1, <1>8, <2>1, LookEndsSafe DEF FoundConflict, Settled, host
<1>9. CASE FoundNothing(p) /\ MayCreate(p)
  BY <1>1, <1>9, EnterIsSafe DEF FoundNothing, TypeOK, host
<1>10. CASE FoundNothing(p) /\ ~MayCreate(p)
  <2>1. Done(p) /\ NoLess
    BY <1>1, <1>10, LeaveOffIsDone, NothingIsCounted DEF FoundNothing
  <2>2. QED
    BY <1>1, <1>10, <2>1, LookEndsSafe DEF FoundNothing, Settled, host
<1>11. CASE FoundVolume(p)
  BY <1>1, <1>11, EnterIsSafe DEF FoundVolume, TypeOK, host
<1>12. QED
  BY <1>2, <1>3, <1>4, <1>5, <1>6, <1>7, <1>8, <1>9, <1>10, <1>11 DEF Look
-----------------------------------------------------------------------------
(* The commands on the current volume.                                     *)

\* What holds of the current volume, and of the raw ones.
LEMMA CurrentVolume ==
  ASSUME IInv, pc \in OnVolume
  PROVE  /\ TypeOK /\ CountTypes /\ HostTypes
         /\ cur \in Paths /\ cur \notin todo
         /\ \A o \in Paths \ {cur} : lv[o] = "raw" => FailedTwice
         /\ lv[cur] = "raw" => pc = "format" \/ (pc = "undo" /\ Failed) \/ FailedTwice
  BY DEF IInv, TypeOK, CountTypes, HostTypes, HasPath, RawIsTreated

LEMMA CreateVolumeSafe ==
  ASSUME IInv, CreateVolume
  PROVE  IInv'
<1>1. /\ pc = "create" /\ pc' \in {"format", "undo"} /\ UNCHANGED <<cur, todo>>
      /\ lv[cur] = "none" /\ shows[cur] = "below" /\ made' = FALSE
      /\ lv' \in {lv, [lv EXCEPT ![cur] = "raw"]}
      /\ pc' = "format" => lv' = [lv EXCEPT ![cur] = "raw"]
      /\ UNCHANGED <<data, damaged, tagged, tried, shows, below, plan, app>>
  BY DEF CreateVolume, At, Goto, IInv, HasPath, TypeOK, Unmounted, OnVolume
<1>2. NoLess /\ (pc' = "undo" => Failed')
  BY <1>1, FaultIsCounted, NothingIsCounted DEF CreateVolume, Goto, IInv, TypeOK, CountTypes
<1>3. cur \in Paths /\ cur \notin todo /\ HostTypes' /\ TypeOK
  BY <1>1, CurrentVolume DEF OnVolume, HostTypes
<1>4. HasPath' /\ NothingMeansNothing'
  BY <1>1, <1>3 DEF IInv, HasPath, NothingMeansNothing, OnVolume, Unmounted, TypeOK
<1>5. ~data[cur] /\ app[cur] # "lv"
  BY <1>1 DEF IInv, NewIsEmpty
<1>6. \A o \in Paths \ {cur} : lv'[o] = lv[o] /\ shows'[o] = shows[o]
  BY <1>1, <1>3 DEF TypeOK
<1>7. QED
  BY <1>1, <1>2, <1>3, <1>4, <1>5, <1>6, OnwardIsSafe DEF OnVolume

LEMMA FormatVolumeSafe ==
  ASSUME IInv, FormatVolume
  PROVE  IInv'
<1>1. /\ pc = "format" /\ pc' \in {"mount", "undo"} /\ UNCHANGED <<cur, todo>>
      /\ lv[cur] # "none" /\ shows[cur] = "below"
      /\ lv' \in {lv, [lv EXCEPT ![cur] = "xfs"]}
      /\ pc' = "mount" => lv' = [lv EXCEPT ![cur] = "xfs"]
      /\ made' = IF pc' = "mount" THEN TRUE ELSE FALSE
      /\ UNCHANGED <<data, damaged, tagged, tried, shows, below, plan, app>>
  <2>1. pc = "format" /\ made = FALSE /\ lv[cur] # "none" /\ shows[cur] = "below"
    BY DEF FormatVolume, At, IInv, HasPath, TypeOK, Unmounted, OnVolume
  <2>2. QED
    BY <2>1 DEF FormatVolume, Goto
<1>2. NoLess /\ (pc' = "undo" => Failed')
  BY <1>1, FaultIsCounted, NothingIsCounted DEF FormatVolume, Goto, IInv, TypeOK, CountTypes
<1>3. cur \in Paths /\ cur \notin todo /\ HostTypes' /\ TypeOK
  BY <1>1, CurrentVolume DEF OnVolume, HostTypes
<1>4. HasPath' /\ NothingMeansNothing'
  BY <1>1, <1>3 DEF IInv, HasPath, NothingMeansNothing, OnVolume, Unmounted, TypeOK
<1>5. ~data[cur] /\ app[cur] # "lv"
  BY <1>1 DEF IInv, NewIsEmpty
<1>6. \A o \in Paths \ {cur} : lv'[o] = lv[o] /\ shows'[o] = shows[o]
  BY <1>1, <1>3 DEF TypeOK
<1>7. lv'[cur] = "raw" => pc' = "undo" /\ Failed'
  BY <1>1, <1>2, <1>3 DEF TypeOK
<1>8. QED
  BY <1>1, <1>2, <1>3, <1>4, <1>5, <1>6, <1>7, OnwardIsSafe DEF OnVolume

\* What lvremove leaves of an empty volume that is not mounted.
LEMMA RemovedFacts ==
  ASSUME TypeOK, NothingMeansNothing, NEW p \in Paths, Removed(p), UNCHANGED <<shows, app>>,
         shows[p] # "lv", app[p] # "lv"
  PROVE  /\ NothingMeansNothing' /\ lv'[p] = "none"
         /\ lv' \in [Paths -> {"none", "raw", "xfs"}] /\ data' \in [Paths -> BOOLEAN]
         /\ damaged' \in [Paths -> BOOLEAN] /\ tagged' \in [Paths -> BOOLEAN]
         /\ \A o \in Paths \ {p} : lv'[o] = lv[o] /\ data'[o] = data[o]
  BY DEF TypeOK, NothingMeansNothing, Removed

LEMMA UndoVolumeSafe ==
  ASSUME IInv, UndoVolume
  PROVE  IInv'
<1>1. /\ pc = "undo" /\ cur \in Paths /\ cur \notin todo /\ TypeOK /\ CountTypes /\ HostTypes
      /\ shows[cur] = "below" /\ app[cur] # "lv" /\ NothingMeansNothing
      /\ UNCHANGED <<tried, shows, below, plan, app>>
  BY CurrentVolume DEF UndoVolume, At, IInv, HasPath, NewIsEmpty, OnVolume, Unmounted
<1>2. CASE Removed(cur)
  <2>1. Done(cur) /\ NoLess
    BY <1>1, RaiseIsDone, LeaveOffIsDone, FaultIsCounted, NothingIsCounted DEF UndoVolume
  <2>2. /\ NothingMeansNothing' /\ HostTypes' /\ lv'[cur] = "none"
        /\ \A o \in Paths \ {cur} : lv'[o] = lv[o] /\ shows'[o] = shows[o] /\ data'[o] = data[o]
    BY <1>1, <1>2, RemovedFacts DEF HostTypes
  <2>3. QED
    BY <1>1, <2>1, <2>2, DoneIsSafe DEF Settled, OnVolume
<1>3. CASE Fault /\ Raise(cur) /\ UNCHANGED <<lv, data, tagged, damaged>>
  <2>1. Done(cur) /\ (docker => pc' = "idle") /\ NoLess /\ (Failed => FailedTwice')
    BY <1>1, <1>3, RaiseIsDone, FaultIsCounted
  <2>2. lv'[cur] = "raw" => FailedTwice'
    BY <1>1, <1>3, <2>1, CurrentVolume, FailuresStay DEF OnVolume
  <2>3. NothingMeansNothing' /\ HostTypes'
    BY <1>1, <1>3 DEF NothingMeansNothing, HostTypes
  <2>4. QED
    BY <1>1, <1>3, <2>1, <2>2, <2>3, DoneIsSafe DEF Settled, OnVolume
<1>4. QED
  BY <1>2, <1>3 DEF UndoVolume

\* What holds while an existing volume is mounted, repaired and tagged.
LEMMA ExistingVolume ==
  ASSUME IInv, pc \in {"mount", "repair", "tag"}
  PROVE  /\ TypeOK /\ CountTypes /\ HostTypes /\ NothingMeansNothing
         /\ cur \in Paths /\ cur \notin todo /\ lv[cur] # "none"
         /\ \A o \in Paths : lv[o] = "raw" => FailedTwice
         /\ made => ~data[cur] /\ app[cur] # "lv"
         /\ pc # "tag" => shows[cur] = "below"
  BY CurrentVolume DEF IInv, OnVolume, Unmounted, HasPath, NewIsEmpty

\* The next command on an existing volume.
LEMMA NextCommandSafe ==
  ASSUME IInv, pc \in {"mount", "repair", "tag"}, pc' \in {"mount", "repair", "tag", "undo"},
         UNCHANGED <<cur, todo, lv, data, tagged, below, plan, app>>, NoLess,
         damaged' \in [Paths -> BOOLEAN], tried' \subseteq Paths, made' = made,
         made => pc' \in {"mount", "undo", "tag"}, pc' = "undo" => made,
         shows' = [shows EXCEPT ![cur] = IF pc' = "tag" THEN "lv" ELSE "below"]
  PROVE  IInv'
<1>1. HostTypes' /\ NothingMeansNothing' /\ HasPath'
  BY ExistingVolume DEF HostTypes, NothingMeansNothing, HasPath, OnVolume, Unmounted
<1>2. \A o \in Paths : lv'[o] = "raw" => FailedTwice'
  BY ExistingVolume, FailuresStay
<1>3. \A o \in Paths \ {cur} : lv'[o] = lv[o] /\ shows'[o] = shows[o]
  BY ExistingVolume DEF HostTypes
<1>4. made' \in BOOLEAN /\ cur \in Paths
  BY ExistingVolume DEF TypeOK
<1>5. (pc' \in {"format", "undo"} \/ made') => ~data[cur] /\ app[cur] # "lv"
  BY ExistingVolume
<1>6. QED
  BY <1>1, <1>2, <1>3, <1>4, <1>5, OnwardIsSafe DEF OnVolume

\* The invocation ends with an existing volume.
LEMMA VolumeDoneSafe ==
  ASSUME IInv, pc \in {"mount", "repair", "tag"}, Done(cur), NoLess,
         UNCHANGED <<lv, data, below, plan, app>>, damaged' \in [Paths -> BOOLEAN],
         tagged' \in [Paths -> BOOLEAN], tried' \subseteq Paths,
         shows' \in {shows, [shows EXCEPT ![cur] = "lv"]},
         docker => pc' = "idle" \/ shows'[cur] = "lv"
  PROVE  IInv'
<1>1. HostTypes' /\ NothingMeansNothing'
  BY ExistingVolume DEF HostTypes, NothingMeansNothing
<1>2. lv'[cur] = "raw" => FailedTwice'
  BY ExistingVolume, FailuresStay
<1>3. \A o \in Paths \ {cur} : lv'[o] = lv[o] /\ shows'[o] = shows[o] /\ data'[o] = data[o]
  BY ExistingVolume DEF HostTypes
<1>4. cur \in Paths /\ Settled(cur)
  BY ExistingVolume DEF Settled
<1>5. QED
  BY <1>1, <1>2, <1>3, <1>4, DoneIsSafe DEF OnVolume

LEMMA MountVolumeSafe ==
  ASSUME IInv, MountVolume
  PROVE  IInv'
<1>1. NoLess /\ pc = "mount" /\ TypeOK
  BY NothingIsCounted, ExistingVolume DEF MountVolume, At
<1>2. QED
  BY <1>1, NextCommandSafe DEF MountVolume, Goto, TypeOK

LEMMA MountCutOffSafe ==
  ASSUME IInv, MountCutOff
  PROVE  IInv'
<1>1. /\ pc = "mount" /\ TypeOK /\ NoLess /\ cur \in Paths /\ shows[cur] = "below"
      /\ shows' \in {shows, [shows EXCEPT ![cur] = "lv"]}
  BY FaultIsCounted, ExistingVolume DEF MountCutOff, At
<1>2. CASE Raise(cur)
  <2>1. Done(cur) /\ (docker => pc' = "idle")
    BY <1>1, <1>2, RaiseIsDone
  <2>2. QED
    BY <1>1, <2>1, VolumeDoneSafe DEF MountCutOff, TypeOK
<1>3. CASE made /\ UNCHANGED made /\ Goto(IF shows'[cur] = "lv" THEN "tag" ELSE "undo")
  <2>1. shows' = [shows EXCEPT ![cur] = IF pc' = "tag" THEN "lv" ELSE "below"]
    BY <1>1, <1>3 DEF TypeOK, Goto
  <2>2. QED
    BY <1>1, <1>3, <2>1, NextCommandSafe DEF MountCutOff, Goto, TypeOK
<1>4. QED
  BY <1>2, <1>3 DEF MountCutOff

LEMMA MountRefusedSafe ==
  ASSUME IInv, MountRefused
  PROVE  IInv'
<1>1. /\ pc = "mount" /\ TypeOK /\ NoLess /\ cur \in Paths /\ shows[cur] = "below"
      /\ tried' \subseteq Paths
  BY FaultIsCounted, NothingIsCounted, ExistingVolume DEF MountRefused, At, TypeOK
<1>2. CASE Raise(cur)
  <2>1. Done(cur) /\ (docker => pc' = "idle")
    BY <1>1, <1>2, RaiseIsDone
  <2>2. QED
    BY <1>1, <2>1, VolumeDoneSafe DEF MountRefused, TypeOK
<1>3. CASE UNCHANGED made /\ (IF made THEN Goto("undo") ELSE Goto("repair"))
  <2>1. shows' = [shows EXCEPT ![cur] = IF pc' = "tag" THEN "lv" ELSE "below"]
    BY <1>1, <1>3 DEF TypeOK, Goto, MountRefused
  <2>2. QED
    BY <1>1, <1>3, <2>1, NextCommandSafe DEF MountRefused, Goto, TypeOK
<1>4. QED
  BY <1>2, <1>3 DEF MountRefused

LEMMA RepairVolumeSafe ==
  ASSUME IInv, RepairVolume
  PROVE  IInv'
<1>1. /\ pc = "repair" /\ TypeOK /\ NoLess /\ cur \in Paths /\ shows[cur] = "below"
      /\ damaged' \in [Paths -> BOOLEAN]
  BY FaultIsCounted, NothingIsCounted, ExistingVolume DEF RepairVolume, At, TypeOK
<1>2. CASE Raise(cur)
  <2>1. Done(cur) /\ (docker => pc' = "idle")
    BY <1>1, <1>2, RaiseIsDone
  <2>2. QED
    BY <1>1, <2>1, VolumeDoneSafe DEF RepairVolume, TypeOK
<1>3. CASE UNCHANGED made /\ Goto("mount")
  <2>1. shows' = [shows EXCEPT ![cur] = IF pc' = "tag" THEN "lv" ELSE "below"]
    BY <1>1, <1>3 DEF TypeOK, Goto, RepairVolume
  <2>2. QED
    BY <1>1, <1>3, <2>1, NextCommandSafe DEF RepairVolume, Goto, TypeOK
<1>4. QED
  BY <1>2, <1>3 DEF RepairVolume

LEMMA TagVolumeSafe ==
  ASSUME IInv, TagVolume
  PROVE  IInv'
<1>1. /\ pc = "tag" /\ TypeOK /\ NoLess /\ cur \in Paths /\ shows[cur] = "lv"
      /\ tagged' \in [Paths -> BOOLEAN]
  BY FaultIsCounted, NothingIsCounted, ExistingVolume
     DEF TagVolume, At, TypeOK, IInv, HasPath
<1>2. CASE GoOn(cur) /\ UNCHANGED shows
  <2>1. Done(cur)
    BY <1>1, <1>2, GoOnIsDone
  <2>2. QED
    BY <1>1, <1>2, <2>1, VolumeDoneSafe DEF TagVolume, TypeOK
<1>3. CASE Raise(cur) /\ UNCHANGED shows
  <2>1. Done(cur) /\ (docker => pc' = "idle")
    BY <1>1, <1>3, RaiseIsDone
  <2>2. QED
    BY <1>1, <1>3, <2>1, VolumeDoneSafe DEF TagVolume, TypeOK
<1>4. CASE /\ made /\ Goto("undo") /\ UNCHANGED <<made, tagged>>
           /\ shows' = [shows EXCEPT ![cur] = "below"]
  BY <1>1, <1>4, NextCommandSafe DEF TagVolume, Goto, TypeOK
<1>5. QED
  BY <1>2, <1>3, <1>4 DEF TagVolume

-----------------------------------------------------------------------------
(* The mounter, the applies and the reclaim.                               *)

\* What is raw when no volume is worked on stays stranded.
LEMMA NoVolumeInWork ==
  ASSUME IInv, pc \notin OnVolume, NoLess
  PROVE  \A p \in Paths : lv[p] = "raw" => FailedTwice /\ FailedTwice'
  BY RawIsStranded, FailuresStay DEF IInv, OnVolume, TypeOK, CountTypes

LEMMA StartMounterSafe ==
  ASSUME IInv, StartMounter
  PROVE  IInv'
<1>1. /\ pc = "off" /\ pc' = "next" /\ cur' = NoPath /\ made' = FALSE /\ ~docker
      /\ UNCHANGED <<host, docker, saved, was, app>> /\ todo' = Listed(saved)
      /\ inv' \in SUBSET Paths /\ sure' \in BOOLEAN /\ TypeOK /\ CountTypes
  BY DEF StartMounter, Turn, IInv, BarrierFirst, Existing, TypeOK, CountTypes
<1>2. NoLess
  BY <1>1, FaultIsCounted, NothingIsCounted DEF StartMounter
<1>3. TypeOK'
  BY <1>1, <1>2 DEF TypeOK, NoLess, CountTypes, host, Listed
<1>4. (HasPath /\ NothingMeansNothing /\ NewIsEmpty /\ NothingBelow /\ OnlyGone)'
  BY <1>1 DEF IInv, HasPath, NothingMeansNothing, NewIsEmpty, NothingBelow, OnlyGone,
     OnVolume, Unmounted, host
<1>5. (Looked /\ BarrierFirst)'
  BY <1>1 DEF Looked, BarrierFirst
<1>6. RawIsTreated'
  BY <1>1, <1>2, NoVolumeInWork DEF RawIsTreated, OnVolume, host
<1>7. QED
  BY <1>3, <1>4, <1>5, <1>6 DEF IInv

LEMMA StartDockerSafe ==
  ASSUME IInv, StartDocker
  PROVE  IInv'
<1>1. /\ pc' = "idle" /\ cur' = NoPath /\ made' = FALSE /\ docker' = TRUE /\ todo' = {}
      /\ UNCHANGED <<host, saved, was, inv, sure>> /\ TypeOK /\ CountTypes
      /\ app' = [p \in Paths |-> IF app[p] = "stopped" THEN shows[p] ELSE app[p]]
  BY DEF StartDocker, Turn, IInv, TypeOK, CountTypes
<1>2. NoLess /\ (pc = "next" \/ FailedTwice')
  BY <1>1, CrashIsCounted, NothingIsCounted DEF StartDocker
<1>3. TypeOK'
  BY <1>1, <1>2 DEF TypeOK, NoLess, CountTypes, host
<1>4. (NothingMeansNothing /\ OnlyGone /\ BarrierFirst)'
  BY <1>1 DEF IInv, NothingMeansNothing, OnlyGone, BarrierFirst, host
<1>5. \A p \in Paths : lv'[p] = "raw" => FailedTwice'
  BY <1>1, <1>2, NoVolumeInWork DEF OnVolume, host
<1>6. QED
  BY <1>1, <1>3, <1>4, <1>5, QuietIsSafe

LEMMA StartApplySafe ==
  ASSUME IInv, StartApply
  PROVE  IInv'
<1>1. /\ pc = "idle" /\ pc' = "next" /\ cur' = NoPath /\ made' = FALSE /\ todo' = Listed(saved')
      /\ inv' = Existing /\ sure' = TRUE /\ saved' \in States /\ was' \subseteq Paths
      /\ UNCHANGED <<host, docker, app>> /\ TypeOK /\ CountTypes
  BY DEF StartApply, Turn, IInv, Listed, TypeOK, CountTypes
<1>2. NoLess
  BY <1>1, StateIsCounted DEF StartApply
<1>3. TypeOK'
  BY <1>1, <1>2 DEF TypeOK, NoLess, CountTypes, host, Listed, Existing
<1>4. (HasPath /\ NothingMeansNothing /\ NewIsEmpty /\ NothingBelow /\ OnlyGone)'
  BY <1>1 DEF IInv, HasPath, NothingMeansNothing, NewIsEmpty, NothingBelow, OnlyGone,
     OnVolume, Unmounted, host
<1>5. (Looked /\ BarrierFirst)'
  BY <1>1 DEF Looked, Listed, Existing, BarrierFirst, host
<1>6. RawIsTreated'
  BY <1>1, <1>2, NoVolumeInWork DEF RawIsTreated, OnVolume, host
<1>7. QED
  BY <1>3, <1>4, <1>5, <1>6 DEF IInv

LEMMA SeedSafe ==
  ASSUME IInv, Seed
  PROVE  IInv'
<1>1. /\ pc = "seed" /\ pc' = "next" /\ cur' = NoPath /\ made' = FALSE /\ TypeOK
      /\ UNCHANGED <<lv, damaged, tagged, tried, shows, todo, plan, app, count>>
      /\ \E seeded \in BOOLEAN :
            /\ data' = [data EXCEPT ![cur] = @ \/ (seeded /\ shows[cur] = "lv")]
            /\ below' = [below EXCEPT ![cur] = @ \/ (seeded /\ shows[cur] = "below")]
  BY DEF Seed, Turn, IInv
<1>2. TypeOK'
  BY <1>1 DEF TypeOK, plan
<1>3. (HasPath /\ NothingMeansNothing /\ NewIsEmpty /\ NothingBelow /\ OnlyGone)'
  BY <1>1 DEF IInv, HasPath, NothingMeansNothing, NewIsEmpty, NothingBelow, OnlyGone,
     OnVolume, Unmounted, TypeOK
<1>4. (Looked /\ BarrierFirst)'
  BY <1>1 DEF IInv, Looked, Listed, BarrierFirst, OnVolume, plan
<1>5. RawIsTreated'
  BY <1>1, NoVolumeInWork, NothingIsCounted DEF RawIsTreated, OnVolume, TypeOK, CountTypes
<1>6. QED
  BY <1>2, <1>3, <1>4, <1>5 DEF IInv

LEMMA ComposeSafe ==
  ASSUME IInv, Compose
  PROVE  IInv'
<1>1. /\ pc = "next" /\ pc' \in {"idle", "adopt"} /\ cur' = NoPath /\ made' = FALSE
      /\ UNCHANGED <<host, todo, plan>> /\ TypeOK /\ CountTypes
      /\ \E up, other \in SUBSET Paths :
            app' = [p \in Paths |-> IF p \in up THEN shows[p]
                                    ELSE IF p \in other THEN "none" ELSE app[p]]
  <2>1. PICK up \in SUBSET Listed(saved), kept \in SUBSET Unlisted :
          /\ app' = [p \in Paths |->
               IF p \in up THEN shows[p]
               ELSE IF p \in Unlisted \ kept THEN "none" ELSE app[p]]
          /\ \E next \in {"adopt", "idle"} : Turn(next, NoPath)
    BY DEF Compose
  <2>2. up \in SUBSET Paths /\ Unlisted \ kept \in SUBSET Paths
    BY DEF Listed, Unlisted
  <2>3. \E one, other \in SUBSET Paths :
          app' = [p \in Paths |-> IF p \in one THEN shows[p]
                                  ELSE IF p \in other THEN "none" ELSE app[p]]
    BY <2>1, <2>2
  <2>4. QED
    BY <2>1, <2>3 DEF Compose, Turn, IInv, TypeOK, CountTypes
<1>2. NoLess
  BY <1>1, FaultIsCounted, NothingIsCounted DEF Compose
<1>3. TypeOK'
  BY <1>1, <1>2 DEF TypeOK, NoLess, CountTypes, host, plan
<1>4. (NothingMeansNothing /\ OnlyGone /\ BarrierFirst)'
  BY <1>1 DEF IInv, NothingMeansNothing, OnlyGone, BarrierFirst, host
<1>5. \A p \in Paths : lv'[p] = "raw" => FailedTwice'
  BY <1>1, <1>2, NoVolumeInWork DEF OnVolume, host
<1>6. QED
  BY <1>1, <1>3, <1>4, <1>5, QuietIsSafe

LEMMA AdoptSafe ==
  ASSUME IInv, Adopt
  PROVE  IInv'
<1>1. /\ pc = "adopt" /\ pc' = "reclaim" /\ cur' = NoPath /\ made' = FALSE
      /\ todo' \subseteq Gone /\ tagged' \in [Paths -> BOOLEAN]
      /\ UNCHANGED <<lv, data, damaged, tried, shows, below, plan, app>> /\ TypeOK /\ CountTypes
  BY DEF Adopt, Turn, IInv, Gone, TypeOK, CountTypes
<1>2. NoLess
  BY <1>1, FaultIsCounted, NothingIsCounted DEF Adopt
<1>3. TypeOK'
  BY <1>1, <1>2 DEF TypeOK, NoLess, CountTypes, plan, Gone
<1>4. (NothingMeansNothing /\ OnlyGone /\ BarrierFirst)'
  BY <1>1 DEF IInv, NothingMeansNothing, OnlyGone, Gone, BarrierFirst, plan
<1>5. \A p \in Paths : lv'[p] = "raw" => FailedTwice'
  BY <1>1, <1>2, NoVolumeInWork DEF OnVolume
<1>6. QED
  BY <1>1, <1>3, <1>4, <1>5, QuietIsSafe

LEMMA UnmountSafe ==
  ASSUME IInv, NEW p \in Paths, Unmount(p)
  PROVE  IInv'
<1>1. /\ pc = "reclaim" /\ pc' = "reclaim" /\ made' = FALSE /\ p \in todo /\ todo \subseteq Gone
      /\ todo' \subseteq todo
      /\ UNCHANGED <<lv, data, damaged, tagged, tried, below, plan, app>> /\ TypeOK /\ CountTypes
      /\ \/ cur' = NoPath /\ UNCHANGED shows
         \/ cur' = p /\ shows' = [shows EXCEPT ![p] = IF @ = "lv" THEN "below" ELSE @]
  BY DEF Unmount, Turn, IInv, OnlyGone, TypeOK, CountTypes
<1>2. NoLess
  BY <1>1, FaultIsCounted, NothingIsCounted DEF Unmount
<1>3. TypeOK'
  BY <1>1, <1>2 DEF TypeOK, NoLess, CountTypes, plan
<1>4. (NothingMeansNothing /\ OnlyGone /\ BarrierFirst)'
  BY <1>1 DEF IInv, NothingMeansNothing, OnlyGone, Gone, BarrierFirst, plan, TypeOK
<1>5. \A o \in Paths : lv'[o] = "raw" => FailedTwice'
  BY <1>1, <1>2, NoVolumeInWork DEF OnVolume
<1>6. QED
  BY <1>1, <1>3, <1>4, <1>5, QuietIsSafe

\* A volume that is removed belongs to a deleted instance.
LEMMA RemoveDeletedFacts ==
  ASSUME IInv, RemoveDeleted
  PROVE  /\ pc = "reclaim" /\ cur \in Gone /\ shows[cur] # "lv" /\ todo \subseteq Gone
         /\ pc' = "reclaim" /\ cur' = NoPath /\ made' = FALSE /\ todo' = todo \ {cur}
         /\ UNCHANGED <<tried, shows, below, plan, app>>
         /\ \/ app[cur] # "lv" /\ Removed(cur)
            \/ UNCHANGED <<lv, data, tagged, damaged>>
  BY DEF RemoveDeleted, Turn, IInv, OnlyGone

LEMMA RemoveDeletedSafe ==
  ASSUME IInv, RemoveDeleted
  PROVE  IInv'
<1>1. TypeOK /\ CountTypes /\ NothingMeansNothing /\ cur \in Paths
  BY RemoveDeletedFacts DEF IInv, Gone, TypeOK, CountTypes
<1>2. NoLess
  BY <1>1, FaultIsCounted, NothingIsCounted DEF RemoveDeleted
<1>3. /\ NothingMeansNothing' /\ lv' \in [Paths -> {"none", "raw", "xfs"}]
      /\ data' \in [Paths -> BOOLEAN] /\ damaged' \in [Paths -> BOOLEAN]
      /\ tagged' \in [Paths -> BOOLEAN] /\ \A p \in Paths : lv'[p] \in {lv[p], "none"}
  <2>1. CASE app[cur] # "lv" /\ Removed(cur)
    BY <1>1, <2>1, RemoveDeletedFacts, RemovedFacts
  <2>2. CASE UNCHANGED <<lv, data, tagged, damaged>>
    BY <1>1, <2>2, RemoveDeletedFacts DEF NothingMeansNothing, TypeOK
  <2>3. QED
    BY <2>1, <2>2, RemoveDeletedFacts
<1>4. TypeOK'
  BY <1>1, <1>2, <1>3, RemoveDeletedFacts DEF TypeOK, NoLess, CountTypes, plan
<1>5. (OnlyGone /\ BarrierFirst)'
  BY RemoveDeletedFacts DEF OnlyGone, Gone, BarrierFirst, plan
<1>6. \A p \in Paths : lv'[p] = "raw" => FailedTwice'
  BY <1>2, <1>3, RemoveDeletedFacts, NoVolumeInWork DEF OnVolume
<1>7. QED
  BY <1>3, <1>4, <1>5, <1>6, RemoveDeletedFacts, QuietIsSafe

LEMMA EndApplySafe ==
  ASSUME IInv, EndApply
  PROVE  IInv'
<1>1. /\ pc = "reclaim" /\ pc' = "idle" /\ cur' = NoPath /\ made' = FALSE
      /\ UNCHANGED <<host, todo, plan, app, count>> /\ TypeOK /\ CountTypes
  BY DEF EndApply, Turn, IInv, TypeOK, CountTypes
<1>2. TypeOK' /\ NoLess
  BY <1>1, NothingIsCounted DEF TypeOK, host, plan
<1>3. (NothingMeansNothing /\ OnlyGone /\ BarrierFirst)'
  BY <1>1 DEF IInv, NothingMeansNothing, OnlyGone, BarrierFirst, host
<1>4. \A p \in Paths : lv'[p] = "raw" => FailedTwice'
  BY <1>1, <1>2, NoVolumeInWork DEF OnVolume, host
<1>5. QED
  BY <1>1, <1>2, <1>3, <1>4, QuietIsSafe

-----------------------------------------------------------------------------
(* The containers, the operator, and what ends a process.                  *)

LEMMA AppSafe ==
  ASSUME IInv, NEW p \in Paths, App(p)
  PROVE  IInv'
<1>1. /\ UNCHANGED <<lv, damaged, tagged, tried, shows, work, plan, app, count>> /\ TypeOK
      /\ data' = data \/ (app[p] = "lv" /\ data' = [data EXCEPT ![p] = TRUE])
      /\ below' = below \/ (app[p] = "below" /\ below' = [below EXCEPT ![p] = TRUE])
  BY DEF App, AppWrites, IInv
<1>2. TypeOK'
  BY <1>1 DEF TypeOK, work, plan
<1>3. (HasPath /\ OnlyGone /\ Looked /\ BarrierFirst /\ RawIsTreated)'
  BY <1>1 DEF IInv, HasPath, OnlyGone, Gone, Looked, Listed, BarrierFirst, RawIsTreated,
     Failed, FailedTwice, work, plan
<1>4. (NothingMeansNothing /\ NewIsEmpty /\ NothingBelow)'
  <2>1. \A o \in Paths : (data'[o] => data[o] \/ app[o] = "lv")
                      /\ (below'[o] => below[o] \/ app[o] = "below")
    BY <1>1 DEF TypeOK
  <2>2. pc \in OnVolume \/ made => cur \in Paths
    BY DEF IInv, HasPath, TypeOK, OnVolume
  <2>3. QED
    BY <1>1, <2>1, <2>2 DEF IInv, NothingMeansNothing, NewIsEmpty, NothingBelow, OnVolume, work
<1>5. QED
  BY <1>2, <1>3, <1>4 DEF IInv

LEMMA MountForeignSafe ==
  ASSUME IInv, NEW p \in Paths, MountForeign(p)
  PROVE  IInv'
<1>1. /\ pc = "idle" /\ pc' = "idle" /\ made' = FALSE /\ shows' = [shows EXCEPT ![p] = "other"]
      /\ UNCHANGED <<lv, data, damaged, tagged, tried, below, work, plan, app>>
      /\ TypeOK /\ CountTypes
  BY DEF MountForeign, IInv, TypeOK, CountTypes, work
<1>2. NoLess
  BY <1>1, FaultIsCounted DEF MountForeign
<1>3. TypeOK'
  BY <1>1, <1>2 DEF TypeOK, NoLess, CountTypes, work, plan
<1>4. (NothingMeansNothing /\ OnlyGone /\ BarrierFirst)'
  BY <1>1 DEF IInv, NothingMeansNothing, OnlyGone, BarrierFirst, TypeOK
<1>5. \A o \in Paths : lv'[o] = "raw" => FailedTwice'
  BY <1>1, <1>2, NoVolumeInWork DEF OnVolume
<1>6. QED
  BY <1>1, <1>3, <1>4, <1>5, QuietIsSafe

LEMMA KillSafe ==
  ASSUME IInv, Kill
  PROVE  IInv'
<1>1. /\ docker /\ pc' = "idle" /\ cur' = NoPath /\ made' = FALSE /\ todo' = {}
      /\ UNCHANGED <<host, plan, app>> /\ TypeOK /\ CountTypes
  BY DEF Kill, Turn, IInv, TypeOK, CountTypes
<1>2. NoLess /\ FailedTwice'
  BY <1>1, CrashIsCounted DEF Kill
<1>3. TypeOK'
  BY <1>1, <1>2 DEF TypeOK, NoLess, CountTypes, host, plan
<1>4. (NothingMeansNothing /\ OnlyGone /\ BarrierFirst)'
  BY <1>1 DEF IInv, NothingMeansNothing, OnlyGone, BarrierFirst, host
<1>5. QED
  BY <1>1, <1>2, <1>3, <1>4, QuietIsSafe

LEMMA PowerLossSafe ==
  ASSUME IInv, PowerLoss
  PROVE  IInv'
<1>1. /\ pc' = "off" /\ cur' = NoPath /\ made' = FALSE /\ todo' = {} /\ docker' = FALSE
      /\ tried' = {} /\ damaged' \in [Paths -> BOOLEAN] /\ shows' = [p \in Paths |-> "below"]
      /\ app' = [p \in Paths |-> IF app[p] = "none" THEN "none" ELSE "stopped"]
      /\ UNCHANGED <<lv, data, tagged, below, saved, was, inv, sure>> /\ TypeOK /\ CountTypes
  BY DEF PowerLoss, Turn, IInv, TypeOK, CountTypes
<1>2. NoLess /\ FailedTwice'
  BY <1>1, CrashIsCounted DEF PowerLoss
<1>3. TypeOK'
  BY <1>1, <1>2 DEF TypeOK, NoLess, CountTypes
<1>4. (NothingMeansNothing /\ OnlyGone /\ BarrierFirst)'
  BY <1>1 DEF IInv, NothingMeansNothing, OnlyGone, BarrierFirst
<1>5. QED
  BY <1>1, <1>2, <1>3, <1>4, QuietIsSafe

LEMMA StutterSafe ==
  ASSUME IInv, UNCHANGED vars
  PROVE  IInv'
<1> USE DEF IInv, vars, host, work, plan
<1>1. (TypeOK /\ HasPath /\ NothingMeansNothing /\ NewIsEmpty /\ NothingBelow)'
  BY DEF TypeOK, HasPath, NothingMeansNothing, NewIsEmpty, NothingBelow
<1>2. (OnlyGone /\ Looked /\ BarrierFirst /\ RawIsTreated)'
  BY DEF OnlyGone, Gone, Looked, Listed, BarrierFirst, RawIsTreated, Failed, FailedTwice
<1>3. QED
  BY <1>1, <1>2

LEMMA NextIsSafe == IInv /\ [Next]_vars => IInv'
<1> SUFFICES ASSUME IInv, [Next]_vars PROVE IInv'
  OBVIOUS
<1>1. CASE Mounter
  BY <1>1, StartMounterSafe, StartDockerSafe DEF Mounter
<1>2. CASE Apply
  BY <1>2, StartApplySafe, SeedSafe, ComposeSafe, AdoptSafe, RemoveDeletedSafe, EndApplySafe
     DEF Apply
<1>3. CASE Volume
  BY <1>3, CreateVolumeSafe, FormatVolumeSafe, UndoVolumeSafe, MountVolumeSafe, MountCutOffSafe,
     MountRefusedSafe, RepairVolumeSafe, TagVolumeSafe DEF Volume
<1>4. CASE Kill \/ PowerLoss
  BY <1>4, KillSafe, PowerLossSafe
<1>5. CASE \E p \in Paths : Look(p) \/ Unmount(p) \/ App(p) \/ MountForeign(p)
  BY <1>5, LookIsSafe, UnmountSafe, AppSafe, MountForeignSafe
<1>6. CASE UNCHANGED vars
  BY <1>6, StutterSafe
<1>7. QED
  BY <1>1, <1>2, <1>3, <1>4, <1>5, <1>6 DEF Next

-----------------------------------------------------------------------------
(* The steps that remove data, mount a volume, or start a container.       *)

LEMMA DataLost ==
  ASSUME IInv, Next, NEW p \in Paths, data[p], ~data'[p]
  PROVE  Owner[p] \notin saved.instances /\ app[p] # "lv"
<1>1. CASE UndoVolume
  <2>1. cur \in Paths /\ ~data[cur] /\ TypeOK
    BY <1>1, CurrentVolume DEF UndoVolume, At, OnVolume, IInv, NewIsEmpty
  <2>2. QED
    BY <1>1, <2>1 DEF UndoVolume, Removed, TypeOK
<1>2. CASE RemoveDeleted
  BY <1>2, RemoveDeletedFacts DEF Gone, Removed, IInv, TypeOK
<1>3. CASE Seed \/ \E o \in Paths : App(o)
  BY <1>3 DEF Seed, App, AppWrites, IInv, TypeOK
<1>4. CASE \/ Mounter \/ StartApply \/ Compose \/ Adopt \/ EndApply \/ Kill \/ PowerLoss
           \/ \E o \in Paths : Look(o) \/ Unmount(o) \/ MountForeign(o)
  BY <1>4 DEF Mounter, StartMounter, StartDocker, StartApply, Compose, Adopt, EndApply, Kill,
     PowerLoss, Unmount, MountForeign, Look, Skip, LookFails, FoundMounted, FoundForeign,
     FoundFilesOnly, PreserveFallback, FoundConflict, FoundNothing, FoundVolume, host
<1>5. CASE \/ CreateVolume \/ FormatVolume \/ MountVolume \/ MountCutOff \/ MountRefused
           \/ RepairVolume \/ TagVolume
  BY <1>5 DEF CreateVolume, FormatVolume, MountVolume, MountCutOff, MountRefused,
     RepairVolume, TagVolume
<1>6. QED
  BY <1>1, <1>2, <1>3, <1>4, <1>5 DEF Next, Apply, Volume

LEMMA VolumeMounted ==
  ASSUME IInv, Next, NEW p \in Paths, shows[p] = "below", shows'[p] = "lv", below[p]
  PROVE  app[p] = "below"
<1>1. CASE MountVolume \/ MountCutOff
  <2>1. cur \in Paths /\ (below[cur] => app[cur] = "below") /\ TypeOK
    BY <1>1, ExistingVolume DEF MountVolume, MountCutOff, At, OnVolume, IInv, NothingBelow
  <2>2. QED
    BY <1>1, <2>1 DEF MountVolume, MountCutOff, TypeOK
<1>2. CASE \/ TagVolume \/ PowerLoss \/ \E o \in Paths : Unmount(o) \/ MountForeign(o)
  BY <1>2 DEF TagVolume, PowerLoss, Unmount, MountForeign, IInv, TypeOK
<1>3. CASE \/ Mounter \/ Apply \/ Kill \/ \E o \in Paths : Look(o) \/ App(o)
  BY <1>3 DEF Mounter, StartMounter, StartDocker, Apply, StartApply, Seed, Compose, Adopt,
     RemoveDeleted, EndApply, Kill, App, Look, Skip, LookFails, FoundMounted, FoundForeign,
     FoundFilesOnly, PreserveFallback, FoundConflict, FoundNothing, FoundVolume, host
<1>4. CASE CreateVolume \/ FormatVolume \/ UndoVolume \/ MountRefused \/ RepairVolume
  BY <1>4 DEF CreateVolume, FormatVolume, UndoVolume, MountRefused, RepairVolume
<1>5. QED
  BY <1>1, <1>2, <1>3, <1>4 DEF Next, Volume

LEMMA AppStarted ==
  ASSUME IInv, Next, NEW p \in Paths, docker, app[p] # "below", app'[p] = "below"
  PROVE  lv[p] = "none"
<1>1. CASE Compose
  <2>1. p \in Listed(saved) \ todo /\ shows[p] = "below" /\ pc = "next"
    BY <1>1 DEF Compose, Listed
  <2>2. QED
    BY <2>1 DEF IInv, Looked, OnVolume
<1>2. CASE StartDocker \/ PowerLoss
  BY <1>2 DEF StartDocker, PowerLoss
<1>3. CASE \/ StartMounter \/ StartApply \/ Seed \/ Adopt \/ RemoveDeleted \/ EndApply \/ Kill
           \/ \E o \in Paths : Look(o) \/ Unmount(o) \/ App(o) \/ MountForeign(o)
  BY <1>3 DEF StartMounter, StartApply, Seed, Adopt, RemoveDeleted, EndApply, Kill,
     Unmount, App, MountForeign, Look, Skip, LookFails, FoundMounted, FoundForeign,
     FoundFilesOnly, PreserveFallback, FoundConflict, FoundNothing, FoundVolume, plan
<1>4. CASE Volume
  BY <1>4 DEF Volume, CreateVolume, FormatVolume, UndoVolume, MountVolume, MountCutOff,
     MountRefused, RepairVolume, TagVolume
<1>5. QED
  BY <1>1, <1>2, <1>3, <1>4 DEF Next, Mounter, Apply

-----------------------------------------------------------------------------
\* The inductive invariant of the volumes.
THEOREM VolumesInvariant == Spec => []IInv
<1>1. Init => IInv
  BY InitIsSafe
<1>2. IInv /\ [Next]_vars => IInv'
  BY NextIsSafe
<1>3. QED
  BY <1>1, <1>2, PTL DEF Spec

\* Whatever the commands do, every variable keeps its type, and only a
\* volume that is being mounted, tagged or undone counts as created here.
THEOREM VolumeTypes == Spec => []TypeOK
<1>1. IInv => TypeOK
  BY DEF IInv
<1>2. QED
  BY <1>1, VolumesInvariant, PTL

\* For any number of volumes: an unformatted volume that nobody works on
\* takes a kill, or a second failure (_ensure_volume_lv removes what it
\* created when a later command fails).
THEOREM RawVolumesAreTreated == Spec => []OneFailureStrandsNothing
<1>1. IInv => OneFailureStrandsNothing
  BY DEF IInv, RawIsTreated, FailedTwice, OneFailureStrandsNothing
<1>2. QED
  BY <1>1, VolumesInvariant, PTL

\* For any number of volumes, failures, kills and power losses: data is
\* removed only with its instance (_reclaim_deleted_app_data and the clean-up
\* of a new volume are the only callers of lvremove).
THEOREM DataOutlivesFailures == Spec => DataIsKept
<1>1. IInv /\ [Next]_vars =>
        [\A p \in Paths : data[p] /\ ~data'[p]
           => Owner[p] \notin saved.instances /\ app[p] # "lv"]_vars
  BY DataLost
<1>2. QED
  BY <1>1, VolumesInvariant, PTL DEF Spec, DataIsKept

\* For any number of volumes: none is mounted over files of its app.
THEOREM NothingIsHidden == Spec => MountsHideNothing
<1>1. IInv /\ [Next]_vars =>
        [\A p \in Paths :
           shows[p] = "below" /\ shows'[p] = "lv" /\ below[p] => app[p] = "below"]_vars
  BY VolumeMounted
<1>2. QED
  BY <1>1, VolumesInvariant, PTL DEF Spec, MountsHideNothing

\* For any number of apps: an apply that starts a container has looked at
\* its path, and either its volume is there or it has none.
THEOREM AppsSeeTheirVolumes == Spec => NoAppBesideItsVolume
<1>1. IInv /\ [Next]_vars =>
        [\A p \in Paths :
           docker /\ app[p] # "below" /\ app'[p] = "below" => lv[p] = "none"]_vars
  BY AppStarted
<1>2. QED
  BY <1>1, VolumesInvariant, PTL DEF Spec, NoAppBesideItsVolume
=============================================================================
