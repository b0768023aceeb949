------------------------------- MODULE EfiAB -------------------------------
(***************************************************************************)
(* A/B firmware: the EFI variables and the two boot partitions as they     *)
(* are changed by reefy-efi (fix, update, confirm, set-next), and the      *)
(* scripts that run it on a live machine: the storage boot script, the     *)
(* boot confirmation, the boot watchdog, the firmware update and an        *)
(* operator's command.  Every efibootmgr call that writes is one step, so  *)
(* the power may fail, and another script may run, between any two.        *)
(*                                                                         *)
(* The firmware is external: it starts the entry of BootNext once, else    *)
(* the first entry of BootOrder whose partition has an image, else it      *)
(* makes an entry of its own; "efibootmgr -c" takes the lowest free number *)
(* and puts it first in BootOrder, "-B" takes the number out of BootOrder. *)
(***************************************************************************)
EXTENDS Integers, SequencesExt

CONSTANTS
  Good,           \* images on which storage and control can become active
  Bad,            \* images on which they never do
  NoImage,        \* a partition without a bootable file; a machine that is off
  NumCount,       \* how many Boot#### numbers there are
  AnyTime,        \* which of them start on a machine that is not calm
  Budgets         \* bounds on crashes, create faults, updates, commands and
                  \* losses; does the firmware always keep the BootNext it is given

ASSUME EfiABAssumption ==
  /\ NumCount \in Nat \ {0, 1, 2}
  /\ AnyTime \subseteq {"update", "command"}
  /\ Budgets \subseteq [crash : Nat, fault : Nat, update : Nat, command : Nat,
                         loss : Nat, keeps : BOOLEAN]
  /\ \A b, c \in Budgets : b.keeps = c.keeps => b = c
  /\ Good # {} /\ Good \cap Bad = {} /\ NoImage \notin Good \cup Bad

VARIABLES
  image,    \* the image of each partition
  entry,    \* Boot#### entries by number
  order,    \* BootOrder
  next,     \* BootNext
  current,  \* BootCurrent
  mounted,  \* the slot mounted at /mnt/reefy
  running,  \* the image the machine runs
  healthy,  \* reefy-storage and reefy-control are active
  pc,       \* the next step of each script
  mine,     \* the boot numbers a confirmation remembers
  target,   \* INACTIVE_BOOTNUM of the update
  version,  \* the image the update installs
  watchdog, \* reefy-boot-watchdog
  left      \* what is left of the budget

nvram == <<entry, order, next>>
machine == <<current, mounted, running>>
update == <<target, version>>
vars == <<image, nvram, machine, healthy, pc, mine, update, watchdog, left>>

BootNextWorks == left.keeps

Slots == {"a", "b"}
Other(s) == IF s = "a" THEN "b" ELSE "a"
Images == Good \cup Bad
Nums == 0 .. NumCount - 1
NoNum == -1
Absent == [label |-> "none", part |-> "gone"]
Entries == [label : Slots \cup {"auto"}, part : Slots \cup {"gone"}] \cup {Absent}
Scripts == {"storage", "confirm", "update", "operator"}
Steps == {"idle", "over", "start", "poll", "duplicates", "stale", "createA", "createB",
          "order", "count", "newA", "newB", "front", "dropOld", "undo", "stop", "resolve",
          "format", "copy", "next", "verify", "clear", "overwrite", "done"}
Nothing == [old |-> [s \in Slots |-> NoNum], new |-> [s \in Slots |-> NoNum]]

-----------------------------------------------------------------------------
(* What efibootmgr shows. *)

Labelled(s) == {n \in Nums : entry[n].label = s}
Valid(s) == {n \in Labelled(s) : entry[n].part = s}
Duplicates == {n \in Nums : entry[n].label = "auto" /\ entry[n].part \in Slots}
Stale == UNION {Labelled(s) \ Valid(s) : s \in Slots}
NumberOf(s) == IF Labelled(s) = {} THEN NoNum ELSE Min(Labelled(s))
Default == IF order = <<>> THEN NoNum ELSE Head(order)
InOrder(n) == \E i \in DOMAIN order : order[i] = n
Without(n) ==
  IF InOrder(n) THEN RemoveAt(order, CHOOSE i \in DOMAIN order : order[i] = n) ELSE order
Free == {n \in Nums : entry[n] = Absent}

RunsDefault == Default # NoNum /\ entry[Default].part = mounted

(* What the firmware starts. *)
Bootable(n) == n \in Nums /\ entry[n].part \in Slots /\ image[entry[n].part] # NoImage
FirstInOrder ==
  LET places == {i \in DOMAIN order : Bootable(order[i])}
  IN IF places = {} THEN NoNum ELSE order[Min(places)]
Selected == IF Bootable(next) THEN next ELSE FirstInOrder

(* What efibootmgr writes. *)
Create(s) ==
  /\ Free # {}
  /\ entry' = [entry EXCEPT ![Min(Free)] = [label |-> s, part |-> s]]
  /\ order' = <<Min(Free)>> \o order
Delete(n) ==
  /\ entry' = [entry EXCEPT ![n] = Absent]
  /\ order' = Without(n)

(* A write may fail, and a creation does when every number is taken. *)
Spend(what) == left[what] > 0 /\ left' = [left EXCEPT ![what] = @ - 1]
CreateFails == IF Free = {} THEN UNCHANGED left ELSE Spend("fault")

Goto(t, l) == pc' = [pc EXCEPT ![t] = l]

-----------------------------------------------------------------------------
(* A machine that is off: its entries and a duplicate the firmware added,  *)
(* or those of another disk and the entry the firmware made for this one.  *)
(* A new disk has the same image in both partitions; an interrupted update *)
(* leaves one without.                                                     *)
Known(own) ==
  [n \in Nums |-> CASE n = 0 -> [label |-> "a", part |-> IF own THEN "a" ELSE "gone"]
                    [] n = 1 -> [label |-> "b", part |-> IF own THEN "b" ELSE "gone"]
                    [] n = 2 -> [label |-> "auto", part |-> "a"]
                    [] OTHER -> Absent]

Init ==
  /\ \E g \in Good, other \in Good \cup {NoImage}, own \in BOOLEAN :
       /\ image = [s \in Slots |-> IF s = "a" THEN g ELSE other]
       /\ entry = Known(own)
       /\ ~own => other = g
  /\ order = <<0, 1, 2>>
  /\ next = NoNum /\ current = NoNum
  /\ mounted = "none" /\ running = NoImage /\ healthy = FALSE
  /\ pc = [t \in Scripts |-> "idle"]
  /\ mine = Nothing /\ target = NoNum /\ version = NoImage
  /\ watchdog = "off"
  /\ left \in Budgets

TypeOK ==
  /\ image \in [Slots -> Images \cup {NoImage}]
  /\ entry \in [Nums -> Entries]
  /\ order \in Seq(Nums) /\ IsInjective(order)
  /\ next \in Nums \cup {NoNum} /\ current \in Nums \cup {NoNum}
  /\ mounted \in Slots \cup {"none"} /\ running \in Images \cup {NoImage}
  /\ healthy \in BOOLEAN
  /\ pc \in [Scripts -> Steps]
  /\ mine \in [old : [Slots -> Nums \cup {NoNum}], new : [Slots -> Nums \cup {NoNum}]]
  /\ target \in Nums \cup {NoNum} /\ version \in Images \cup {NoImage}
  /\ watchdog \in {"off", "start", "armed", "stopped"}
  /\ left \in [crash : Nat, fault : Nat, update : Nat, command : Nat, loss : Nat, keeps : BOOLEAN]

-----------------------------------------------------------------------------
(* The machine. *)

(* The firmware starts entry n; the storage script mounts its slot.  *)
StartWith(n) ==
  /\ current' = n
  /\ mounted' = entry'[n].part
  /\ running' = image[entry'[n].part]
  /\ next' = NoNum
  /\ pc' = [pc EXCEPT !["storage"] = "duplicates", !["confirm"] = "start"]
  /\ watchdog' = "start"
  /\ UNCHANGED <<image, healthy, mine, update, left>>

Boot ==
  /\ running = NoImage
  /\ Selected # NoNum
  /\ UNCHANGED <<entry, order>>
  /\ StartWith(Selected)

(* No entry leads to an image: the firmware finds one by itself. *)
BootUnlisted ==
  /\ running = NoImage /\ Selected = NoNum /\ Free # {}
  /\ \E s \in Slots :
       /\ image[s] # NoImage
       /\ entry' = [entry EXCEPT ![Min(Free)] = [label |-> "auto", part |-> s]]
       /\ order' \in {<<Min(Free)>> \o order, Append(order, Min(Free))}
       /\ StartWith(Min(Free))

(* Everything but the partitions and the EFI variables is lost. *)
Halt ==
  /\ running # NoImage
  /\ running' = NoImage /\ current' = NoNum /\ mounted' = "none" /\ healthy' = FALSE
  /\ pc' = [t \in Scripts |-> "idle"]
  /\ mine' = Nothing /\ target' = NoNum /\ version' = NoImage
  /\ watchdog' = "off"
  /\ UNCHANGED <<image, nvram>>

PowerFails == Halt /\ Spend("crash")

(* The machine loses its EFI variables, or the disk moves to another one. *)
NvramLost ==
  /\ running = NoImage
  /\ Spend("loss")
  /\ entry' = [n \in Nums |-> Absent] /\ order' = <<>> /\ next' = NoNum
  /\ UNCHANGED <<image, machine, healthy, pc, mine, update, watchdog>>

BecomeHealthy ==
  /\ running \in Good /\ pc["storage"] = "over" /\ ~healthy
  /\ healthy' = TRUE
  /\ UNCHANGED <<image, nvram, machine, pc, mine, update, watchdog, left>>

-----------------------------------------------------------------------------
(* fix_entries, run by script t. *)

AfterFix(t) == CASE t = "storage" -> "over" [] t = "confirm" -> "count"
                 [] t = "update" -> "resolve" [] OTHER -> "next"
FixFrame == UNCHANGED <<image, next, machine, healthy, mine, update, watchdog>>

RemoveDuplicate(t) ==
  /\ pc[t] = "duplicates"
  /\ IF Duplicates # {}
     THEN Delete(Min(Duplicates)) /\ UNCHANGED pc
     ELSE Goto(t, "stale") /\ UNCHANGED <<entry, order>>
  /\ FixFrame /\ UNCHANGED left

RemoveStale(t) ==
  /\ pc[t] = "stale"
  /\ IF Stale # {}
     THEN Delete(Min(Stale)) /\ UNCHANGED pc
     ELSE Goto(t, "createA") /\ UNCHANGED <<entry, order>>
  /\ FixFrame /\ UNCHANGED left

CreateMissing(t, s) ==
  /\ pc[t] = (IF s = "a" THEN "createA" ELSE "createB")
  /\ Goto(t, IF s = "a" THEN "createB" ELSE "order")
  /\ \/ Labelled(s) # {} /\ UNCHANGED <<entry, order, left>>
     \/ Labelled(s) = {} /\ Create(s) /\ UNCHANGED left
     \/ Labelled(s) = {} /\ CreateFails /\ UNCHANGED <<entry, order>>
  /\ FixFrame

FixOrder(t) ==
  /\ pc[t] = "order"
  /\ Goto(t, AfterFix(t))
  /\ LET first == NumberOf("a")
         second == NumberOf("b")
     IN order' = IF NoNum \in {first, second} \/ Default \in {first, second}
                 THEN order ELSE <<first, second>>
  /\ UNCHANGED <<entry, left>> /\ FixFrame

FixEntries(t) ==
  \/ RemoveDuplicate(t) \/ RemoveStale(t)
  \/ \E s \in Slots : CreateMissing(t, s)
  \/ FixOrder(t)

-----------------------------------------------------------------------------
(* reefy-boot-confirm, and the confirm command it runs. *)

ConfirmFrame == UNCHANGED <<image, next, machine, healthy, update>>
KeepEntries == UNCHANGED <<entry, order>>

(* Is this boot a trial?  The answer is read once, when the unit starts. *)
CheckTrial ==
  /\ pc["confirm"] = "start"
  /\ Goto("confirm", IF current = Default THEN "over" ELSE "poll")
  /\ KeepEntries /\ ConfirmFrame /\ UNCHANGED <<mine, watchdog, left>>

(* A critical service failed, or is not active after 300 seconds. *)
GiveUp ==
  /\ pc["confirm"] = "poll" /\ ~healthy
  /\ Goto("confirm", "over")
  /\ KeepEntries /\ ConfirmFrame /\ UNCHANGED <<mine, watchdog, left>>

(* Mutant of RunConfirm: services that are not failed count as active. *)
RunConfirmNotFailed ==
  /\ pc["confirm"] = "poll"
  /\ Goto("confirm", IF current = Default THEN "stop" ELSE "duplicates")
  /\ KeepEntries /\ ConfirmFrame /\ UNCHANGED <<mine, watchdog, left>>

RunConfirm ==
  /\ pc["confirm"] = "poll" /\ healthy
  /\ Goto("confirm", IF current = Default THEN "stop" ELSE "duplicates")
  /\ KeepEntries /\ ConfirmFrame /\ UNCHANGED <<mine, watchdog, left>>

(* Exactly one valid entry per slot, or the command dies. *)
CountOld ==
  /\ pc["confirm"] = "count"
  /\ IF \A s \in Slots : Cardinality(Valid(s)) = 1
     THEN /\ mine' = [mine EXCEPT !.old = [s \in Slots |-> Min(Valid(s))]]
          /\ Goto("confirm", "newA")
     ELSE Goto("confirm", "stop") /\ UNCHANGED mine
  /\ KeepEntries /\ ConfirmFrame /\ UNCHANGED <<watchdog, left>>

CreateFresh(s) ==
  /\ pc["confirm"] = (IF s = "a" THEN "newA" ELSE "newB")
  /\ \/ /\ Create(s)
        /\ mine' = [mine EXCEPT !.new[s] = Min(Free)]
        /\ Goto("confirm", IF s = "a" THEN "newB" ELSE "front")
        /\ UNCHANGED left
     \/ /\ CreateFails
        /\ Goto("confirm", "undo")
        /\ KeepEntries /\ UNCHANGED mine
  /\ ConfirmFrame /\ UNCHANGED watchdog

(* Mutant of SetOrder: the new active entry twice. *)
SetOrderTwice ==
  /\ pc["confirm"] = "front"
  /\ order' = <<mine.new[mounted], mine.new[mounted]>>
  /\ Goto("confirm", "dropOld")
  /\ ConfirmFrame /\ UNCHANGED <<entry, mine, watchdog, left>>

(* Mutant of SetOrder: slot A first, whichever slot runs. *)
SetOrderAB ==
  /\ pc["confirm"] = "front"
  /\ order' = <<mine.new["a"], mine.new["b"]>>
  /\ Goto("confirm", "dropOld")
  /\ ConfirmFrame /\ UNCHANGED <<entry, mine, watchdog, left>>

(* BootOrder := the new pair, the slot this machine runs first. *)
SetOrder ==
  /\ pc["confirm"] = "front"
  /\ \/ /\ order' = <<mine.new[mounted], mine.new[Other(mounted)]>>
        /\ Goto("confirm", "dropOld")
        /\ UNCHANGED left
     \/ /\ Spend("fault")
        /\ Goto("confirm", "undo")
        /\ UNCHANGED order
  /\ ConfirmFrame /\ UNCHANGED <<entry, mine, watchdog>>

(* Delete a remembered pair entry by entry; then the command is over. *)
DropPair(step, which) ==
  LET remaining == {mine[which][s] : s \in Slots} \ (Free \cup {NoNum}) IN
  /\ pc["confirm"] = step
  /\ IF remaining # {}
     THEN Delete(Min(remaining)) /\ UNCHANGED pc
     ELSE Goto("confirm", "stop") /\ KeepEntries
  /\ ConfirmFrame /\ UNCHANGED <<mine, watchdog, left>>
DropOld == DropPair("dropOld", "old")
Undo == DropPair("undo", "new")

(* The script has no errexit: whatever the command did, it goes on here. *)
StopWatchdog ==
  /\ pc["confirm"] = "stop"
  /\ watchdog' = "stopped"
  /\ Goto("confirm", "over")
  /\ KeepEntries /\ ConfirmFrame /\ UNCHANGED <<mine, left>>

Confirm ==
  \/ CheckTrial \/ GiveUp \/ RunConfirm \/ FixEntries("confirm") \/ CountOld
  \/ \E s \in Slots : CreateFresh(s)
  \/ SetOrder \/ DropOld \/ Undo \/ StopWatchdog

-----------------------------------------------------------------------------
(* reefy-boot-watchdog. *)

(* Mutant of WatchdogStarts: the test for a trial is inverted. *)
WatchdogStartsInverted ==
  /\ watchdog = "start"
  /\ watchdog' = IF current # Default THEN "off" ELSE "armed"
  /\ UNCHANGED <<image, nvram, machine, healthy, pc, mine, update, left>>

WatchdogStarts ==
  /\ watchdog = "start"
  /\ watchdog' = IF current = Default THEN "off" ELSE "armed"
  /\ UNCHANGED <<image, nvram, machine, healthy, pc, mine, update, left>>

(* 360 seconds are longer than the confirmation's 300: it has ended.  A    *)
(* slower one that is cut off is a power failure here.                     *)
WatchdogReboots ==
  /\ watchdog = "armed" /\ pc["confirm"] = "over"
  /\ Halt /\ UNCHANGED left

-----------------------------------------------------------------------------
(* On a calm machine no script runs, the confirmation has ended, and the   *)
(* slot that runs is the first of BootOrder.  The code does not ask.       *)
Calm ==
  /\ RunsDefault /\ \A t \in {"storage", "confirm"} : pc[t] = "over"
  /\ \A t \in {"update", "operator"} : pc[t] = "idle"
MayStart(what) == what \in AnyTime \/ Calm

(* reefy-efi update, started by the control process. *)

UpdateFrame == UNCHANGED <<entry, order, machine, healthy, mine, watchdog>>
KeepTarget == UNCHANGED <<update, left>>

StartUpdate ==
  /\ pc["update"] = "idle" /\ healthy
  /\ MayStart("update")
  /\ Spend("update")
  /\ \E v \in Images : version' = v
  /\ Goto("update", "duplicates")
  /\ UpdateFrame /\ UNCHANGED <<image, next, target>>

ResolveTarget ==
  /\ pc["update"] = "resolve"
  /\ target' = NumberOf(Other(mounted))
  /\ Goto("update", IF target' = NoNum THEN "idle" ELSE "format")
  /\ UpdateFrame /\ UNCHANGED <<image, next, version, left>>

FormatInactive ==
  /\ pc["update"] = "format"
  /\ image' = [image EXCEPT ![Other(mounted)] = NoImage]
  /\ Goto("update", "copy")
  /\ UpdateFrame /\ KeepTarget /\ UNCHANGED next

CopyInactive ==
  /\ pc["update"] = "copy"
  /\ image' = [image EXCEPT ![Other(mounted)] = version]
  /\ Goto("update", "next")
  /\ UpdateFrame /\ KeepTarget /\ UNCHANGED next

(* "-n" with a number that is gone fails, and errexit ends the update. *)
WriteBootNext(n) == next' = n \/ (~BootNextWorks /\ UNCHANGED next)
SetBootNext ==
  /\ pc["update"] = "next"
  /\ IF target \in Free
     THEN Goto("update", "idle") /\ UNCHANGED next
     ELSE WriteBootNext(target) /\ Goto("update", "verify")
  /\ UpdateFrame /\ KeepTarget /\ UNCHANGED image

(* Mutant of VerifyBootNext: efibootmgr's exit status is trusted. *)
VerifyBootNextNot ==
  /\ pc["update"] = "verify"
  /\ Goto("update", "done")
  /\ UpdateFrame /\ KeepTarget /\ UNCHANGED <<image, next>>

VerifyBootNext ==
  /\ pc["update"] = "verify"
  /\ Goto("update", IF next = target THEN "done" ELSE "clear")
  /\ UpdateFrame /\ KeepTarget /\ UNCHANGED <<image, next>>

(* BootNext is not kept: clear it and overwrite the active slot as well.   *)
ClearBootNext ==
  /\ pc["update"] = "clear"
  /\ next' = NoNum
  /\ image' = [image EXCEPT ![mounted] = NoImage]
  /\ Goto("update", "overwrite")
  /\ UpdateFrame /\ KeepTarget

OverwriteActive ==
  /\ pc["update"] = "overwrite"
  /\ image' = [image EXCEPT ![mounted] = version]
  /\ Goto("update", "done")
  /\ UpdateFrame /\ KeepTarget /\ UNCHANGED next

RebootUpdated == pc["update"] = "done" /\ Halt /\ UNCHANGED left

Update ==
  \/ FixEntries("update") \/ ResolveTarget \/ FormatInactive \/ CopyInactive
  \/ SetBootNext \/ VerifyBootNext \/ ClearBootNext \/ OverwriteActive
  \/ RebootUpdated

-----------------------------------------------------------------------------
(* An operator's "reefy-efi fix" or "reefy-efi set-next". *)

OperatorStarts ==
  /\ pc["operator"] = "idle" /\ running # NoImage
  /\ MayStart("command")
  /\ Spend("command")
  /\ Goto("operator", "duplicates")
  /\ UNCHANGED <<image, nvram, machine, healthy, mine, update, watchdog>>

OperatorEnds ==
  /\ pc["operator"] = "next"
  /\ Goto("operator", "idle")
  /\ \/ UNCHANGED next
     \/ \E s \in Slots : NumberOf(s) # NoNum /\ WriteBootNext(NumberOf(s))
  /\ UNCHANGED <<image, entry, order, machine, healthy, mine, update, watchdog, left>>

Operator == OperatorStarts \/ FixEntries("operator") \/ OperatorEnds

-----------------------------------------------------------------------------
Next ==
  \/ Boot \/ BootUnlisted \/ PowerFails \/ NvramLost \/ BecomeHealthy
  \/ FixEntries("storage") \/ Confirm
  \/ WatchdogStarts \/ WatchdogReboots
  \/ StartUpdate \/ Update
  \/ Operator

Spec == Init /\ [][Next]_vars

(* The machine is switched on, its units start, and a script that runs     *)
(* ends; nobody has to send an update or a command, and nothing has to be  *)
(* healthy.                                                                *)
Fairness ==
  /\ WF_vars(Boot \/ BootUnlisted)
  /\ WF_vars(FixEntries("storage"))
  /\ WF_vars(Confirm)
  /\ WF_vars(WatchdogStarts) /\ WF_vars(WatchdogReboots)
  /\ WF_vars(Update)
  /\ WF_vars(FixEntries("operator") \/ OperatorEnds)
FairSpec == Spec /\ Fairness

-----------------------------------------------------------------------------
(* Properties. *)

(* The rollback target is sound, on firmware that keeps what it is told    *)
(* (else the active slot is overwritten for good): wherever the power      *)
(* fails in a repair, an update, a confirmation or its clean-up, the entry *)
(* that BootOrder leads to starts an image that can become healthy.        *)
KnownGoodDefault ==
  BootNextWorks /\ FirstInOrder # NoNum => image[entry[FirstInOrder].part] \in Good

(* An update that reported success is what the machine starts next, from   *)
(* BootNext or, when the firmware does not keep BootNext, from the         *)
(* partition that was overwritten.                                         *)
CompletedUpdateBootsNext ==
  pc["update"] = "done" => /\ Selected # NoNum
                           /\ image[entry[Selected].part] = version

(* On such firmware a bad image is not run for good: the watchdog returns  *)
(* the machine to a good one, whatever fails meanwhile.                    *)
BadBootIsLeft == BootNextWorks /\ running \in Bad ~> running \in Good

(* As long as power was never lost and no creation failed, a trial boot    *)
(* that became healthy while its confirmation was waiting ends with the    *)
(* slot it runs as the default.                                            *)
NothingFailed ==
  \E b \in Budgets : b.keeps = left.keeps /\ b.crash = left.crash /\ b.fault = left.fault
HealthyTrialIsCommitted ==
  pc["confirm"] = "poll" /\ healthy /\ NothingFailed
    ~> (pc["confirm"] = "over" /\ RunsDefault) \/ ~NothingFailed

(* "Stop the watchdog - boot is confirmed": a boot whose watchdog was      *)
(* stopped runs the default slot.                                          *)
StoppedMeansConfirmed ==
  watchdog = "stopped" => RunsDefault
=============================================================================
