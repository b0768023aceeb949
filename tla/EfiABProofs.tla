---------------------------- MODULE EfiABProofs ----------------------------
(***************************************************************************)
(* The safety of the A/B firmware scripts on a calm machine, for any       *)
(* images, any number of boot numbers, and any number of power failures,   *)
(* updates and commands.                                                   *)
(***************************************************************************)
EXTENDS EfiAB, FiniteSetTheorems, SequenceTheorems, WellFoundedInduction, TLAPS

\* Updates and commands start only on a machine that is calm.
CalmStarts == AnyTime = {}

\* Firmware that keeps a BootNext also keeps its variables, and no creation
\* fails on it while a number is free.
ReliableFirmware == \A b \in Budgets : b.keeps => b.fault = 0 /\ b.loss = 0

FixSteps == {"duplicates", "stale", "createA", "createB", "order"}
Fresh == {"newA", "newB", "front", "dropOld", "undo"}
Waiting == {"idle", "start", "poll"}
Targeted == {"format", "copy", "next", "verify", "clear", "overwrite", "done"}
On == running # NoImage

-----------------------------------------------------------------------------
\* Any machine.

\* A machine that is off runs nothing; one that is on has mounted a slot.
Power ==
  /\ ~On => ~healthy /\ (\A t \in Scripts : pc[t] = "idle")
  /\ On => mounted \in Slots

\* BootOrder lists entries that are there.
Listed == \A n \in Nums : InOrder(n) => entry[n] # Absent

\* The entries a confirmation has created.
Created ==
  /\ pc["confirm"] \in {"newB", "front"} => mine.new["a"] \in Valid("a")
  /\ pc["confirm"] = "front" => mine.new["b"] \in Valid("b")

NvramOK ==
  /\ entry \in [Nums -> Entries]
  /\ order \in Seq(Nums) /\ IsInjective(order)
  /\ Listed

TypesInv == TypeOK /\ NvramOK /\ Power /\ Created

-----------------------------------------------------------------------------
\* A calm machine.

\* While the storage script works or a confirmation does, nothing else
\* writes EFI variables; an update or a command is alone.
Alone ==
  /\ pc["storage"] # "over" =>
       ~healthy /\ pc["confirm"] \in Waiting \cup {"over"}
  /\ \A t \in {"update", "operator"} : pc[t] # "idle" =>
       /\ pc["storage"] = "over" /\ pc["confirm"] = "over"
       /\ \A u \in {"update", "operator"} \ {t} : pc[u] = "idle"

\* What the entries look like, and what the storage script has cleaned up.
Written ==
  \A n \in Nums :
    \/ entry[n] = Absent
    \/ entry[n].label = "auto" /\ entry[n].part \in Slots
    \/ entry[n].label \in Slots /\ entry[n].part \in {entry[n].label, "gone"}
Cleaned ==
  /\ pc["storage"] \notin {"idle", "duplicates"} => Duplicates = {}
  /\ pc["storage"] \notin {"idle", "duplicates", "stale"} => Stale = {}

\* An update knows the entry it will start, and what it wrote.
Updating ==
  /\ pc["update"] # "idle" => order # <<>> /\ version \in Images
  /\ pc["update"] \in Targeted => target \in Valid(Other(mounted))
  /\ pc["update"] \in {"next", "verify", "clear", "overwrite", "done"} =>
       image[Other(mounted)] = version
  /\ pc["update"] = "overwrite" => next = NoNum
  /\ pc["update"] = "done" =>
       next = target \/ (next = NoNum /\ image[mounted] = version)

CalmInv == Alone /\ Written /\ Cleaned /\ Updating

-----------------------------------------------------------------------------
\* The default, on firmware that keeps what it is told.

Whole == \A s \in Slots : Valid(s) # {}
BothGood == \A s \in Slots : image[s] \in Good
Minima == {NumberOf(s) : s \in Slots}

\* A disk that is new to this machine: its entries are not all there yet.
NewDisk ==
  /\ BothGood /\ next = NoNum
  /\ \A s \in Slots : \A m, n \in Labelled(s) : m = n
  /\ pc["storage"] \notin {"order", "over"}
  /\ pc["storage"] = "createB" => Labelled("a") # {}

\* The first of BootOrder starts a good image; unless both images are good it
\* is the entry every script finds by its label, and so is what runs.
GoodHead == \E s \in Slots : Default \in Valid(s) /\ image[s] \in Good
Settled ==
  \/ BothGood
  \/ /\ Default \in Minima
     /\ On /\ pc["confirm"] \in Waiting => current = NumberOf(mounted)
OldDisk ==
  /\ Stale = {} /\ GoodHead /\ Settled
  /\ pc["storage"] = "over" /\ pc["confirm"] \notin Fresh => Default \in Minima
  /\ next # NoNum => next \in Minima
  /\ On /\ ~(pc["storage"] = "over" /\ pc["confirm"] = "over") => next = NoNum

\* What runs is what its partition holds; a confirmation works on two good
\* images, an update on the slot that is not the default.
Runs ==
  /\ On => image[mounted] = running
  /\ healthy => running \in Good
  /\ pc["confirm"] \notin Waiting \cup {"over", "stop"} => BothGood
  /\ pc["update"] # "idle" => RunsDefault
  /\ pc["update"] \in Targeted => target = NumberOf(Other(mounted))
  /\ pc["update"] = "verify" => next = target
  /\ pc["update"] \notin {"clear", "overwrite"}

\* What a confirmation remembers.
Remembers ==
  /\ pc["confirm"] \in Waiting \cup FixSteps \cup {"count", "newA"} =>
       \A s \in Slots : mine.new[s] = NoNum
  /\ pc["confirm"] = "newB" => mine.new["b"] = NoNum
  /\ pc["confirm"] \in Fresh =>
       /\ \A s \in Slots : Labelled(s) \subseteq {mine.old[s], mine.new[s]}
       /\ \A s, t \in Slots : mine.old[s] # mine.new[t]
  /\ pc["confirm"] \in Fresh \ {"dropOld"} =>
       /\ \A s \in Slots : mine.old[s] \in Valid(s)
       /\ \E s \in Slots : InOrder(mine.old[s])
  /\ pc["confirm"] = "dropOld" =>
       /\ \A s \in Slots : mine.new[s] \in Valid(s)
       /\ \A n \in Nums : InOrder(n) => \E s \in Slots : n = mine.new[s]

Disk == IF Whole THEN OldDisk ELSE NewDisk
Reliable == left.fault = 0 /\ left.loss = 0
KeepsInv == Reliable /\ Disk /\ Runs /\ Remembers

IInv == TypesInv /\ CalmInv /\ (BootNextWorks => KeepsInv)

-----------------------------------------------------------------------------
(* Numbers.                                                                *)

\* The lowest of some boot numbers is one of them.
LEMMA MinIsIn ==
  ASSUME NEW S \in SUBSET Nat, S # {}
  PROVE  Min(S) \in S /\ \A y \in S : Min(S) <= y
<1> DEFINE less == {p \in Nat \X Nat : p[1] < p[2]}
<1>1. less = OpToRel(<, Nat)
  BY Zenon DEF OpToRel
<1>4. IsWellFoundedOn(less, Nat)
  BY <1>1, NatLessThanWellFounded, Zenon
<1> HIDE DEF less
<1>2. PICK x \in S : \A y \in S : <<y, x>> \notin less
  BY <1>4, WFMin, Zenon
<1> USE DEF less
<1>3. ASSUME NEW y \in S
      PROVE  x <= y
  <2>1. x \in Nat /\ y \in Nat /\ <<y, x>> \notin less
    BY <1>2
  <2>2. ~(y < x)
    BY <2>1
  <2> QED BY <2>1, <2>2
<1> QED BY <1>3 DEF Min

LEMMA LowestNumber ==
  ASSUME NEW S \in SUBSET Nums, S # {}, NumCount \in Nat
  PROVE  Min(S) \in S /\ Min(S) \in Nums
<1>1. Nums \subseteq Nat
  BY DEF Nums
<1> QED BY <1>1, MinIsIn

-----------------------------------------------------------------------------
(* BootOrder.                                                              *)

\* efibootmgr -B takes a number out of BootOrder (reefy-efi, fix_entries and
\* commit_current_slot_with_fresh_entries) and leaves the others in their order.
LEMMA WithoutOne ==
  ASSUME order \in Seq(Nums), IsInjective(order), NEW n,
         order' = Without(n)
  PROVE  /\ order' \in Seq(Nums)
         /\ IsInjective(order')
         /\ \A m : InOrder(m)' <=> InOrder(m) /\ m # n
         /\ order # <<>> /\ Default # n => order' # <<>> /\ Default' = Default
<1>1. CASE ~InOrder(n)
  BY <1>1 DEF Without, InOrder, Default
<1>2. CASE InOrder(n)
  <2> DEFINE k == CHOOSE i \in DOMAIN order : order[i] = n
             before == SubSeq(order, 1, k - 1)
             after == SubSeq(order, k + 1, Len(order))
  <2>1. k \in 1 .. Len(order) /\ order[k] = n
    BY <1>2 DEF InOrder
  <2>2. \A i \in 1 .. Len(order) : order[i] \in Nums
    OBVIOUS
  <2>3. order' = before \o after
    BY <1>2 DEF Without, RemoveAt
  <2> HIDE DEF k
  <2>4. /\ before \in Seq(Nums) /\ Len(before) = k - 1
        /\ \A i \in 1 .. k - 1 : before[i] = order[i]
    <3>1. \A i \in 1 .. k - 1 : order[i] \in Nums
      BY <2>1, <2>2
    <3>2. 1 \in Int /\ k - 1 \in Int
      BY <2>1
    <3>3. /\ before \in Seq(Nums)
          /\ Len(before) = IF 1 <= k - 1 THEN (k - 1) - 1 + 1 ELSE 0
          /\ \A i \in 1 .. (k - 1) - 1 + 1 : before[i] = order[1 + i - 1]
      BY <3>1, <3>2, SubSeqProperties
    <3> QED BY <3>3, <2>1
  <2>5. /\ after \in Seq(Nums) /\ Len(after) = Len(order) - k
        /\ \A i \in 1 .. Len(order) - k : after[i] = order[k + i]
    <3>1. \A i \in k + 1 .. Len(order) : order[i] \in Nums
      BY <2>1, <2>2
    <3>2. k + 1 \in Int /\ Len(order) \in Int
      BY <2>1
    <3>3. /\ after \in Seq(Nums)
          /\ Len(after) = IF k + 1 <= Len(order) THEN Len(order) - (k + 1) + 1 ELSE 0
          /\ \A i \in 1 .. Len(order) - (k + 1) + 1 : after[i] = order[(k + 1) + i - 1]
      BY <3>1, <3>2, SubSeqProperties
    <3> QED BY <3>3, <2>1
  <2> HIDE DEF before, after
  <2>6. /\ order' \in Seq(Nums) /\ Len(order') = Len(order) - 1
        /\ \A i \in 1 .. Len(order) - 1 :
             order'[i] = IF i < k THEN order[i] ELSE order[i + 1]
    <3>1. /\ order' \in Seq(Nums)
          /\ Len(order') = Len(before) + Len(after)
          /\ \A i \in 1 .. Len(before) + Len(after) :
               order'[i] = IF i <= Len(before) THEN before[i] ELSE after[i - Len(before)]
      <4>1. /\ before \o after \in Seq(Nums)
            /\ Len(before \o after) = Len(before) + Len(after)
            /\ \A i \in 1 .. Len(before) + Len(after) :
                 (before \o after)[i] =
                   IF i <= Len(before) THEN before[i] ELSE after[i - Len(before)]
        BY <2>4, <2>5, ConcatProperties
      <4> QED BY <4>1, <2>3
    <3>2. ASSUME NEW i \in 1 .. Len(order) - 1
          PROVE  order'[i] = IF i < k THEN order[i] ELSE order[i + 1]
      <4>1. CASE i < k
        <5>1. i \in 1 .. k - 1 /\ i \in 1 .. Len(before) + Len(after) /\ i <= Len(before)
          BY <4>1, <2>1, <2>4, <2>5
        <5> QED BY <4>1, <5>1, <3>1, <2>4
      <4>2. CASE ~(i < k)
        <5>1. i - (k - 1) \in 1 .. Len(order) - k
          BY <4>2, <2>1
        <5>2. after[i - (k - 1)] = order[i + 1]
          BY <5>1, <2>1, <2>5
        <5>3. i \in 1 .. Len(before) + Len(after) /\ ~(i <= Len(before))
          <6>1. Len(before) = k - 1 /\ Len(after) = Len(order) - k
            BY <2>4, <2>5
          <6>2. i \in 1 .. (k - 1) + (Len(order) - k) /\ ~(i <= k - 1)
            BY <4>2, <2>1
          <6> QED BY <6>1, <6>2
        <5>4. order'[i] = after[i - Len(before)]
          BY <5>3, <3>1
        <5> QED BY <4>2, <5>2, <5>4, <2>4
      <4> QED BY <4>1, <4>2
    <3> QED BY <3>1, <3>2, <2>1, <2>4, <2>5
  <2>7. IsInjective(order')
    <3>1. ASSUME NEW i \in 1 .. Len(order) - 1, NEW j \in 1 .. Len(order) - 1,
                 order'[i] = order'[j]
          PROVE  i = j
      <4> DEFINE at(h) == IF h < k THEN h ELSE h + 1
      <4>1. at(i) \in 1 .. Len(order) /\ at(j) \in 1 .. Len(order)
        BY <2>1
      <4>2. order[at(i)] = order[at(j)]
        BY <3>1, <2>6
      <4>3. at(i) = at(j)
        BY <4>1, <4>2 DEF IsInjective
      <4> QED BY <4>3, <2>1
    <3> QED BY <3>1, <2>6 DEF IsInjective
  <2>8. ASSUME NEW m, InOrder(m)'
        PROVE  InOrder(m) /\ m # n
    <3>1. PICK i \in 1 .. Len(order) - 1 : order'[i] = m
      BY <2>6, <2>8 DEF InOrder
    <3> DEFINE at == IF i < k THEN i ELSE i + 1
    <3>2. at \in 1 .. Len(order) /\ at # k /\ order[at] = m
      BY <3>1, <2>1, <2>6
    <3> QED BY <3>2, <2>1 DEF IsInjective, InOrder
  <2>9. ASSUME NEW m, InOrder(m), m # n
        PROVE  InOrder(m)'
    <3>1. PICK i \in 1 .. Len(order) : order[i] = m
      BY <2>9 DEF InOrder
    <3> DEFINE at == IF i < k THEN i ELSE i - 1
    <3>2. at \in 1 .. Len(order) - 1 /\ order'[at] = m
      BY <3>1, <2>9, <2>1, <2>6
    <3> QED BY <3>2, <2>6 DEF InOrder
  <2>10. ASSUME order # <<>>, Default # n
         PROVE  order' # <<>> /\ Default' = Default
    <3>1. k > 1 /\ Len(order) > 1
      BY <2>1, <2>10 DEF Default
    <3>2. Len(order') > 0 /\ order'[1] = order[1]
      BY <3>1, <2>1, <2>6
    <3> QED BY <3>2, <2>6, <2>10 DEF Default
  <2> QED BY <2>6, <2>7, <2>8, <2>9, <2>10
<1> QED BY <1>1, <1>2

\* efibootmgr -c puts the number it takes first in BootOrder.
LEMMA OneInFront ==
  ASSUME order \in Seq(Nums), IsInjective(order), NEW n \in Nums, ~InOrder(n),
         order' = <<n>> \o order
  PROVE  /\ order' \in Seq(Nums)
         /\ IsInjective(order')
         /\ \A m : InOrder(m)' <=> InOrder(m) \/ m = n
         /\ order' # <<>> /\ Default' = n
<1>1. <<n>> \in Seq(Nums) /\ Len(<<n>>) = 1 /\ <<n>>[1] = n
  OBVIOUS
<1>2. /\ order' \in Seq(Nums) /\ Len(order') = 1 + Len(order)
      /\ \A i \in 1 .. 1 + Len(order) : order'[i] = IF i <= 1 THEN n ELSE order[i - 1]
  <2>1. /\ order' \in Seq(Nums) /\ Len(order') = 1 + Len(order)
        /\ \A i \in 1 .. 1 + Len(order) :
             order'[i] = IF i <= 1 THEN <<n>>[i] ELSE order[i - 1]
    BY <1>1, ConcatProperties
  <2> QED BY <2>1
<1>3. \A i \in 1 .. Len(order) : order'[i + 1] = order[i] /\ order[i] # n
  BY <1>2 DEF InOrder
<1>4. order'[1] = n
  BY <1>2
<1>5. IsInjective(order')
  <2>1. ASSUME NEW i \in 1 .. 1 + Len(order), NEW j \in 1 .. 1 + Len(order),
               order'[i] = order'[j]
        PROVE  i = j
    <3>1. CASE i = 1 \/ j = 1
      BY <3>1, <2>1, <1>2, <1>4 DEF InOrder
    <3>2. CASE i # 1 /\ j # 1
      <4>1. i - 1 \in 1 .. Len(order) /\ j - 1 \in 1 .. Len(order)
        BY <3>2
      <4>2. order[i - 1] = order[j - 1]
        BY <3>2, <2>1, <1>2
      <4> QED BY <4>1, <4>2 DEF IsInjective
    <3> QED BY <3>1, <3>2
  <2> QED BY <2>1, <1>2 DEF IsInjective
<1>6. ASSUME NEW m, InOrder(m)'
      PROVE  InOrder(m) \/ m = n
  <2>1. PICK i \in 1 .. 1 + Len(order) : order'[i] = m
    BY <1>2, <1>6 DEF InOrder
  <2>2. CASE i = 1
    BY <2>1, <2>2, <1>4
  <2>3. CASE i # 1
    <3>1. i - 1 \in 1 .. Len(order) /\ order[i - 1] = m
      BY <2>1, <2>3, <1>2
    <3> QED BY <3>1 DEF InOrder
  <2> QED BY <2>2, <2>3
<1>7. ASSUME NEW m, InOrder(m) \/ m = n
      PROVE  InOrder(m)'
  <2>1. CASE m = n
    BY <2>1, <1>2, <1>4 DEF InOrder
  <2>2. CASE InOrder(m)
    <3>1. PICK i \in 1 .. Len(order) : order[i] = m
      BY <2>2 DEF InOrder
    <3>2. i + 1 \in DOMAIN order' /\ order'[i + 1] = m
      BY <3>1, <1>2, <1>3
    <3> QED BY <3>2 DEF InOrder
  <2> QED BY <1>7, <2>1, <2>2
<1>8. order' # <<>> /\ Default' = n
  BY <1>2, <1>4 DEF Default
<1> QED BY <1>2, <1>5, <1>6, <1>7, <1>8

\* Some firmware puts the entry it makes last.
LEMMA OneBehind ==
  ASSUME order \in Seq(Nums), IsInjective(order), NEW n \in Nums, ~InOrder(n),
         order' = Append(order, n)
  PROVE  /\ order' \in Seq(Nums)
         /\ IsInjective(order')
         /\ \A m : InOrder(m)' <=> InOrder(m) \/ m = n
<1>1. /\ order' \in Seq(Nums) /\ Len(order') = Len(order) + 1
      /\ \A i \in 1 .. Len(order) : order'[i] = order[i]
      /\ order'[Len(order) + 1] = n
  BY AppendProperties
<1>2. \A i \in 1 .. Len(order) : order[i] # n
  BY DEF InOrder
<1>3. IsInjective(order')
  BY <1>1, <1>2 DEF IsInjective
<1>4. ASSUME NEW m
      PROVE  InOrder(m)' <=> InOrder(m) \/ m = n
  <2>1. DOMAIN order' = 1 .. Len(order) + 1 /\ DOMAIN order = 1 .. Len(order)
    BY <1>1
  <2>2. InOrder(m)' => InOrder(m) \/ m = n
    BY <1>1, <2>1 DEF InOrder
  <2>3. InOrder(m) \/ m = n => InOrder(m)'
    BY <1>1, <2>1 DEF InOrder
  <2> QED BY <2>2, <2>3
<1> QED BY <1>1, <1>3, <1>4

\* efibootmgr -o with two numbers.
LEMMA TwoInOrder ==
  ASSUME NEW m \in Nums, NEW n \in Nums, m # n, order' = <<m, n>>
  PROVE  /\ order' \in Seq(Nums)
         /\ IsInjective(order')
         /\ \A l : InOrder(l)' <=> l \in {m, n}
         /\ order' # <<>> /\ Default' = m
<1>1. /\ order' \in Seq(Nums) /\ Len(order') = 2 /\ DOMAIN order' = {1, 2}
      /\ order'[1] = m /\ order'[2] = n
  OBVIOUS
<1>2. IsInjective(order')
  BY <1>1 DEF IsInjective
<1>3. \A l : InOrder(l)' <=> l \in {m, n}
  BY <1>1 DEF InOrder
<1> QED BY <1>1, <1>2, <1>3 DEF Default

-----------------------------------------------------------------------------
(* efibootmgr keeps BootOrder a list of entries that are there.            *)

LEMMA NumsAre == /\ NumCount \in Nat /\ Nums \subseteq Nat
                 /\ {0, 1, 2} \subseteq Nums /\ NoNum \notin Nums
BY EfiABAssumption DEF Nums, NoNum

LEMMA FreeNumber ==
  ASSUME NvramOK, Free # {}
  PROVE  /\ Min(Free) \in Nums /\ entry[Min(Free)] = Absent
         /\ ~InOrder(Min(Free))
<1>1. Min(Free) \in Free
  BY LowestNumber, NumsAre DEF Free
<1> QED BY <1>1 DEF Free, NvramOK, Listed

LEMMA CreateWrites ==
  ASSUME NvramOK, NEW s \in Slots, Create(s)
  PROVE  /\ NvramOK'
         /\ Min(Free) \in Nums /\ entry[Min(Free)] = Absent
         /\ entry' = [entry EXCEPT ![Min(Free)] = [label |-> s, part |-> s]]
         /\ \A m : InOrder(m)' <=> InOrder(m) \/ m = Min(Free)
         /\ order' # <<>> /\ Default' = Min(Free)
<1>1. /\ Min(Free) \in Nums /\ entry[Min(Free)] = Absent
      /\ ~InOrder(Min(Free))
  BY FreeNumber DEF Create
<1>2. /\ entry' = [entry EXCEPT ![Min(Free)] = [label |-> s, part |-> s]]
      /\ order' = <<Min(Free)>> \o order
  BY DEF Create
<1>3. /\ order' \in Seq(Nums) /\ IsInjective(order')
      /\ \A m : InOrder(m)' <=> InOrder(m) \/ m = Min(Free)
      /\ order' # <<>> /\ Default' = Min(Free)
  BY <1>1, <1>2, OneInFront DEF NvramOK
<1>4. [label |-> s, part |-> s] \in Entries /\ [label |-> s, part |-> s] # Absent
  BY DEF Entries, Absent, Slots
<1>5. entry' \in [Nums -> Entries]
  BY <1>1, <1>2, <1>4 DEF NvramOK
<1>6. Listed'
  BY <1>1, <1>2, <1>3, <1>4 DEF NvramOK, Listed
<1> QED BY <1>1, <1>2, <1>3, <1>5, <1>6 DEF NvramOK

LEMMA DeleteWrites ==
  ASSUME NvramOK, NEW n \in Nums, Delete(n)
  PROVE  /\ NvramOK'
         /\ entry' = [entry EXCEPT ![n] = Absent]
         /\ \A m : InOrder(m)' <=> InOrder(m) /\ m # n
         /\ order # <<>> /\ Default # n => order' # <<>> /\ Default' = Default
<1>1. entry' = [entry EXCEPT ![n] = Absent] /\ order' = Without(n)
  BY DEF Delete
<1>2. /\ order' \in Seq(Nums) /\ IsInjective(order')
      /\ \A m : InOrder(m)' <=> InOrder(m) /\ m # n
      /\ order # <<>> /\ Default # n => order' # <<>> /\ Default' = Default
  BY <1>1, WithoutOne DEF NvramOK
<1>3. entry' \in [Nums -> Entries]
  BY <1>1 DEF NvramOK, Entries
<1>4. Listed'
  BY <1>1, <1>2 DEF NvramOK, Listed
<1> QED BY <1>1, <1>2, <1>3, <1>4 DEF NvramOK

LEMMA OrderWrites ==
  ASSUME NvramOK, NEW m \in Nums, NEW n \in Nums, order' = <<m, n>>, UNCHANGED entry,
         entry[m].label \in Slots, entry[n].label \in Slots, entry[m].label # entry[n].label
  PROVE  /\ NvramOK'
         /\ \A l : InOrder(l)' <=> l \in {m, n}
         /\ order' # <<>> /\ Default' = m
<1>1. m # n /\ entry[m] # Absent /\ entry[n] # Absent
  BY DEF Absent, Slots
<1>2. /\ order' \in Seq(Nums) /\ IsInjective(order')
      /\ \A l : InOrder(l)' <=> l \in {m, n}
      /\ order' # <<>> /\ Default' = m
  BY <1>1, TwoInOrder
<1> QED BY <1>1, <1>2 DEF NvramOK, Listed

LEMMA NothingWritten ==
  ASSUME NvramOK, UNCHANGED <<entry, order>>
  PROVE  NvramOK'
BY DEF NvramOK, Listed, InOrder

\* What the labels find.
LEMMA NumberFound ==
  ASSUME entry \in [Nums -> Entries], NEW s \in Slots
  PROVE  /\ Labelled(s) # {} => NumberOf(s) \in Labelled(s)
         /\ NumberOf(s) # NoNum <=> Labelled(s) # {}
         /\ NumberOf(s) \in Nums \cup {NoNum}
         /\ Labelled(s) \subseteq Nums /\ Valid(s) \subseteq Labelled(s)
<1>1. Labelled(s) \in SUBSET Nums /\ Valid(s) \subseteq Labelled(s)
  BY DEF Labelled, Valid
<1>2. Labelled(s) # {} => Min(Labelled(s)) \in Labelled(s)
  BY <1>1, LowestNumber, NumsAre
<1> QED BY <1>1, <1>2, NumsAre DEF NumberOf

\* What the firmware starts has an image.
LEMMA FirstStarts ==
  ASSUME order \in Seq(Nums), FirstInOrder # NoNum
  PROVE  Bootable(FirstInOrder) /\ InOrder(FirstInOrder)
<1> DEFINE places == {i \in DOMAIN order : Bootable(order[i])}
<1>1. places \in SUBSET Nat /\ places # {} /\ FirstInOrder = order[Min(places)]
  BY DEF FirstInOrder
<1>2. Min(places) \in places
  BY <1>1, MinIsIn
<1> QED BY <1>1, <1>2 DEF InOrder

\* An entry of BootOrder that leads to an image is enough for a start.
LEMMA FirstFound ==
  ASSUME order \in Seq(Nums), order # <<>>, Bootable(Default)
  PROVE  FirstInOrder # NoNum
<1> DEFINE places == {i \in DOMAIN order : Bootable(order[i])}
<1>1. 1 \in places /\ places \in SUBSET Nat
  BY DEF Default
<1>2. Min(places) \in DOMAIN order
  BY <1>1, MinIsIn
<1> QED BY <1>1, <1>2, NumsAre DEF FirstInOrder

LEMMA SelectedStarts ==
  ASSUME TypeOK, Selected # NoNum
  PROVE  /\ Selected \in Nums /\ entry[Selected].part \in Slots
         /\ image[entry[Selected].part] \in Images
<1>1. Bootable(Selected)
  BY FirstStarts DEF Selected, TypeOK
<1> QED BY <1>1 DEF Bootable, TypeOK, Images

Limits == [crash : Nat, fault : Nat, update : Nat, command : Nat, loss : Nat, keeps : BOOLEAN]

\* A budget only shrinks; whether BootNext is kept stays as it is.
LEMMA SpendTypes ==
  ASSUME left \in Limits,
         NEW what \in {"crash", "fault", "update", "command", "loss"}, Spend(what)
  PROVE  /\ left' \in Limits /\ left'.keeps = left.keeps
         /\ left.fault = 0 => what # "fault" /\ left'.fault = 0
         /\ left.loss = 0 => what # "loss" /\ left'.loss = 0
BY DEF Limits, Spend

LEMMA OneIsSome ==
  ASSUME NEW S, Cardinality(S) = 1
  PROVE  S # {}
BY FS_EmptySet

\* What efibootmgr shows after a deletion and after a creation.
LEMMA DeleteShows ==
  ASSUME entry \in [Nums -> Entries], NEW n \in Nums, entry' = [entry EXCEPT ![n] = Absent]
  PROVE  /\ Written => Written'
         /\ Duplicates' = Duplicates \ {n} /\ Stale' = Stale \ {n}
         /\ \A s \in Slots : Labelled(s)' = Labelled(s) \ {n} /\ Valid(s)' = Valid(s) \ {n}
<1>1. Written => Written'
  BY DEF Written
<1>2. Duplicates' = Duplicates \ {n}
  BY DEF Duplicates, Absent, Slots
<1>3. \A s \in Slots : Labelled(s)' = Labelled(s) \ {n}
  BY DEF Labelled, Absent, Slots
<1>4. \A s \in Slots : Valid(s)' = Valid(s) \ {n}
  BY <1>3 DEF Valid, Labelled, Absent, Slots
<1>5. Stale' = Stale \ {n}
  BY <1>3, <1>4 DEF Stale
<1> QED BY <1>1, <1>2, <1>3, <1>4, <1>5

LEMMA CreateShows ==
  ASSUME entry \in [Nums -> Entries], NEW s \in Slots, NEW n \in Nums, entry[n] = Absent,
         entry' = [entry EXCEPT ![n] = [label |-> s, part |-> s]]
  PROVE  /\ Written => Written'
         /\ Duplicates' = Duplicates /\ Stale' = Stale
         /\ Labelled(s)' = Labelled(s) \cup {n} /\ Valid(s)' = Valid(s) \cup {n}
         /\ \A u \in Slots \ {s} : Labelled(u)' = Labelled(u) /\ Valid(u)' = Valid(u)
<1>1. Written => Written'
  BY DEF Written, Slots
<1>2. Duplicates' = Duplicates
  BY DEF Duplicates, Absent, Slots
<1>3. Labelled(s)' = Labelled(s) \cup {n}
  BY DEF Labelled
<1>4. Valid(s)' = Valid(s) \cup {n}
  BY <1>3 DEF Valid, Labelled, Absent, Slots
<1>5. \A u \in Slots \ {s} : Labelled(u)' = Labelled(u) /\ Valid(u)' = Valid(u)
  BY DEF Labelled, Valid, Absent, Slots
<1>6. n \notin Labelled(s)
  BY DEF Labelled, Absent, Slots
<1>7. Stale' = Stale
  BY <1>3, <1>4, <1>5, <1>6 DEF Stale, Valid
<1> QED BY <1>1, <1>2, <1>3, <1>4, <1>5, <1>7

\* A script that works on the entries is alone, and all but the storage
\* script find them cleaned up.
LEMMA OneWrites ==
  ASSUME Alone, NEW t \in Scripts, pc[t] \in FixSteps \cup Fresh
  PROVE  /\ \A u \in {"update", "operator"} \ {t} : pc[u] = "idle"
         /\ t # "storage" => pc["storage"] = "over"
         /\ t # "storage" /\ t # "confirm" => pc["confirm"] = "over"
BY DEF Alone, Scripts, FixSteps, Fresh, Waiting

LEMMA CleanedBefore ==
  ASSUME Alone, Cleaned, NEW t \in Scripts \ {"storage"}, pc[t] \in FixSteps \cup Fresh
  PROVE  Duplicates = {} /\ Stale = {}
BY OneWrites DEF Cleaned

LEMMA SlotsDiffer ==
  ASSUME TypesInv, On
  PROVE  mounted \in Slots /\ Other(mounted) \in Slots /\ Other(mounted) # mounted
BY DEF TypesInv, Power, Other, Slots

\* What follows from the disk and the EFI variables alone.
LEMMA SameDisk ==
  ASSUME UNCHANGED <<image, entry, order>>
  PROVE  /\ Whole' = Whole /\ Stale' = Stale /\ Duplicates' = Duplicates
         /\ BothGood' = BothGood /\ GoodHead' = GoodHead
         /\ Default' = Default /\ Minima' = Minima
         /\ \A s : /\ Labelled(s)' = Labelled(s) /\ Valid(s)' = Valid(s)
                   /\ NumberOf(s)' = NumberOf(s)
         /\ \A n : InOrder(n)' = InOrder(n)
<1>1. \A s : /\ Labelled(s)' = Labelled(s) /\ Valid(s)' = Valid(s)
             /\ NumberOf(s)' = NumberOf(s)
  BY DEF Labelled, Valid, NumberOf
<1>2. Default' = Default /\ \A n : InOrder(n)' = InOrder(n)
  BY DEF Default, InOrder
<1> QED BY <1>1, <1>2 DEF Whole, Stale, Duplicates, BothGood, GoodHead, Minima

\* The first of BootOrder is what the firmware starts, if it has an image.
LEMMA GoodHeadStarts ==
  ASSUME TypeOK, GoodHead
  PROVE  /\ order # <<>> /\ Default \in Nums /\ InOrder(Default) /\ Default # NoNum
         /\ FirstInOrder = Default /\ Selected # NoNum
         /\ image[entry[Default].part] \in Good
<1> DEFINE places == {i \in DOMAIN order : Bootable(order[i])}
<1>1. PICK s \in Slots : Default \in Valid(s) /\ image[s] \in Good
  BY DEF GoodHead
<1>2. Default \in Nums /\ entry[Default].part = s
  BY <1>1 DEF Valid, Labelled
<1>3. order # <<>> /\ Default = order[1] /\ Default # NoNum
  BY <1>2, NumsAre DEF Default
<1>4. Bootable(Default)
  BY <1>1, <1>2, EfiABAssumption DEF Bootable
<1>5. places \in SUBSET Nat /\ 1 \in places /\ \A i \in places : 1 <= i
  BY <1>3, <1>4 DEF TypeOK
<1>6. Min(places) = 1
  BY <1>5, MinIsIn
<1>7. FirstInOrder = Default
  BY <1>3, <1>5, <1>6 DEF FirstInOrder
<1>8. InOrder(Default)
  BY <1>3 DEF InOrder, TypeOK
<1>9. Selected # NoNum
  BY <1>3, <1>7, NumsAre DEF Selected, Bootable
<1> QED BY <1>1, <1>2, <1>3, <1>7, <1>8, <1>9

\* In a clean BootOrder every entry is a valid one.
LEMMA HeadIsValid ==
  ASSUME NvramOK, Written, Duplicates = {}, Stale = {}, order # <<>>
  PROVE  \E s \in Slots : Default \in Valid(s)
<1>1. Default \in Nums /\ InOrder(Default)
  BY DEF Default, InOrder, NvramOK
<1>2. entry[Default] # Absent
  BY <1>1 DEF NvramOK, Listed
<1>3. entry[Default].label \in Slots
  BY <1>1, <1>2 DEF Written, Duplicates
<1>4. Default \in Labelled(entry[Default].label)
  BY <1>1 DEF Labelled
<1> QED BY <1>3, <1>4 DEF Stale

\* With an entry for each slot and none that is stale, the labels find both.
LEMMA MinimaAreValid ==
  ASSUME entry \in [Nums -> Entries], Whole, Stale = {}
  PROVE  \A s \in Slots : /\ NumberOf(s) \in Valid(s) /\ NumberOf(s) # NoNum
                          /\ Labelled(s) = Valid(s)
<1>1. \A s \in Slots : Valid(s) # {} /\ Labelled(s) = Valid(s)
  BY DEF Whole, Stale, Valid
<1> QED BY <1>1, NumberFound

LEMMA OnlyNumbers ==
  ASSUME entry \in [Nums -> Entries], NEW s \in Slots, NEW n, Labelled(s) = {n}
  PROVE  NumberOf(s) = n
BY NumberFound

-----------------------------------------------------------------------------
(* Any machine: TypesInv is kept by every step of it, of its scripts, of   *)
(* the update and of an operator's command.                                *)

LEMMA BootTypes ==
  ASSUME TypesInv, Boot
  PROVE  TypesInv'
<1>1. NvramOK'
  BY NothingWritten DEF TypesInv, Boot, StartWith, update
<1>2. TypeOK'
  <2>1. Selected \in Nums /\ mounted' \in Slots /\ running' \in Images /\ current' = Selected
    BY SelectedStarts DEF TypesInv, Boot, StartWith
  <2> QED BY <2>1 DEF TypesInv, TypeOK, Steps, Scripts, NvramOK, Boot, StartWith, update
<1>3. Power'
  <2>1. mounted' \in Slots /\ running' \in Images
    BY SelectedStarts DEF TypesInv, Boot, StartWith
  <2> QED BY <2>1, EfiABAssumption DEF Power, On, Images, Boot, StartWith
<1>4. Created'
  BY DEF TypesInv, TypeOK, Created, Scripts, Boot, StartWith
<1> QED BY <1>1, <1>2, <1>3, <1>4 DEF TypesInv

LEMMA BootUnlistedTypes ==
  ASSUME TypesInv, BootUnlisted
  PROVE  TypesInv'
<1> DEFINE k == Min(Free)
<1>1. k \in Nums /\ entry[k] = Absent /\ ~InOrder(k)
  BY FreeNumber DEF TypesInv, BootUnlisted
<1>2. PICK p \in Slots :
        /\ image[p] # NoImage
        /\ entry' = [entry EXCEPT ![k] = [label |-> "auto", part |-> p]]
        /\ order' = <<k>> \o order \/ order' = Append(order, k)
        /\ StartWith(k)
  BY DEF BootUnlisted
<1> HIDE DEF k
<1>3. NvramOK'
  <2>1. /\ order' \in Seq(Nums) /\ IsInjective(order')
        /\ \A m : InOrder(m)' <=> InOrder(m) \/ m = k
    BY <1>1, <1>2, OneInFront, OneBehind DEF TypesInv, NvramOK
  <2>2. [label |-> "auto", part |-> p] \in Entries \ {Absent}
    BY DEF Entries, Absent, Slots
  <2>3. entry' \in [Nums -> Entries] /\ Listed'
    BY <1>1, <1>2, <2>1, <2>2 DEF TypesInv, NvramOK, Listed
  <2> QED BY <2>1, <2>3 DEF NvramOK
<1>4. mounted' = p /\ running' = image[p] /\ image[p] \in Images
  BY <1>1, <1>2 DEF StartWith, TypesInv, NvramOK, TypeOK
<1>5. TypeOK'
  BY <1>1, <1>2, <1>3, <1>4
  DEF TypesInv, TypeOK, Steps, Scripts, NvramOK, StartWith, update
<1>6. Power'
  BY <1>2, <1>4, EfiABAssumption DEF Power, On, Images, StartWith
<1>7. Created'
  BY <1>2 DEF TypesInv, TypeOK, Created, Scripts, StartWith
<1> QED BY <1>3, <1>5, <1>6, <1>7 DEF TypesInv

LEMMA PowerFailsTypes ==
  ASSUME TypesInv, PowerFails
  PROVE  TypesInv'
<1>1. NvramOK'
  BY NothingWritten DEF TypesInv, PowerFails, Halt, Spend, nvram
<1>2. TypeOK'
  <2>1. left' \in Limits
    BY SpendTypes DEF PowerFails, TypesInv, TypeOK, Limits
  <2> QED
    BY <1>1, <2>1
    DEF NvramOK, TypesInv, TypeOK, Power, Steps, Scripts, Nothing, Limits, PowerFails, Halt,
        nvram
<1>3. Power'
  BY DEF Power, On, PowerFails, Halt
<1>4. Created'
  BY DEF Created, Scripts, PowerFails, Halt
<1> QED BY <1>1, <1>2, <1>3, <1>4 DEF TypesInv

LEMMA NvramLostTypes ==
  ASSUME TypesInv, NvramLost
  PROVE  TypesInv'
<1>1. NvramOK'
  <2>1. <<>> \in Seq(Nums) /\ IsInjective(<<>>) /\ DOMAIN <<>> = {}
    BY DEF IsInjective
  <2> QED BY <2>1 DEF NvramLost, NvramOK, Listed, InOrder, Entries
<1>2. TypeOK'
  <2>1. left' \in Limits
    BY SpendTypes DEF NvramLost, TypesInv, TypeOK, Limits
  <2> QED BY <1>1, <2>1 DEF NvramOK, TypesInv, TypeOK, Limits, NvramLost, machine, update
<1>3. Power'
  BY DEF TypesInv, Power, On, NvramLost, machine
<1>4. Created'
  BY DEF TypesInv, Power, On, Created, Scripts, NvramLost
<1> QED BY <1>1, <1>2, <1>3, <1>4 DEF TypesInv

LEMMA BecomeHealthyTypes ==
  ASSUME TypesInv, BecomeHealthy
  PROVE  TypesInv'
BY NothingWritten
DEF TypesInv, BecomeHealthy, nvram, machine, update, TypeOK, Power, Scripts, On, Created,
    Valid, Labelled

\* What fix_entries does while it removes entries: it takes one out, or finds
\* nothing left and goes on.
TakesOut(t, n) ==
  /\ \/ pc[t] = "duplicates" /\ n \in Duplicates
     \/ pc[t] = "stale" /\ n \in Stale
  /\ Delete(n) /\ UNCHANGED <<pc, left>> /\ FixFrame
GoesOn(t) ==
  /\ \/ pc[t] = "duplicates" /\ Duplicates = {} /\ Goto(t, "stale")
     \/ pc[t] = "stale" /\ Stale = {} /\ Goto(t, "createA")
  /\ KeepEntries /\ UNCHANGED left /\ FixFrame

LEMMA Removal ==
  ASSUME NEW t, RemoveDuplicate(t) \/ RemoveStale(t)
  PROVE  (\E n \in Nums : TakesOut(t, n)) \/ GoesOn(t)
<1>1. Duplicates \in SUBSET Nums /\ Stale \in SUBSET Nums
  BY DEF Duplicates, Stale, Labelled
<1>2. CASE RemoveDuplicate(t) /\ Duplicates # {}
  <2>1. Min(Duplicates) \in Duplicates
    BY <1>1, <1>2, LowestNumber, NumsAre
  <2>2. TakesOut(t, Min(Duplicates))
    BY <1>2, <2>1 DEF RemoveDuplicate, TakesOut
  <2> QED BY <1>1, <2>1, <2>2
<1>3. CASE RemoveStale(t) /\ Stale # {}
  <2>1. Min(Stale) \in Stale
    BY <1>1, <1>3, LowestNumber, NumsAre
  <2>2. TakesOut(t, Min(Stale))
    BY <1>3, <2>1 DEF RemoveStale, TakesOut
  <2> QED BY <1>1, <2>1, <2>2
<1>4. CASE ~(RemoveDuplicate(t) /\ Duplicates # {}) /\ ~(RemoveStale(t) /\ Stale # {})
  BY <1>4 DEF RemoveDuplicate, RemoveStale, GoesOn, KeepEntries
<1> QED BY <1>2, <1>3, <1>4

LEMMA TakesOutTypes ==
  ASSUME TypesInv, NEW t \in Scripts, NEW n \in Nums, TakesOut(t, n)
  PROVE  TypesInv'
<1>1. NvramOK' /\ entry' = [entry EXCEPT ![n] = Absent]
  BY DeleteWrites DEF TypesInv, TakesOut
<1>2. TypeOK'
  BY <1>1 DEF NvramOK, TypesInv, TypeOK, TakesOut, FixFrame, machine, update
<1>3. Power'
  BY DEF TypesInv, Power, On, TakesOut, FixFrame, machine
<1>4. Created'
  <2>1. UNCHANGED <<pc, mine>> /\ \A s \in Slots : n \notin Valid(s)
    BY DEF TakesOut, FixFrame, Duplicates, Stale, Valid, Labelled, Slots
  <2>2. \A s \in Slots : Valid(s)' = Valid(s) \ {n}
    BY <1>1, DeleteShows DEF TypesInv, NvramOK
  <2> QED BY <2>1, <2>2 DEF TypesInv, Created, Slots
<1> QED BY <1>1, <1>2, <1>3, <1>4 DEF TypesInv

LEMMA RemovalTypes ==
  ASSUME TypesInv, NEW t \in Scripts, RemoveDuplicate(t) \/ RemoveStale(t)
  PROVE  TypesInv'
<1>1. CASE GoesOn(t)
  BY <1>1, NothingWritten
  DEF TypesInv, NvramOK, TypeOK, Steps, Power, On, Created, Valid, Labelled, Scripts,
      GoesOn, Goto, KeepEntries, FixFrame, machine, update
<1> QED BY <1>1, Removal, TakesOutTypes

LEMMA CreateMissingTypes ==
  ASSUME TypesInv, NEW t \in Scripts, NEW s \in Slots, CreateMissing(t, s)
  PROVE  TypesInv'
<1>1. NvramOK'
  BY CreateWrites, NothingWritten DEF TypesInv, CreateMissing, FixFrame
<1>2. TypeOK'
  <2>1. left' \in Limits
    BY SpendTypes DEF CreateMissing, CreateFails, TypesInv, TypeOK, Limits
  <2> QED
    BY <1>1, <2>1
    DEF NvramOK, TypesInv, TypeOK, Steps, CreateMissing, Goto, FixFrame, Limits, machine,
        update
<1>3. Power'
  BY DEF TypesInv, Power, On, CreateMissing, FixFrame, machine
<1>4. Created'
  <2>1. CASE UNCHANGED entry
    BY <2>1 DEF TypesInv, Created, Valid, Labelled, CreateMissing, Goto, FixFrame
  <2>2. CASE Create(s)
    <3>1. /\ Min(Free) \in Nums /\ entry[Min(Free)] = Absent
          /\ entry' = [entry EXCEPT ![Min(Free)] = [label |-> s, part |-> s]]
      BY <2>2, CreateWrites DEF TypesInv
    <3> QED
      BY <3>1
      DEF TypesInv, Created, Valid, Labelled, Absent, CreateMissing, Goto, FixFrame
  <2> QED BY <2>1, <2>2 DEF CreateMissing
<1> QED BY <1>1, <1>2, <1>3, <1>4 DEF TypesInv

LEMMA FixOrderTypes ==
  ASSUME TypesInv, NEW t \in Scripts, FixOrder(t)
  PROVE  TypesInv'
<1>1. NvramOK'
  <2>1. CASE UNCHANGED order
    BY <2>1, NothingWritten DEF TypesInv, FixOrder
  <2>2. CASE ~UNCHANGED order
    <3> DEFINE first == NumberOf("a")
               second == NumberOf("b")
    <3>1. order' = <<first, second>> /\ first # NoNum /\ second # NoNum /\ UNCHANGED entry
      BY <2>2 DEF FixOrder
    <3>2. first \in Labelled("a") /\ second \in Labelled("b")
      BY <3>1, NumberFound DEF TypesInv, NvramOK, Slots
    <3> HIDE DEF first, second
    <3>3. /\ first \in Nums /\ entry[first].label = "a"
          /\ second \in Nums /\ entry[second].label = "b"
      BY <3>2 DEF Labelled
    <3> QED BY <3>1, <3>3, OrderWrites DEF TypesInv, Slots
  <2> QED BY <2>1, <2>2
<1>2. TypeOK'
  BY <1>1
  DEF NvramOK, TypesInv, TypeOK, Steps, FixOrder, Goto, FixFrame, machine, update, AfterFix
<1>3. Power'
  BY DEF TypesInv, Power, On, FixOrder, FixFrame, machine
<1>4. Created'
  BY DEF TypesInv, Created, Valid, Labelled, FixOrder, Goto, FixFrame, AfterFix
<1> QED BY <1>1, <1>2, <1>3, <1>4 DEF TypesInv

LEMMA CheckTrialTypes ==
  ASSUME TypesInv, CheckTrial
  PROVE  TypesInv'
BY NothingWritten
DEF TypesInv, CheckTrial, Goto, ConfirmFrame, KeepEntries, machine, update, TypeOK, Power,
    Steps, Scripts, On, Created

LEMMA GiveUpTypes ==
  ASSUME TypesInv, GiveUp
  PROVE  TypesInv'
BY NothingWritten
DEF TypesInv, GiveUp, Goto, ConfirmFrame, KeepEntries, machine, update, TypeOK, Power,
    Steps, Scripts, On, Created

LEMMA RunConfirmTypes ==
  ASSUME TypesInv, RunConfirm
  PROVE  TypesInv'
BY NothingWritten
DEF TypesInv, RunConfirm, Goto, ConfirmFrame, KeepEntries, machine, update, TypeOK, Power,
    Steps, Scripts, On, Created

LEMMA CountOldTypes ==
  ASSUME TypesInv, CountOld
  PROVE  TypesInv'
<1>1. NvramOK'
  BY NothingWritten DEF TypesInv, CountOld, Goto, ConfirmFrame, KeepEntries, machine, update
<1>2. TypeOK'
  <2>1. \A s \in Slots : Cardinality(Valid(s)) = 1 => Min(Valid(s)) \in Nums
    BY LowestNumber, OneIsSome, NumsAre DEF Valid, Labelled
  <2> QED
    BY <2>1
    DEF TypesInv, TypeOK, Steps, CountOld, Goto, ConfirmFrame, KeepEntries, machine, update
<1>3. Power'
  BY DEF TypesInv, Power, On, Scripts, CountOld, ConfirmFrame, machine
<1>4. Created'
  BY DEF TypesInv, TypeOK, Created, CountOld, Goto
<1> QED BY <1>1, <1>2, <1>3, <1>4 DEF TypesInv

LEMMA CreateFreshTypes ==
  ASSUME TypesInv, NEW s \in Slots, CreateFresh(s)
  PROVE  TypesInv'
<1>1. NvramOK'
  BY CreateWrites, NothingWritten DEF TypesInv, CreateFresh, KeepEntries
<1>2. TypeOK'
  <2>1. CASE /\ Create(s) /\ mine' = [mine EXCEPT !.new[s] = Min(Free)]
             /\ Goto("confirm", IF s = "a" THEN "newB" ELSE "front") /\ UNCHANGED left
    <3>1. Min(Free) \in Nums
      BY <2>1, CreateWrites DEF TypesInv
    <3> QED
      BY <1>1, <2>1, <3>1
      DEF NvramOK, TypesInv, TypeOK, Steps, Scripts, CreateFresh, Goto, ConfirmFrame,
          machine, update
  <2>2. CASE CreateFails /\ Goto("confirm", "undo") /\ UNCHANGED mine
    <3>1. left' \in Limits
      BY <2>2, SpendTypes DEF CreateFails, TypesInv, TypeOK, Limits
    <3> QED
      BY <1>1, <2>2, <3>1
      DEF NvramOK, TypesInv, TypeOK, Steps, Scripts, CreateFresh, Goto, ConfirmFrame,
          Limits, machine, update
  <2> QED BY <2>1, <2>2 DEF CreateFresh
<1>3. Power'
  BY DEF TypesInv, Power, On, Scripts, CreateFresh, ConfirmFrame, machine
<1>4. Created'
  <2>1. CASE /\ Create(s) /\ mine' = [mine EXCEPT !.new[s] = Min(Free)]
             /\ Goto("confirm", IF s = "a" THEN "newB" ELSE "front") /\ UNCHANGED left
    <3>1. /\ Min(Free) \in Nums /\ entry[Min(Free)] = Absent
          /\ entry' = [entry EXCEPT ![Min(Free)] = [label |-> s, part |-> s]]
      BY <2>1, CreateWrites DEF TypesInv
    <3> QED
      BY <3>1
      DEF TypesInv, TypeOK, Created, Valid, Labelled, Absent, Slots, CreateFresh, Goto
  <2>2. CASE Goto("confirm", "undo")
    BY <2>2 DEF TypesInv, TypeOK, Created, Scripts, Goto
  <2> QED BY <2>1, <2>2 DEF CreateFresh
<1> QED BY <1>1, <1>2, <1>3, <1>4 DEF TypesInv

LEMMA SetOrderTypes ==
  ASSUME TypesInv, SetOrder
  PROVE  TypesInv'
<1>1. NvramOK'
  <2>1. CASE UNCHANGED order
    BY <2>1, NothingWritten DEF TypesInv, SetOrder
  <2>2. CASE order' = <<mine.new[mounted], mine.new[Other(mounted)]>>
    <3>1. mounted \in Slots
      BY DEF TypesInv, TypeOK, Power, Scripts, SetOrder
    <3>2. \A s \in Slots : mine.new[s] \in Nums /\ entry[mine.new[s]].label = s
      BY DEF TypesInv, Created, Valid, Labelled, Slots, SetOrder
    <3>3. Other(mounted) \in Slots /\ Other(mounted) # mounted
      BY <3>1 DEF Other, Slots
    <3> QED BY <2>2, <3>1, <3>2, <3>3, OrderWrites DEF TypesInv, SetOrder
  <2> QED BY <2>1, <2>2 DEF SetOrder
<1>2. TypeOK'
  <2>1. left' \in Limits
    BY SpendTypes DEF SetOrder, TypesInv, TypeOK, Limits
  <2> QED
    BY <1>1, <2>1
    DEF NvramOK, TypesInv, TypeOK, Steps, SetOrder, Goto, ConfirmFrame, Limits, machine,
        update
<1>3. Power'
  BY DEF TypesInv, Power, On, Scripts, SetOrder, ConfirmFrame, machine
<1>4. Created'
  BY DEF TypesInv, Created, Valid, Labelled, SetOrder
<1> QED BY <1>1, <1>2, <1>3, <1>4 DEF TypesInv

\* What a confirmation does with a pair it remembers: it deletes one of them,
\* or finds that they are gone.
Drops(step, which, n) ==
  /\ pc["confirm"] = step /\ n \in {mine[which][s] : s \in Slots}
  /\ Delete(n) /\ UNCHANGED pc
Dropped(step, which) ==
  /\ pc["confirm"] = step /\ \A s \in Slots : mine[which][s] \in Free \cup {NoNum}
  /\ KeepEntries /\ Goto("confirm", "stop")

LEMMA Dropping ==
  ASSUME TypeOK, NEW step, NEW which \in {"old", "new"}, DropPair(step, which)
  PROVE  (\E n \in Nums : Drops(step, which, n)) \/ Dropped(step, which)
<1> DEFINE remaining == {mine[which][s] : s \in Slots} \ (Free \cup {NoNum})
<1>1. remaining \in SUBSET Nums
  BY DEF TypeOK
<1>2. CASE remaining # {}
  <2>1. Min(remaining) \in remaining /\ Min(remaining) \in Nums
    BY <1>1, <1>2, LowestNumber, NumsAre
  <2>2. Delete(Min(remaining)) /\ pc["confirm"] = step /\ UNCHANGED pc
    BY <1>2 DEF DropPair
  <2> QED BY <2>1, <2>2 DEF Drops
<1>3. CASE remaining = {}
  BY <1>3 DEF DropPair, Dropped
<1> QED BY <1>2, <1>3

LEMMA DropPairTypes ==
  ASSUME TypesInv, NEW step \in {"dropOld", "undo"},
         NEW which \in {"old", "new"}, DropPair(step, which)
  PROVE  TypesInv'
<1>1. NvramOK'
  BY Dropping, DeleteWrites, NothingWritten DEF TypesInv, Drops, Dropped, KeepEntries
<1>2. TypeOK'
  BY <1>1
  DEF NvramOK, TypesInv, TypeOK, Steps, DropPair, Goto, ConfirmFrame, machine, update
<1>3. Power'
  BY DEF TypesInv, Power, On, Scripts, DropPair, ConfirmFrame, machine
<1>4. Created'
  BY DEF TypesInv, TypeOK, Created, Scripts, DropPair, Goto
<1> QED BY <1>1, <1>2, <1>3, <1>4 DEF TypesInv

LEMMA StopWatchdogTypes ==
  ASSUME TypesInv, StopWatchdog
  PROVE  TypesInv'
BY NothingWritten
DEF TypesInv, StopWatchdog, Goto, ConfirmFrame, KeepEntries, machine, update, TypeOK, Power,
    Steps, Scripts, On, Created

LEMMA WatchdogStartsTypes ==
  ASSUME TypesInv, WatchdogStarts
  PROVE  TypesInv'
BY NothingWritten
DEF TypesInv, WatchdogStarts, nvram, machine, update, TypeOK, Power, On, Created, Valid,
    Labelled

LEMMA WatchdogRebootsTypes ==
  ASSUME TypesInv, WatchdogReboots
  PROVE  TypesInv'
BY NothingWritten, EfiABAssumption, NumsAre
DEF TypesInv, WatchdogReboots, Halt, Spend, nvram, NvramOK, TypeOK, Power, Steps, Scripts,
    Nothing, On, Images, Created, Valid, Labelled

LEMMA StartUpdateTypes ==
  ASSUME TypesInv, StartUpdate
  PROVE  TypesInv'
<1>1. NvramOK'
  BY NothingWritten DEF TypesInv, StartUpdate, UpdateFrame
<1>2. TypeOK'
  <2>1. left' \in Limits
    BY SpendTypes DEF StartUpdate, TypesInv, TypeOK, Limits
  <2> QED
    BY <2>1
    DEF TypesInv, TypeOK, Steps, Scripts, Limits, StartUpdate, Goto, UpdateFrame, machine
<1>3. Power'
  BY DEF TypesInv, Power, On, StartUpdate, UpdateFrame, machine
<1>4. Created'
  BY DEF TypesInv, Created, Valid, Labelled, StartUpdate, Goto, UpdateFrame
<1> QED BY <1>1, <1>2, <1>3, <1>4 DEF TypesInv

LEMMA ResolveTargetTypes ==
  ASSUME TypesInv, ResolveTarget
  PROVE  TypesInv'
<1>1. NvramOK'
  BY NothingWritten
  DEF TypesInv, ResolveTarget, Goto, UpdateFrame, KeepTarget, machine, update
<1>2. TypeOK'
  <2>1. target' \in Nums \cup {NoNum}
    <3>1. CASE mounted = "a"
      BY <3>1, NumberFound DEF ResolveTarget, TypesInv, NvramOK, Other, Slots
    <3>2. CASE mounted # "a"
      BY <3>2, NumberFound DEF ResolveTarget, TypesInv, NvramOK, Other, Slots
    <3> QED BY <3>1, <3>2
  <2> QED
    BY <2>1
    DEF TypesInv, TypeOK, Steps, Scripts, ResolveTarget, Goto, UpdateFrame, machine
<1>3. Power'
  BY DEF TypesInv, Power, On, ResolveTarget, Goto, UpdateFrame, machine
<1>4. Created'
  BY DEF TypesInv, Created, Valid, Labelled, ResolveTarget, Goto, UpdateFrame
<1> QED BY <1>1, <1>2, <1>3, <1>4 DEF TypesInv

LEMMA WriteInactiveTypes ==
  ASSUME TypesInv, FormatInactive \/ CopyInactive
  PROVE  TypesInv'
<1>1. NvramOK'
  BY NothingWritten DEF TypesInv, FormatInactive, CopyInactive, UpdateFrame
<1>2. TypeOK'
  BY <1>1, EfiABAssumption
  DEF NvramOK, TypesInv, TypeOK, Steps, FormatInactive, CopyInactive, Goto, UpdateFrame,
      KeepTarget, machine, update
<1>3. Power'
  BY DEF TypesInv, Power, On, Scripts, FormatInactive, CopyInactive, UpdateFrame, machine
<1>4. Created'
  BY DEF TypesInv, TypeOK, Created, Valid, Labelled, Scripts, FormatInactive, CopyInactive,
         Goto, UpdateFrame
<1> QED BY <1>1, <1>2, <1>3, <1>4 DEF TypesInv

LEMMA SetBootNextTypes ==
  ASSUME TypesInv, SetBootNext
  PROVE  TypesInv'
BY NothingWritten
DEF TypesInv, SetBootNext, Goto, UpdateFrame, KeepTarget, machine, update, WriteBootNext,
    TypeOK, Power, Steps, Scripts, On, Created, Valid, Labelled

LEMMA VerifyBootNextTypes ==
  ASSUME TypesInv, VerifyBootNext
  PROVE  TypesInv'
BY NothingWritten
DEF TypesInv, VerifyBootNext, Goto, UpdateFrame, KeepTarget, machine, update, TypeOK, Power,
    Steps, Scripts, On, Created, Valid, Labelled

LEMMA ClearBootNextTypes ==
  ASSUME TypesInv, ClearBootNext
  PROVE  TypesInv'
BY NothingWritten
DEF TypesInv, ClearBootNext, Goto, UpdateFrame, KeepTarget, machine, update, TypeOK, Power,
    Steps, Scripts, On, Created, Valid, Labelled

LEMMA OverwriteActiveTypes ==
  ASSUME TypesInv, OverwriteActive
  PROVE  TypesInv'
BY NothingWritten
DEF TypesInv, OverwriteActive, Goto, UpdateFrame, KeepTarget, machine, update, TypeOK,
    Power, Steps, Scripts, On, Created, Valid, Labelled

LEMMA RebootUpdatedTypes ==
  ASSUME TypesInv, RebootUpdated
  PROVE  TypesInv'
BY NothingWritten, EfiABAssumption, NumsAre
DEF TypesInv, RebootUpdated, Halt, Spend, nvram, NvramOK, TypeOK, Power, Steps, Scripts,
    Nothing, On, Images, Created, Valid, Labelled

LEMMA OperatorStartsTypes ==
  ASSUME TypesInv, OperatorStarts
  PROVE  TypesInv'
<1>1. NvramOK'
  BY NothingWritten DEF TypesInv, OperatorStarts, nvram
<1>2. TypeOK'
  <2>1. left' \in Limits
    BY SpendTypes DEF OperatorStarts, TypesInv, TypeOK, Limits
  <2> QED
    BY <2>1
    DEF TypesInv, TypeOK, Steps, Scripts, Limits, OperatorStarts, Goto, nvram, machine,
        update
<1>3. Power'
  BY DEF TypesInv, Power, On, OperatorStarts, machine
<1>4. Created'
  BY DEF TypesInv, Created, Valid, Labelled, OperatorStarts, Goto, nvram
<1> QED BY <1>1, <1>2, <1>3, <1>4 DEF TypesInv

LEMMA OperatorEndsTypes ==
  ASSUME TypesInv, OperatorEnds
  PROVE  TypesInv'
<1>1. NvramOK'
  BY NothingWritten DEF TypesInv, OperatorEnds, Goto, WriteBootNext, machine, update
<1>2. TypeOK'
  <2>1. next' \in Nums \cup {NoNum}
    BY NumberFound DEF OperatorEnds, WriteBootNext, TypesInv, TypeOK
  <2> QED BY <2>1 DEF TypesInv, TypeOK, Steps, Scripts, OperatorEnds, Goto, machine, update
<1>3. Power'
  BY DEF TypesInv, Power, On, OperatorEnds, Goto, machine
<1>4. Created'
  BY DEF TypesInv, Created, Valid, Labelled, OperatorEnds, Goto
<1> QED BY <1>1, <1>2, <1>3, <1>4 DEF TypesInv

-----------------------------------------------------------------------------
(* A calm machine: as no update or command starts beside another script,   *)
(* CalmInv is kept by every step.                                          *)

LEMMA BootCalm ==
  ASSUME CalmStarts, TypesInv, TypesInv', CalmInv, Boot
  PROVE  CalmInv'
BY DEF CalmInv, TypesInv, TypeOK, Power, On, Alone, Waiting, Scripts, Boot, StartWith,
       Written, Cleaned, Updating, Targeted

LEMMA BootUnlistedCalm ==
  ASSUME CalmStarts, TypesInv, TypesInv', CalmInv, BootUnlisted
  PROVE  CalmInv'
<1>1. Alone'
  BY DEF CalmInv, TypesInv, TypeOK, Power, On, Alone, Waiting, Scripts, BootUnlisted,
         StartWith
<1>2. Written'
  BY DEF CalmInv, TypesInv, TypeOK, Written, BootUnlisted, StartWith, update
<1>3. Cleaned'
  BY DEF TypesInv, TypeOK, Cleaned, Scripts, BootUnlisted, StartWith
<1>4. Updating'
  BY DEF CalmInv, TypesInv, TypeOK, Power, On, Updating, Targeted, Valid, Scripts,
         BootUnlisted, StartWith, update
<1> QED BY <1>1, <1>2, <1>3, <1>4 DEF CalmInv

LEMMA PowerFailsCalm ==
  ASSUME CalmStarts, TypesInv, TypesInv', CalmInv, PowerFails
  PROVE  CalmInv'
BY DEF CalmInv, Alone, Waiting, Scripts, PowerFails, Halt, nvram, Written, Cleaned,
       Updating, Targeted

LEMMA NvramLostCalm ==
  ASSUME CalmStarts, TypesInv, TypesInv', CalmInv, NvramLost
  PROVE  CalmInv'
BY DEF CalmInv, TypesInv, Power, On, Alone, Scripts, NvramLost, Written, Cleaned, Updating,
       Targeted

LEMMA BecomeHealthyCalm ==
  ASSUME CalmStarts, TypesInv, TypesInv', CalmInv, BecomeHealthy
  PROVE  CalmInv'
BY DEF CalmInv, Alone, BecomeHealthy, nvram, machine, update, Written, Cleaned, Duplicates,
       Stale, Labelled, Valid, Updating

LEMMA TakesOutCalm ==
  ASSUME TypesInv, CalmInv, NEW t \in Scripts, NEW n \in Nums, TakesOut(t, n)
  PROVE  CalmInv'
<1>1. t = "storage" /\ pc["update"] = "idle" /\ UNCHANGED pc
  <2>1. pc[t] \in FixSteps
    BY DEF TakesOut, FixSteps
  <2> QED BY <2>1, CleanedBefore, OneWrites DEF CalmInv, TakesOut
<1>2. Written' /\ Duplicates' \subseteq Duplicates /\ Stale' \subseteq Stale
  BY DeleteShows DEF TakesOut, Delete, CalmInv, TypesInv, NvramOK
<1>3. Alone'
  BY <1>1 DEF CalmInv, Alone, TakesOut, FixFrame
<1>4. Cleaned' /\ Updating'
  BY <1>1, <1>2 DEF CalmInv, Cleaned, Updating, Targeted
<1> QED BY <1>2, <1>3, <1>4 DEF CalmInv

LEMMA RemovalCalm ==
  ASSUME CalmStarts, TypesInv, TypesInv', CalmInv, NEW t \in Scripts,
         RemoveDuplicate(t) \/ RemoveStale(t)
  PROVE  CalmInv'
<1>1. CASE GoesOn(t)
  <2>1. /\ Duplicates' = Duplicates /\ Stale' = Stale
        /\ \A s \in Slots : Valid(s)' = Valid(s)
    BY <1>1 DEF GoesOn, KeepEntries, Duplicates, Stale, Valid, Labelled
  <2>2. Alone' /\ Written'
    BY <1>1 DEF CalmInv, TypesInv, TypeOK, Alone, Written, Waiting, Scripts,
                GoesOn, Goto, KeepEntries, FixFrame
  <2>3. Cleaned'
    BY <1>1, <2>1 DEF CalmInv, TypesInv, TypeOK, Cleaned, Scripts, GoesOn, Goto
  <2>4. Updating'
    BY <1>1, <2>1 DEF CalmInv, TypesInv, TypeOK, Updating, Targeted, Other, Slots, Scripts,
                      GoesOn, Goto, KeepEntries, FixFrame, machine, update
  <2> QED BY <2>2, <2>3, <2>4 DEF CalmInv
<1> QED BY <1>1, Removal, TakesOutCalm

LEMMA CreateMissingCalm ==
  ASSUME CalmStarts, TypesInv, TypesInv', CalmInv, NEW t \in Scripts, NEW s \in Slots,
         CreateMissing(t, s)
  PROVE  CalmInv'
<1>1. Alone'
  BY DEF CalmInv, Alone, Waiting, CreateMissing, Goto, FixFrame
<1>2. Written'
  <2>1. CASE Create(s)
    <3>1. /\ Min(Free) \in Nums /\ entry[Min(Free)] = Absent
          /\ entry' = [entry EXCEPT ![Min(Free)] = [label |-> s, part |-> s]]
      BY <2>1, CreateWrites DEF TypesInv
    <3> QED BY <3>1, CreateShows DEF CalmInv, TypesInv, NvramOK
  <2>2. CASE UNCHANGED entry
    BY <2>2 DEF CalmInv, Written
  <2> QED BY <2>1, <2>2 DEF CreateMissing, KeepEntries
<1>3. Cleaned'
  <2>1. Duplicates' = Duplicates /\ Stale' = Stale
    <3>1. CASE Create(s)
      <4>1. /\ Min(Free) \in Nums /\ entry[Min(Free)] = Absent
            /\ entry' = [entry EXCEPT ![Min(Free)] = [label |-> s, part |-> s]]
        BY <3>1, CreateWrites DEF TypesInv
      <4> QED BY <4>1, CreateShows DEF TypesInv, NvramOK
    <3>2. CASE UNCHANGED entry
      BY <3>2 DEF Duplicates, Stale, Valid, Labelled
    <3> QED BY <3>1, <3>2 DEF CreateMissing, KeepEntries
  <2> QED BY <2>1 DEF CalmInv, TypesInv, TypeOK, Cleaned, Scripts, CreateMissing, Goto
<1>4. Updating'
  <2>1. pc[t] \in FixSteps
    BY DEF FixSteps, CreateMissing
  <2>2. t # "update" => pc["update"] = "idle"
    BY <2>1, OneWrites DEF CalmInv
  <2>3. order # <<>> => order' # <<>>
    BY CreateWrites DEF TypesInv, CreateMissing
  <2>4. /\ pc["update"]' \in {"idle", "createB", "order"}
        /\ pc["update"]' # "idle" => pc["update"] # "idle"
    BY <2>2 DEF TypesInv, TypeOK, Scripts, CreateMissing, Goto
  <2> QED BY <2>3, <2>4 DEF CalmInv, Updating, Targeted, CreateMissing, FixFrame, update
<1> QED BY <1>1, <1>2, <1>3, <1>4 DEF CalmInv

LEMMA FixOrderCalm ==
  ASSUME CalmStarts, TypesInv, TypesInv', CalmInv, NEW t \in Scripts, FixOrder(t)
  PROVE  CalmInv'
BY DEF CalmInv, Alone, Waiting, FixOrder, Goto, FixFrame, machine, update, AfterFix,
       Written, Cleaned, Duplicates, Stale, Labelled, Valid, Updating, Targeted

LEMMA CheckTrialCalm ==
  ASSUME CalmStarts, TypesInv, TypesInv', CalmInv, CheckTrial
  PROVE  CalmInv'
BY DEF CalmInv, Alone, Waiting, CheckTrial, Goto, ConfirmFrame, KeepEntries, Written,
       Cleaned, Duplicates, Stale, Labelled, Valid, Updating, Targeted

LEMMA GiveUpCalm ==
  ASSUME CalmStarts, TypesInv, TypesInv', CalmInv, GiveUp
  PROVE  CalmInv'
BY DEF CalmInv, Alone, GiveUp, Goto, ConfirmFrame, KeepEntries, Written, Cleaned,
       Duplicates, Stale, Labelled, Valid, Updating, Targeted

LEMMA RunConfirmCalm ==
  ASSUME CalmStarts, TypesInv, TypesInv', CalmInv, RunConfirm
  PROVE  CalmInv'
BY DEF CalmInv, Alone, RunConfirm, Goto, KeepEntries, Written, Cleaned, Duplicates, Stale,
       Labelled, Valid, Updating, Targeted

LEMMA CountOldCalm ==
  ASSUME CalmStarts, TypesInv, TypesInv', CalmInv, CountOld
  PROVE  CalmInv'
BY DEF CalmInv, TypesInv, TypeOK, Alone, Waiting, Scripts, CountOld, Goto, KeepEntries,
       Written, Cleaned, Duplicates, Stale, Labelled, Valid, Updating, Targeted

LEMMA CreateFreshCalm ==
  ASSUME CalmStarts, TypesInv, TypesInv', CalmInv, NEW s \in Slots, CreateFresh(s)
  PROVE  CalmInv'
<1>1. Alone'
  BY DEF CalmInv, TypesInv, TypeOK, Alone, Waiting, Scripts, CreateFresh, Goto
<1>2. Written'
  <2>1. CASE Create(s)
    <3>1. /\ Min(Free) \in Nums /\ entry[Min(Free)] = Absent
          /\ entry' = [entry EXCEPT ![Min(Free)] = [label |-> s, part |-> s]]
      BY <2>1, CreateWrites DEF TypesInv
    <3> QED BY <3>1, CreateShows DEF CalmInv, TypesInv, NvramOK
  <2>2. CASE UNCHANGED entry
    BY <2>2 DEF CalmInv, Written
  <2> QED BY <2>1, <2>2 DEF CreateFresh, KeepEntries
<1>3. Cleaned'
  <2>1. Duplicates' = Duplicates /\ Stale' = Stale
    <3>1. CASE Create(s)
      <4>1. /\ Min(Free) \in Nums /\ entry[Min(Free)] = Absent
            /\ entry' = [entry EXCEPT ![Min(Free)] = [label |-> s, part |-> s]]
        BY <3>1, CreateWrites DEF TypesInv
      <4> QED BY <4>1, CreateShows DEF TypesInv, NvramOK
    <3>2. CASE UNCHANGED entry
      BY <3>2 DEF Duplicates, Stale, Valid, Labelled
    <3> QED BY <3>1, <3>2 DEF CreateFresh, KeepEntries
  <2> QED BY <2>1 DEF CalmInv, TypesInv, TypeOK, Cleaned, Scripts, CreateFresh, Goto
<1>4. Updating'
  BY DEF CalmInv, TypesInv, TypeOK, Alone, Updating, Targeted, Scripts, CreateFresh, Goto
<1> QED BY <1>1, <1>2, <1>3, <1>4 DEF CalmInv

LEMMA SetOrderCalm ==
  ASSUME CalmStarts, TypesInv, TypesInv', CalmInv, SetOrder
  PROVE  CalmInv'
BY DEF CalmInv, TypesInv, TypeOK, Alone, Waiting, Scripts, SetOrder, Goto, Written, Cleaned,
       Duplicates, Stale, Labelled, Valid, Updating, Targeted

LEMMA DropPairCalm ==
  ASSUME CalmStarts, TypesInv, TypesInv', CalmInv, NEW step \in {"dropOld", "undo"},
         NEW which \in {"old", "new"}, DropPair(step, which)
  PROVE  CalmInv'
<1>1. Alone'
  BY DEF CalmInv, TypesInv, TypeOK, Alone, Waiting, Scripts, DropPair, Goto
<1>2. Written' /\ Duplicates' \subseteq Duplicates /\ Stale' \subseteq Stale
  <2>1. ASSUME NEW n \in Nums, Drops(step, which, n)
        PROVE  Written' /\ Duplicates' \subseteq Duplicates /\ Stale' \subseteq Stale
    BY <2>1, DeleteShows DEF CalmInv, TypesInv, NvramOK, Drops, Delete
  <2>2. CASE Dropped(step, which)
    BY <2>2 DEF CalmInv, Written, Duplicates, Stale, Labelled, Valid, Dropped, KeepEntries
  <2> QED BY <2>1, <2>2, Dropping DEF TypesInv
<1>3. Cleaned'
  BY <1>2 DEF CalmInv, TypesInv, TypeOK, Cleaned, Scripts, DropPair, Goto
<1>4. Updating'
  BY DEF CalmInv, TypesInv, TypeOK, Alone, Updating, Targeted, Scripts, DropPair, Goto
<1> QED BY <1>1, <1>2, <1>3, <1>4 DEF CalmInv

LEMMA StopWatchdogCalm ==
  ASSUME CalmStarts, TypesInv, TypesInv', CalmInv, StopWatchdog
  PROVE  CalmInv'
BY DEF CalmInv, Alone, StopWatchdog, Goto, ConfirmFrame, KeepEntries, Written, Cleaned,
       Duplicates, Stale, Labelled, Valid, Updating, Targeted

LEMMA WatchdogStartsCalm ==
  ASSUME CalmStarts, TypesInv, TypesInv', CalmInv, WatchdogStarts
  PROVE  CalmInv'
BY DEF CalmInv, Alone, WatchdogStarts, nvram, machine, update, Written, Cleaned, Duplicates,
       Stale, Labelled, Valid, Updating

LEMMA WatchdogRebootsCalm ==
  ASSUME CalmStarts, TypesInv, TypesInv', CalmInv, WatchdogReboots
  PROVE  CalmInv'
BY DEF CalmInv, Alone, Waiting, Scripts, WatchdogReboots, Halt, nvram, Written, Cleaned,
       Updating, Targeted

LEMMA StartUpdateCalm ==
  ASSUME CalmStarts, TypesInv, TypesInv', CalmInv, StartUpdate
  PROVE  CalmInv'
<1>1. Alone'
  BY DEF Alone, CalmStarts, MayStart, Calm, StartUpdate, Goto, MayStart, Calm
<1>2. Written'
  BY DEF CalmInv, Written, StartUpdate, UpdateFrame
<1>3. Cleaned'
  BY DEF CalmInv, Cleaned, Duplicates, Stale, Labelled, Valid, StartUpdate, Goto,
         UpdateFrame
<1>4. Updating'
  <2>1. order # <<>>
    BY DEF CalmStarts, StartUpdate, MayStart, Calm, RunsDefault, Default
  <2> QED BY <2>1 DEF Updating, Targeted, StartUpdate, Goto, UpdateFrame
<1> QED BY <1>1, <1>2, <1>3, <1>4 DEF CalmInv

LEMMA ResolveTargetCalm ==
  ASSUME CalmStarts, TypesInv, TypesInv', CalmInv, ResolveTarget
  PROVE  CalmInv'
<1>1. Alone'
  BY DEF CalmInv, Alone, ResolveTarget, Goto
<1>2. Written'
  BY DEF CalmInv, Written, ResolveTarget, UpdateFrame
<1>3. Cleaned'
  BY DEF CalmInv, Cleaned, Duplicates, Stale, Labelled, Valid, ResolveTarget, Goto,
         UpdateFrame
<1>4. Updating'
  <2>1. mounted \in Slots /\ Other(mounted) \in Slots
    BY SlotsDiffer DEF TypesInv, Power, Scripts, ResolveTarget
  <2>2. Stale = {}
    BY DEF CalmInv, Alone, Cleaned, ResolveTarget
  <2>3. target' # NoNum => target' \in Valid(Other(mounted))
    BY <2>1, <2>2, NumberFound DEF TypesInv, NvramOK, Stale, ResolveTarget
  <2>4. \A u : Valid(u)' = Valid(u)
    BY DEF Valid, Labelled, ResolveTarget, UpdateFrame
  <2> QED
    BY <2>3, <2>4
    DEF CalmInv, Updating, Targeted, ResolveTarget, Goto, UpdateFrame, machine
<1> QED BY <1>1, <1>2, <1>3, <1>4 DEF CalmInv

LEMMA FormatInactiveCalm ==
  ASSUME CalmStarts, TypesInv, TypesInv', CalmInv, FormatInactive
  PROVE  CalmInv'
BY DEF CalmInv, Alone, FormatInactive, Goto, UpdateFrame, KeepTarget, machine, update,
       Written, Cleaned, Duplicates, Stale, Labelled, Valid, Updating, Targeted

LEMMA CopyInactiveCalm ==
  ASSUME CalmStarts, TypesInv, TypesInv', CalmInv, CopyInactive
  PROVE  CalmInv'
BY DEF CalmInv, TypesInv, TypeOK, Alone, CopyInactive, Goto, UpdateFrame, KeepTarget,
       machine, update, Written, Cleaned, Duplicates, Stale, Labelled, Valid, Updating,
       Targeted

LEMMA SetBootNextCalm ==
  ASSUME CalmStarts, TypesInv, TypesInv', CalmInv, SetBootNext
  PROVE  CalmInv'
BY DEF CalmInv, TypesInv, TypeOK, Alone, Scripts, SetBootNext, Goto, UpdateFrame,
       KeepTarget, machine, update, Written, Cleaned, Duplicates, Stale, Labelled, Valid,
       Updating, Targeted

LEMMA VerifyBootNextCalm ==
  ASSUME CalmStarts, TypesInv, TypesInv', CalmInv, VerifyBootNext
  PROVE  CalmInv'
BY DEF CalmInv, Alone, VerifyBootNext, Goto, UpdateFrame, KeepTarget, machine, update,
       Written, Cleaned, Duplicates, Stale, Labelled, Valid, Updating, Targeted

LEMMA ClearBootNextCalm ==
  ASSUME CalmStarts, TypesInv, TypesInv', CalmInv, ClearBootNext
  PROVE  CalmInv'
<1>1. Alone'
  BY DEF CalmInv, Alone, ClearBootNext, Goto
<1>2. Written'
  BY DEF CalmInv, Written, ClearBootNext, UpdateFrame
<1>3. Cleaned'
  BY DEF CalmInv, Cleaned, Duplicates, Stale, Labelled, Valid, ClearBootNext, Goto,
         UpdateFrame
<1>4. Updating'
  <2>1. mounted \in Slots /\ Other(mounted) \in Slots /\ Other(mounted) # mounted
    BY SlotsDiffer DEF TypesInv, Power, Scripts, ClearBootNext
  <2>2. \A u : Valid(u)' = Valid(u)
    BY DEF Valid, Labelled, ClearBootNext, UpdateFrame
  <2> QED
    BY <2>2
    DEF CalmInv, Updating, Targeted, ClearBootNext, Goto, UpdateFrame, KeepTarget, machine,
        update, Other
<1> QED BY <1>1, <1>2, <1>3, <1>4 DEF CalmInv

LEMMA OverwriteActiveCalm ==
  ASSUME CalmStarts, TypesInv, TypesInv', CalmInv, OverwriteActive
  PROVE  CalmInv'
BY DEF CalmInv, TypesInv, TypeOK, Alone, OverwriteActive, Goto, UpdateFrame, KeepTarget,
       machine, update, Written, Cleaned, Duplicates, Stale, Labelled, Valid, Updating,
       Targeted

LEMMA RebootUpdatedCalm ==
  ASSUME CalmStarts, TypesInv, TypesInv', CalmInv, RebootUpdated
  PROVE  CalmInv'
BY DEF CalmInv, Alone, Waiting, Scripts, RebootUpdated, Halt, nvram, Written, Cleaned,
       Updating, Targeted

LEMMA OperatorStartsCalm ==
  ASSUME CalmStarts, TypesInv, TypesInv', CalmInv, OperatorStarts
  PROVE  CalmInv'
BY DEF CalmInv, Alone, CalmStarts, MayStart, Calm, OperatorStarts, Goto, nvram, Written,
       Cleaned, Duplicates, Stale, Labelled, Valid, Updating, Targeted

LEMMA OperatorEndsCalm ==
  ASSUME CalmStarts, TypesInv, TypesInv', CalmInv, OperatorEnds
  PROVE  CalmInv'
BY DEF CalmInv, Alone, OperatorEnds, Goto, Written, Cleaned, Duplicates, Stale, Labelled,
       Valid, Updating, Targeted

-----------------------------------------------------------------------------
(* The default: on firmware that keeps what it is told KeepsInv is kept by *)
(* every step.                                                             *)

LEMMA BootKeeps ==
  ASSUME CalmStarts, TypesInv, TypesInv', CalmInv, CalmInv',
         BootNextWorks, KeepsInv, Boot
  PROVE  KeepsInv'
<1>1. Reliable'
  BY SpendTypes DEF KeepsInv, Reliable, Boot, StartWith, update
<1>2. Disk'
  <2>1. /\ pc["storage"]' = "duplicates" /\ pc["confirm"]' = "start" /\ next' = NoNum
        /\ pc["storage"] = "idle" /\ pc["confirm"] = "idle"
    BY DEF TypesInv, TypeOK, Power, On, Scripts, Boot, StartWith
  <2>2. UNCHANGED <<image, entry, order>>
    BY DEF Boot, StartWith
  <2>3. CASE ~Whole
    BY <2>1, <2>2, <2>3, SameDisk DEF KeepsInv, Disk, NewDisk
  <2>4. CASE Whole
    <3>1. OldDisk
      BY <2>4 DEF KeepsInv, Disk
    <3>2. ASSUME ~BothGood
          PROVE  Default \in Minima /\ current' = NumberOf(mounted)'
      <4>1. Default \in Minima
        BY <3>1, <3>2 DEF OldDisk, Settled
      <4>2. Selected \in Minima
        BY <3>1, <4>1, GoodHeadStarts, NumsAre DEF TypesInv, OldDisk, Selected, Bootable
      <4>3. PICK s \in Slots : Selected = NumberOf(s)
        BY <4>2 DEF Minima
      <4>4. entry[Selected].part = s
        BY <2>4, <3>1, <4>3, MinimaAreValid DEF TypesInv, TypeOK, OldDisk, Valid
      <4>5. current' = Selected /\ mounted' = s
        BY <2>2, <4>4 DEF Boot, StartWith
      <4> QED BY <2>2, <4>1, <4>3, <4>5, SameDisk
    <3>3. Settled'
      BY <2>2, <3>2, SameDisk DEF Settled
    <3> QED BY <2>1, <2>2, <2>4, <3>1, <3>3, SameDisk DEF Disk, OldDisk
  <2> QED BY <2>3, <2>4
<1>3. Runs'
  BY DEF TypesInv, TypeOK, CalmInv, Alone, Runs, Targeted, Scripts, Boot, StartWith
<1>4. Remembers'
  BY DEF KeepsInv, TypesInv, TypeOK, Power, On, Remembers, Waiting, Fresh, Boot, StartWith
<1> QED BY <1>1, <1>2, <1>3, <1>4 DEF KeepsInv

LEMMA BootUnlistedKeeps ==
  ASSUME CalmStarts, TypesInv, TypesInv', CalmInv, CalmInv',
         BootNextWorks, KeepsInv, BootUnlisted
  PROVE  KeepsInv'
<1>1. Reliable'
  BY SpendTypes DEF KeepsInv, Reliable, BootUnlisted, StartWith, update
<1>2. Disk'
  <2>1. ~GoodHead
    BY GoodHeadStarts DEF TypesInv, BootUnlisted
  <2>2. ~Whole /\ NewDisk
    BY <2>1 DEF KeepsInv, Disk, OldDisk
  <2> DEFINE k == Min(Free)
  <2>3. PICK p \in Slots : /\ entry' = [entry EXCEPT ![k] = [label |-> "auto", part |-> p]]
                           /\ StartWith(k)
    BY DEF BootUnlisted
  <2>4. k \in Nums /\ entry[k] = Absent
    BY FreeNumber DEF TypesInv, BootUnlisted
  <2> HIDE DEF k
  <2>5. \A s \in Slots : Labelled(s)' = Labelled(s) /\ Valid(s)' = Valid(s)
    BY <2>3, <2>4 DEF TypesInv, TypeOK, Labelled, Valid, Absent, Slots
  <2>6. /\ pc["storage"]' = "duplicates" /\ next' = NoNum /\ UNCHANGED image
    BY <2>3 DEF TypesInv, TypeOK, Scripts, StartWith
  <2> QED BY <2>2, <2>5, <2>6 DEF Disk, NewDisk, Whole, BothGood
<1>3. Runs'
  BY DEF TypesInv, TypeOK, CalmInv, Alone, Runs, Targeted, Scripts, BootUnlisted, StartWith
<1>4. Remembers'
  BY DEF KeepsInv, TypesInv, TypeOK, Power, On, Remembers, Waiting, Fresh, BootUnlisted,
         StartWith
<1> QED BY <1>1, <1>2, <1>3, <1>4 DEF KeepsInv

LEMMA PowerFailsKeeps ==
  ASSUME CalmStarts, TypesInv, TypesInv', CalmInv, CalmInv',
         BootNextWorks, KeepsInv, PowerFails
  PROVE  KeepsInv'
BY SameDisk
DEF KeepsInv, Reliable, PowerFails, Halt, Spend, nvram, On, Disk, OldDisk, NewDisk, Settled,
    Runs, Waiting, Fresh, Scripts, Targeted, Remembers, Nothing

LEMMA NvramLostKeeps ==
  ASSUME CalmStarts, TypesInv, TypesInv', CalmInv, CalmInv',
         BootNextWorks, KeepsInv, NvramLost
  PROVE  KeepsInv'
BY DEF KeepsInv, Reliable, NvramLost, Spend

LEMMA BecomeHealthyKeeps ==
  ASSUME CalmStarts, TypesInv, TypesInv', CalmInv, CalmInv',
         BootNextWorks, KeepsInv, BecomeHealthy
  PROVE  KeepsInv'
BY SameDisk
DEF KeepsInv, Reliable, BecomeHealthy, nvram, machine, update, On, Disk, OldDisk, NewDisk,
    Settled, Runs, RunsDefault, Remembers

LEMMA TakesOutKeeps ==
  ASSUME TypesInv, CalmInv, KeepsInv, NEW t \in Scripts, NEW n \in Nums, TakesOut(t, n)
  PROVE  KeepsInv'
<1>1. /\ pc["storage"] \in {"duplicates", "stale"} /\ pc["update"] = "idle" /\ UNCHANGED pc
      /\ pc["storage"] = "duplicates" \/ Stale # {}
  <2>1. pc[t] \in FixSteps
    BY DEF TakesOut, FixSteps
  <2> QED BY <2>1, CleanedBefore, OneWrites DEF CalmInv, TakesOut
<1>2. UNCHANGED <<image, next, current, mounted, running, healthy, mine, target, left>>
  BY DEF TakesOut, FixFrame, machine, update
<1>3. /\ \A s \in Slots : Labelled(s)' = Labelled(s) \ {n} /\ Valid(s)' = Valid(s) \ {n}
      /\ Stale' = Stale \ {n}
      /\ order # <<>> /\ Default # n => Default' = Default
  BY DeleteWrites, DeleteShows DEF TypesInv, NvramOK, TakesOut, Delete
<1>4. BothGood' = BothGood /\ \A s \in Slots : n \notin Valid(s)
  BY <1>2 DEF BothGood, TakesOut, Duplicates, Stale, Valid, Labelled, Slots
<1>5. Whole' = Whole
  BY <1>3, <1>4 DEF Whole
<1>6. Disk'
  <2>1. CASE ~Whole
    BY <1>1, <1>2, <1>3, <1>4, <1>5, <2>1 DEF KeepsInv, Disk, NewDisk
  <2>2. CASE Whole
    <3>1. OldDisk /\ n \in Duplicates
      BY <2>2 DEF KeepsInv, Disk, OldDisk, TakesOut
    <3>2. \A s \in Slots : Labelled(s)' = Labelled(s) /\ Valid(s)' = Valid(s)
      BY <1>3, <3>1 DEF Duplicates, Labelled, Valid, Slots
    <3>3. \A s \in Slots : NumberOf(s)' = NumberOf(s)
      BY <3>2 DEF NumberOf
    <3>4. Default' = Default
      <4>1. order # <<>> /\ Default # n
        BY <1>4, <3>1, GoodHeadStarts DEF TypesInv, OldDisk, GoodHead
      <4> QED BY <1>3, <4>1
    <3>5. GoodHead' /\ Stale' = {} /\ Minima' = Minima
      BY <1>2, <1>3, <3>1, <3>2, <3>3, <3>4 DEF OldDisk, GoodHead, Minima
    <3>6. Settled'
      <4>1. On => mounted \in Slots
        BY DEF TypesInv, Power
      <4> QED BY <1>1, <1>2, <1>4, <3>1, <3>3, <3>4, <3>5, <4>1 DEF OldDisk, Settled, On
    <3> QED BY <1>1, <1>2, <1>5, <2>2, <3>1, <3>4, <3>5, <3>6 DEF Disk, OldDisk, On
  <2> QED BY <2>1, <2>2
<1>7. Runs' /\ Reliable'
  BY <1>1, <1>2, <1>4 DEF KeepsInv, Reliable, Runs, Targeted, On
<1>8. Remembers'
  BY <1>1, <1>2 DEF KeepsInv, CalmInv, Alone, Remembers, Waiting, Fresh, FixSteps
<1> QED BY <1>6, <1>7, <1>8 DEF KeepsInv

LEMMA RemovalKeeps ==
  ASSUME CalmStarts, TypesInv, TypesInv', CalmInv, CalmInv',
         BootNextWorks, KeepsInv, NEW t \in Scripts, RemoveDuplicate(t) \/ RemoveStale(t)
  PROVE  KeepsInv'
<1>1. CASE GoesOn(t)
  <2>1. Disk'
    BY <1>1, SameDisk
    DEF KeepsInv, TypesInv, TypeOK, On, Disk, OldDisk, NewDisk, Settled, Waiting, Fresh,
        Scripts, GoesOn, Goto, KeepEntries, FixFrame, machine
  <2>2. Runs' /\ Reliable'
    BY <1>1, SameDisk
    DEF KeepsInv, Reliable, TypesInv, TypeOK, On, Runs, RunsDefault, Waiting, Targeted,
        Scripts, GoesOn, Goto, KeepEntries, FixFrame, machine, update
  <2>3. Remembers'
    BY <1>1 DEF KeepsInv, TypesInv, TypeOK, CalmInv, Alone, Remembers, Waiting, Fresh,
                FixSteps, Scripts, GoesOn, Goto, KeepEntries, FixFrame
  <2> QED BY <2>1, <2>2, <2>3 DEF KeepsInv
<1> QED BY <1>1, Removal, TakesOutKeeps

LEMMA CreateMissingKeeps ==
  ASSUME CalmStarts, TypesInv, TypesInv', CalmInv, CalmInv',
         BootNextWorks, KeepsInv, NEW t \in Scripts, NEW s \in Slots, CreateMissing(t, s)
  PROVE  KeepsInv'
<1>1. Reliable'
  BY DEF KeepsInv, Reliable, CreateMissing, CreateFails, Spend
<1>2. Disk'
  <2>1. pc[t] \in FixSteps
    BY DEF FixSteps, CreateMissing
  <2>2. CASE Whole
    <3>1. Labelled(s) # {}
      BY <2>2 DEF Whole, Valid
    <3>2. UNCHANGED <<image, entry, order, next, current, mounted, running>>
      BY <3>1 DEF CreateMissing, Create, FixFrame, machine
    <3>3. /\ (pc["storage"] = "over")' <=> pc["storage"] = "over"
          /\ (pc["confirm"] = "over")' <=> pc["confirm"] = "over"
          /\ (pc["confirm"] \in Fresh)' <=> pc["confirm"] \in Fresh
          /\ (pc["confirm"] \in Waiting)' <=> pc["confirm"] \in Waiting
      BY DEF TypesInv, TypeOK, Scripts, Fresh, Waiting, CreateMissing, Goto
    <3> QED BY <2>2, <3>2, <3>3, SameDisk DEF KeepsInv, Disk, OldDisk, Settled, On
  <2>3. CASE ~Whole
    <3>1. NewDisk
      BY <2>3 DEF KeepsInv, Disk
    <3>2. t = "storage"
      BY <2>1, <3>1, OneWrites DEF CalmInv, NewDisk
    <3>3. Duplicates = {} /\ Stale = {}
      BY <3>2 DEF CalmInv, Cleaned, CreateMissing
    <3>4. \A u \in Slots : Labelled(u) = Valid(u)
      BY <3>3 DEF Stale, Valid
    <3>5. \A n \in Nums : entry[n] = Absent \/ \E u \in Slots : n \in Labelled(u)
      BY <3>3 DEF CalmInv, Written, Duplicates, Labelled
    <3>6. CASE Labelled(s) # {}
      <4>1. s = "a" /\ pc["storage"]' = "createB" /\ UNCHANGED <<image, entry, order, next>>
        <5>1. CASE s = "a"
          BY <3>2, <3>6, <5>1 DEF TypesInv, TypeOK, CreateMissing, Goto, FixFrame
        <5>2. CASE s = "b"
          <6>1. Valid("a") # {} /\ Valid("b") # {}
            BY <3>1, <3>2, <3>4, <3>6, <5>2 DEF NewDisk, CreateMissing, Slots
          <6> QED BY <2>3, <6>1 DEF Whole, Slots
        <5> QED BY <5>1, <5>2 DEF Slots
      <4> QED BY <2>3, <3>1, <3>6, <4>1, SameDisk DEF Disk, NewDisk
    <3>7. CASE Labelled(s) = {}
      <4>1. Free # {}
        <5>1. SUFFICES ASSUME Free = {}
                       PROVE  FALSE
          OBVIOUS
        <5>2. PICK u \in Slots : u # s
          BY DEF Slots
        <5>3. \A n \in Nums : n \in Labelled(u)
          BY <3>5, <3>7, <5>1, <5>2 DEF Free, Slots
        <5>4. 0 \in Labelled(u) /\ 1 \in Labelled(u)
          BY <5>3, NumsAre
        <5> QED BY <3>1, <5>4 DEF NewDisk
      <4>2. Create(s)
        BY <3>7, <4>1 DEF CreateMissing, CreateFails, Spend, KeepsInv, Reliable
      <4> DEFINE k == Min(Free)
      <4>3. /\ k \in Nums /\ Labelled(s)' = {k} /\ Valid(s)' = {k} /\ Stale' = {}
            /\ \A u \in Slots \ {s} : Labelled(u)' = Labelled(u) /\ Valid(u)' = Valid(u)
            /\ Default' = k
        BY <3>3, <3>4, <3>7, <4>2, CreateWrites, CreateShows DEF TypesInv, NvramOK
      <4> HIDE DEF k
      <4>4. UNCHANGED <<image, next>> /\ BothGood'
        BY <3>1 DEF CreateMissing, FixFrame, NewDisk, BothGood
      <4>5. pc["storage"]' = (IF s = "a" THEN "createB" ELSE "order")
        BY <3>2 DEF TypesInv, TypeOK, Scripts, CreateMissing, Goto
      <4>6. CASE Whole'
        <5>1. GoodHead'
          BY <4>3, <4>4 DEF GoodHead, BothGood
        <5> QED BY <3>1, <4>3, <4>4, <4>5, <4>6, <5>1 DEF Disk, OldDisk, NewDisk, Settled
      <4>7. CASE ~Whole'
        <5>1. s = "a"
          <6>1. SUFFICES ASSUME s = "b"
                         PROVE  FALSE
            BY DEF Slots
          <6>2. Labelled("a") # {}
            BY <3>1, <3>2, <6>1 DEF NewDisk, CreateMissing
          <6>3. Valid("a")' # {} /\ Valid("b")' # {}
            BY <3>4, <4>3, <6>1, <6>2 DEF Slots
          <6> QED BY <4>7, <6>3 DEF Whole, Slots
        <5>2. \A u \in Slots : \A m, n \in Labelled(u)' : m = n
          BY <3>1, <4>3 DEF NewDisk
        <5> QED BY <3>1, <4>3, <4>4, <4>5, <4>7, <5>1, <5>2 DEF Disk, NewDisk
      <4> QED BY <4>6, <4>7
    <3> QED BY <3>6, <3>7
  <2> QED BY <2>2, <2>3
<1>3. Runs'
  <2>1. pc[t] \in FixSteps
    BY DEF FixSteps, CreateMissing
  <2>2. CASE pc["update"] = "idle" /\ t # "update"
    <3>1. BothGood' = BothGood
      BY DEF BothGood, CreateMissing, FixFrame
    <3> QED
      BY <2>2, <3>1
      DEF KeepsInv, Runs, Targeted, Waiting, On, CreateMissing, Goto, FixFrame, machine
  <2>3. CASE t = "update" \/ pc["update"] # "idle"
    <3>1. pc["storage"] = "over"
      BY <2>1, <2>3, OneWrites DEF CalmInv, Alone
    <3>2. Labelled(s) # {}
      BY <3>1 DEF KeepsInv, Disk, NewDisk, Whole, Valid
    <3> QED
      BY <3>2, SameDisk
      DEF KeepsInv, On, Runs, RunsDefault, Waiting, Targeted, CreateMissing, Goto, FixFrame,
          machine, update
  <2> QED BY <2>2, <2>3
<1>4. Remembers'
  BY DEF KeepsInv, CalmInv, Alone, Remembers, Waiting, Fresh, FixSteps, Scripts,
         CreateMissing, Goto, FixFrame
<1> QED BY <1>1, <1>2, <1>3, <1>4 DEF KeepsInv

LEMMA FixOrderKeeps ==
  ASSUME CalmStarts, TypesInv, TypesInv', CalmInv, CalmInv',
         BootNextWorks, KeepsInv, NEW t \in Scripts, FixOrder(t)
  PROVE  KeepsInv'
<1>1. Whole /\ OldDisk
  <2>1. pc[t] \in FixSteps
    BY DEF FixSteps, FixOrder
  <2> QED BY <2>1, OneWrites DEF KeepsInv, Disk, NewDisk, CalmInv, FixOrder
<1>2. /\ \A s \in Slots : NumberOf(s) \in Valid(s) /\ NumberOf(s) # NoNum
      /\ Minima = {NumberOf("a"), NumberOf("b")}
  BY <1>1, MinimaAreValid DEF TypesInv, NvramOK, OldDisk, Minima, Slots
<1>3. UNCHANGED <<image, entry, next>> /\ BothGood' = BothGood
  BY DEF FixOrder, FixFrame, BothGood
<1>4. Reliable'
  BY DEF KeepsInv, Reliable, FixOrder
<1>5. Remembers'
  BY DEF KeepsInv, CalmInv, Alone, Remembers, Waiting, Fresh, FixSteps, Scripts, FixOrder,
         Goto, FixFrame, AfterFix
<1>6. CASE Default \in Minima
  <2>1. UNCHANGED order
    BY <1>2, <1>6 DEF FixOrder
  <2>2. Disk'
    BY <1>6, <2>1, SameDisk
    DEF KeepsInv, On, Disk, OldDisk, NewDisk, Settled, Waiting, FixOrder, Goto, FixFrame,
        machine, AfterFix
  <2>3. Runs'
    BY <2>1, SameDisk
    DEF KeepsInv, On, Runs, RunsDefault, Waiting, Targeted, FixOrder, Goto, FixFrame,
        machine, update, AfterFix
  <2> QED BY <1>4, <1>5, <2>2, <2>3 DEF KeepsInv
<1>7. CASE Default \notin Minima
  <2>1. order' = <<NumberOf("a"), NumberOf("b")>>
    BY <1>2, <1>7 DEF FixOrder, Slots
  <2>2. BothGood /\ pc["update"] = "idle" /\ t # "update"
    BY <1>1, <1>7 DEF OldDisk, Settled, CalmInv, Alone, Fresh, FixOrder
  <2>3. /\ NumberOf("a") \in Nums /\ NumberOf("b") \in Nums
        /\ entry[NumberOf("a")].label = "a" /\ entry[NumberOf("b")].label = "b"
    BY <1>2 DEF Valid, Labelled, Slots
  <2>4. Default' = NumberOf("a")
    BY <1>3, <2>1, <2>3, OrderWrites DEF TypesInv, Slots
  <2>5. /\ Whole' = Whole /\ Stale' = Stale /\ Minima' = Minima
        /\ \A s : Valid(s)' = Valid(s)
    BY <1>3 DEF Whole, Stale, Minima, NumberOf, Valid, Labelled
  <2>6. GoodHead' /\ Default' \in Minima'
    BY <1>2, <1>3, <2>2, <2>4, <2>5 DEF GoodHead, BothGood, Slots
  <2>7. On' /\ ~(pc["storage"] = "over" /\ pc["confirm"] = "over")' => next' = NoNum
    BY <1>1 DEF On, OldDisk, FixOrder, Goto, FixFrame, machine
  <2>8. Disk'
    BY <1>1, <1>3, <2>2, <2>5, <2>6, <2>7 DEF Disk, OldDisk, Settled
  <2>9. Runs'
    BY <1>3, <2>2 DEF KeepsInv, Runs, Targeted, On, FixOrder, Goto, FixFrame, machine
  <2> QED BY <1>4, <1>5, <2>8, <2>9 DEF KeepsInv
<1> QED BY <1>6, <1>7

LEMMA CheckTrialKeeps ==
  ASSUME CalmStarts, TypesInv, TypesInv', CalmInv, CalmInv',
         BootNextWorks, KeepsInv, CheckTrial
  PROVE  KeepsInv'
BY SameDisk
DEF KeepsInv, Reliable, CheckTrial, Goto, ConfirmFrame, KeepEntries, machine, On, CalmInv,
    Alone, Disk, OldDisk, NewDisk, Settled, Runs, Waiting, Fresh, Targeted, Remembers

LEMMA GiveUpKeeps ==
  ASSUME CalmStarts, TypesInv, TypesInv', CalmInv, CalmInv',
         BootNextWorks, KeepsInv, GiveUp
  PROVE  KeepsInv'
BY SameDisk
DEF KeepsInv, Reliable, GiveUp, Goto, ConfirmFrame, KeepEntries, machine, On, CalmInv,
    Alone, Disk, OldDisk, NewDisk, Settled, Runs, Waiting, Fresh, Targeted, Remembers

LEMMA RunConfirmKeeps ==
  ASSUME CalmStarts, TypesInv, TypesInv', CalmInv, CalmInv',
         BootNextWorks, KeepsInv, RunConfirm
  PROVE  KeepsInv'
<1>1. Reliable'
  BY SpendTypes
  DEF KeepsInv, Reliable, RunConfirm, Goto, ConfirmFrame, KeepEntries, machine, update
<1>2. Disk'
  BY SameDisk
  DEF KeepsInv, On, Disk, OldDisk, NewDisk, Settled, Waiting, Fresh, RunConfirm, Goto,
      ConfirmFrame, KeepEntries, machine
<1>3. Runs'
  <2>1. CASE current = Default
    BY <2>1
    DEF KeepsInv, On, CalmInv, Alone, Runs, Waiting, Targeted, RunConfirm, Goto,
        ConfirmFrame, machine
  <2>2. CASE current # Default
    <3>1. OldDisk /\ On /\ pc["storage"] = "over"
      BY DEF KeepsInv, Disk, NewDisk, CalmInv, Alone, TypesInv, Power, On, RunConfirm
    <3>2. mounted \in Slots /\ image[mounted] \in Good
      BY <3>1 DEF KeepsInv, Runs, TypesInv, Power, RunConfirm
    <3>3. BothGood
      <4>1. SUFFICES ASSUME ~BothGood
                     PROVE  current = Default
        BY <2>2
      <4>2. Default \in Minima /\ current = NumberOf(mounted)
        BY <3>1, <4>1 DEF OldDisk, Settled, Waiting, RunConfirm
      <4>3. PICK s \in Slots : Default \in Valid(s) /\ image[s] \in Good
        BY <3>1 DEF OldDisk, GoodHead
      <4>4. s = mounted
        BY <3>2, <4>1, <4>3 DEF BothGood, Slots
      <4>5. PICK u \in Slots : Default = NumberOf(u)
        BY <4>2 DEF Minima
      <4>6. Default \in Labelled(u) /\ Default \in Labelled(s)
        BY <4>3, <4>5, NumberFound, NumsAre DEF TypesInv, TypeOK, Valid, Labelled
      <4>7. u = s
        BY <4>6 DEF Labelled
      <4> QED BY <4>2, <4>4, <4>5, <4>7
    <3> QED
      BY <3>3, SameDisk
      DEF KeepsInv, On, Runs, RunsDefault, RunConfirm, Goto, ConfirmFrame, KeepEntries,
          machine, update
  <2> QED BY <2>1, <2>2
<1>4. Remembers'
  BY DEF KeepsInv, Remembers, Waiting, Fresh, RunConfirm, Goto
<1> QED BY <1>1, <1>2, <1>3, <1>4 DEF KeepsInv

LEMMA CountOldKeeps ==
  ASSUME CalmStarts, TypesInv, TypesInv', CalmInv, CalmInv',
         BootNextWorks, KeepsInv, CountOld
  PROVE  KeepsInv'
<1>1. Reliable'
  BY SpendTypes
  DEF KeepsInv, Reliable, CountOld, Goto, ConfirmFrame, KeepEntries, machine, update
<1>2. Disk'
  BY SameDisk
  DEF KeepsInv, On, CalmInv, Alone, Disk, OldDisk, NewDisk, Settled, Runs, Waiting, Fresh,
      CountOld, ConfirmFrame, KeepEntries, machine
<1>3. Runs'
  BY SameDisk
  DEF KeepsInv, TypesInv, TypeOK, On, Runs, RunsDefault, Waiting, Scripts, CountOld, Goto,
      ConfirmFrame, KeepEntries, machine, update
<1>4. Remembers'
  <2>1. CASE \A s \in Slots : Cardinality(Valid(s)) = 1
    <3>1. \A s \in Slots : Valid(s) = {Min(Valid(s))}
      <4>1. SUFFICES ASSUME NEW s \in Slots
                     PROVE  Valid(s) = {Min(Valid(s))}
        OBVIOUS
      <4>2. Valid(s) \in SUBSET Nums
        BY DEF Valid, Labelled
      <4>3. IsFiniteSet(Valid(s))
        <5>1. NumCount - 1 \in Int /\ 0 \in Int
          BY NumsAre
        <5>2. IsFiniteSet(Nums)
          BY <5>1, FS_Interval DEF Nums
        <5> QED BY <4>2, <5>2, FS_Subset
      <4>4. PICK x : Valid(s) = {x}
        BY <2>1, <4>3, FS_Singleton
      <4> QED BY <4>2, <4>4, LowestNumber, NumsAre
    <3>2. OldDisk /\ Whole
      BY DEF KeepsInv, Disk, NewDisk, CalmInv, Alone, Waiting, CountOld
    <3>3. /\ \A s \in Slots : mine'.old[s] = Min(Valid(s)) /\ mine'.new[s] = NoNum
          /\ pc["confirm"]' = "newA" /\ UNCHANGED <<entry, order>>
      BY <2>1
      DEF KeepsInv, TypesInv, TypeOK, Remembers, Scripts, CountOld, Goto, KeepEntries
    <3>4. \A s \in Slots : Labelled(s)' = Valid(s) /\ Valid(s)' = Valid(s)
      BY <3>2, <3>3 DEF OldDisk, Stale, Valid, Labelled
    <3>5. PICK s \in Slots : Default \in Valid(s)
      BY <3>2 DEF OldDisk, GoodHead
    <3>6. InOrder(mine.old[s])'
      <4>1. InOrder(Default) /\ mine'.old[s] = Default
        BY <3>1, <3>2, <3>3, <3>5, GoodHeadStarts DEF TypesInv, OldDisk
      <4> QED BY <3>3, <4>1 DEF InOrder
    <3>7. \A u \in Slots : mine'.old[u] \in Valid(u) /\ mine'.old[u] # NoNum
      BY <3>1, <3>3, NumsAre DEF Valid, Labelled
    <3> QED BY <3>1, <3>3, <3>4, <3>6, <3>7 DEF Remembers, Waiting, FixSteps, Fresh
  <2>2. CASE ~\A s \in Slots : Cardinality(Valid(s)) = 1
    BY <2>2
    DEF TypesInv, TypeOK, Remembers, Waiting, Fresh, FixSteps, Scripts, CountOld, Goto
  <2> QED BY <2>1, <2>2
<1> QED BY <1>1, <1>2, <1>3, <1>4 DEF KeepsInv

LEMMA CreateFreshKeeps ==
  ASSUME CalmStarts, TypesInv, TypesInv', CalmInv, CalmInv',
         BootNextWorks, KeepsInv, NEW s \in Slots, CreateFresh(s)
  PROVE  KeepsInv'
<1>1. /\ pc["confirm"] \in {"newA", "newB"} /\ OldDisk /\ Whole /\ BothGood /\ On
      /\ pc["update"] = "idle"
  BY DEF KeepsInv, Disk, NewDisk, CalmInv, Alone, Runs, Waiting, TypesInv, Power, Scripts,
         CreateFresh
<1>2. UNCHANGED <<image, next, mounted, running, healthy>> /\ BothGood'
  BY <1>1 DEF CreateFresh, ConfirmFrame, machine, BothGood
<1>3. Reliable'
  BY DEF KeepsInv, Reliable, CreateFresh, CreateFails, Spend
<1>4. CASE Create(s) /\ mine' = [mine EXCEPT !.new[s] = Min(Free)]
           /\ Goto("confirm", IF s = "a" THEN "newB" ELSE "front")
  <2> DEFINE k == Min(Free)
  <2>1. /\ k \in Nums /\ entry[k] = Absent /\ Stale' = Stale
        /\ Labelled(s)' = Labelled(s) \cup {k} /\ Valid(s)' = Valid(s) \cup {k}
        /\ \A u \in Slots \ {s} : Labelled(u)' = Labelled(u) /\ Valid(u)' = Valid(u)
        /\ \A m : InOrder(m) => InOrder(m)'
        /\ Default' = k
    BY <1>4, CreateWrites, CreateShows DEF TypesInv, NvramOK
  <2>2. /\ mine'.old = mine.old /\ mine'.new[s] = k
        /\ \A u \in Slots \ {s} : mine'.new[u] = mine.new[u]
        /\ pc["confirm"]' = (IF s = "a" THEN "newB" ELSE "front")
        /\ pc["update"]' = "idle"
    BY <1>1, <1>4 DEF TypesInv, TypeOK, Scripts, Goto
  <2> HIDE DEF k
  <2>3. Disk'
    <3>1. GoodHead' /\ Whole'
      BY <1>1, <1>2, <2>1 DEF BothGood, GoodHead, Whole
    <3> QED BY <1>1, <1>2, <2>1, <2>2, <3>1 DEF Disk, OldDisk, Settled, Fresh, On
  <2>4. Runs'
    BY <1>1, <1>2, <2>2 DEF KeepsInv, Runs, Targeted, On
  <2>5. Remembers'
    <3>1. /\ \A u \in Slots : /\ Labelled(u) \subseteq {mine.old[u], mine.new[u]}
                              /\ mine.old[u] \in Valid(u)
          /\ \A u, v \in Slots : mine.old[u] # mine.new[v]
          /\ \E u \in Slots : InOrder(mine.old[u])
          /\ mine.new[s] = NoNum /\ (s = "a" => mine.new["b"] = NoNum)
      BY <1>1 DEF KeepsInv, Remembers, Fresh, Waiting, FixSteps, CreateFresh, Slots
    <3>2. \A u \in Slots : mine.old[u] # k
      BY <2>1, <3>1 DEF Valid, Labelled, Absent, Slots
    <3>3. \A u \in Slots : /\ Labelled(u)' \subseteq {mine'.old[u], mine'.new[u]}
                           /\ mine'.old[u] \in Valid(u)'
      BY <2>1, <2>2, <3>1, NumsAre DEF Labelled
    <3>4. \A u, v \in Slots : mine'.old[u] # mine'.new[v]
      BY <2>2, <3>1, <3>2
    <3> QED BY <2>1, <2>2, <3>1, <3>3, <3>4 DEF Remembers, Waiting, FixSteps, Slots
  <2> QED BY <1>3, <2>3, <2>4, <2>5 DEF KeepsInv
<1>5. CASE Goto("confirm", "undo") /\ KeepEntries /\ UNCHANGED mine
  <2>1. Disk'
    BY <1>1, <1>2, <1>5, SameDisk DEF Disk, OldDisk, Settled, Fresh, KeepEntries, Goto, On
  <2>2. Runs'
    BY <1>1, <1>2, <1>5 DEF KeepsInv, On, Runs, Targeted, Goto
  <2>3. Remembers'
    BY <1>1, <1>5, SameDisk
    DEF KeepsInv, Remembers, Waiting, Fresh, FixSteps, CreateFresh, KeepEntries,
        ConfirmFrame, Goto
  <2> QED BY <1>3, <2>1, <2>2, <2>3 DEF KeepsInv
<1> QED BY <1>4, <1>5 DEF CreateFresh

LEMMA SetOrderKeeps ==
  ASSUME CalmStarts, TypesInv, TypesInv', CalmInv, CalmInv',
         BootNextWorks, KeepsInv, SetOrder
  PROVE  KeepsInv'
<1>1. /\ pc["confirm"] = "front" /\ OldDisk /\ Whole /\ BothGood /\ On
      /\ pc["storage"] = "over" /\ pc["update"] = "idle"
  BY DEF KeepsInv, Disk, NewDisk, CalmInv, Alone, Runs, Waiting, TypesInv, Power, Scripts,
         SetOrder
<1>2. /\ order' = <<mine.new[mounted], mine.new[Other(mounted)]>>
      /\ pc' = [pc EXCEPT !["confirm"] = "dropOld"]
      /\ UNCHANGED <<image, entry, next, running, mounted, current, mine, healthy, left>>
  BY DEF KeepsInv, Reliable, SetOrder, Spend, Goto, ConfirmFrame, machine
<1>3. mounted \in Slots /\ Other(mounted) \in Slots /\ Other(mounted) # mounted
  BY <1>1, SlotsDiffer
<1>4. \A s \in Slots : mine.new[s] \in Valid(s)
  BY <1>1 DEF TypesInv, Created, Slots
<1>5. /\ \A n : InOrder(n)' <=> n \in {mine.new[mounted], mine.new[Other(mounted)]}
      /\ Default' = mine.new[mounted]
  BY <1>2, <1>3, <1>4, OrderWrites DEF TypesInv, Valid, Labelled
<1>6. /\ Whole' = Whole /\ Stale' = Stale /\ BothGood' = BothGood
      /\ \A s : Valid(s)' = Valid(s) /\ Labelled(s)' = Labelled(s)
  BY <1>2 DEF Whole, Stale, BothGood, Valid, Labelled
<1>7. pc["confirm"]' = "dropOld" /\ pc["update"]' = "idle" /\ pc["storage"]' = "over"
  BY <1>1, <1>2 DEF TypesInv, TypeOK, Scripts
<1>8. Disk'
  <2>1. GoodHead'
    BY <1>1, <1>2, <1>3, <1>4, <1>5, <1>6 DEF GoodHead, BothGood
  <2>2. next = NoNum
    BY <1>1 DEF OldDisk
  <2> QED BY <1>1, <1>2, <1>6, <1>7, <2>1, <2>2 DEF Disk, OldDisk, Settled, Fresh
<1>9. Runs' /\ Reliable'
  BY <1>1, <1>2, <1>6, <1>7 DEF KeepsInv, Runs, Reliable, Targeted, On
<1>10. Remembers'
  <2>1. /\ \A s \in Slots : Labelled(s) \subseteq {mine.old[s], mine.new[s]}
        /\ \A s, t \in Slots : mine.old[s] # mine.new[t]
    BY <1>1 DEF KeepsInv, Remembers, Fresh
  <2>2. \A n \in Nums : InOrder(n)' => \E s \in Slots : n = mine.new[s]
    BY <1>3, <1>5
  <2> QED BY <1>2, <1>4, <1>6, <1>7, <2>1, <2>2 DEF Remembers, Waiting, FixSteps
<1> QED BY <1>8, <1>9, <1>10 DEF KeepsInv

LEMMA DropOldKeeps ==
  ASSUME CalmStarts, TypesInv, TypesInv', CalmInv, CalmInv',
         BootNextWorks, KeepsInv, DropOld
  PROVE  KeepsInv'
<1>1. /\ pc["confirm"] = "dropOld" /\ OldDisk /\ Whole /\ BothGood /\ On
      /\ pc["storage"] = "over" /\ pc["update"] = "idle"
  BY DEF KeepsInv, Disk, NewDisk, CalmInv, Alone, Runs, Waiting, TypesInv, Power, Scripts,
         DropOld, DropPair
<1>2. UNCHANGED <<image, next, running, mounted, healthy, mine, left>> /\ BothGood'
  BY <1>1 DEF DropOld, DropPair, ConfirmFrame, machine, BothGood
<1>3. /\ \A s \in Slots : Labelled(s) \subseteq {mine.old[s], mine.new[s]}
      /\ \A s, u \in Slots : mine.old[s] # mine.new[u]
  BY <1>1 DEF KeepsInv, Remembers, Fresh
<1>4. /\ \A s \in Slots : mine.new[s] \in Valid(s)
      /\ \A m \in Nums : InOrder(m) => \E s \in Slots : m = mine.new[s]
  BY <1>1 DEF KeepsInv, Remembers, Fresh
<1>5. Reliable'
  BY <1>2 DEF KeepsInv, Reliable
<1>6. ASSUME NEW n \in Nums, Drops("dropOld", "old", n)
      PROVE  Disk' /\ Runs' /\ Remembers'
  <2>1. Delete(n) /\ UNCHANGED pc /\ \A s \in Slots : mine.new[s] # n
    BY <1>3, <1>6 DEF Drops
  <2>2. /\ \A s \in Slots : Labelled(s)' = Labelled(s) \ {n} /\ Valid(s)' = Valid(s) \ {n}
        /\ Stale' = {} /\ Duplicates' = {} /\ Written'
        /\ \A m : InOrder(m)' <=> InOrder(m) /\ m # n
        /\ order # <<>> /\ Default # n => Default' = Default
    <3>1. Duplicates = {} /\ Stale = {}
      BY <1>1 DEF OldDisk, CalmInv, Cleaned
    <3> QED BY <2>1, <3>1, DeleteWrites, DeleteShows DEF TypesInv, NvramOK, CalmInv, Delete
  <2>3. Whole'
    BY <1>4, <2>1, <2>2 DEF Whole
  <2>4. GoodHead'
    <3>1. order # <<>> /\ InOrder(Default) /\ Default \in Nums
      BY <1>1, GoodHeadStarts DEF OldDisk, TypesInv
    <3>2. Default # n
      BY <1>4, <2>1, <3>1
    <3> QED BY <1>1, <1>2, <2>2, <3>1, <3>2 DEF OldDisk, GoodHead
  <2>5. Disk'
    BY <1>1, <1>2, <2>1, <2>2, <2>3, <2>4 DEF Disk, OldDisk, Settled, Fresh
  <2>6. Runs'
    BY <1>1, <1>2, <2>1 DEF KeepsInv, Runs, Targeted, On
  <2>7. Remembers'
    BY <1>1, <1>2, <1>3, <1>4, <2>1, <2>2 DEF Remembers, Waiting, FixSteps
  <2> QED BY <2>5, <2>6, <2>7
<1>7. CASE Dropped("dropOld", "old")
  <2>1. UNCHANGED <<entry, order>> /\ pc' = [pc EXCEPT !["confirm"] = "stop"]
    BY <1>7 DEF Dropped, KeepEntries, Goto
  <2>2. \A s \in Slots : mine.old[s] \notin Labelled(s)
    BY <1>7, NumsAre DEF Dropped, Free, Labelled, Absent, Slots
  <2>3. \A s \in Slots : Labelled(s) = {mine.new[s]}
    BY <1>3, <1>4, <2>2 DEF Valid
  <2>4. \A s \in Slots : NumberOf(s) = mine.new[s]
    BY <2>3, OnlyNumbers DEF TypesInv, TypeOK
  <2>5. Default \in Minima
    BY <1>1, <2>3, <2>4 DEF OldDisk, GoodHead, Valid, Minima
  <2>6. pc["confirm"]' = "stop" /\ pc["storage"]' = "over" /\ pc["update"]' = "idle"
    BY <1>1, <2>1 DEF TypesInv, TypeOK, Scripts
  <2>7. next = NoNum
    BY <1>1 DEF OldDisk
  <2>8. Disk'
    BY <1>1, <1>2, <2>1, <2>5, SameDisk DEF Disk, OldDisk, Settled
  <2>9. Runs'
    BY <1>1, <1>2, <2>6 DEF KeepsInv, Runs, Targeted, On
  <2>10. Remembers'
    BY <2>6 DEF Remembers, Waiting, FixSteps, Fresh
  <2> QED BY <1>5, <2>8, <2>9, <2>10 DEF KeepsInv
<1>8. (\E n \in Nums : Drops("dropOld", "old", n)) \/ Dropped("dropOld", "old")
  BY Dropping DEF TypesInv, DropOld
<1> QED BY <1>5, <1>6, <1>7, <1>8 DEF KeepsInv

LEMMA UndoKeeps ==
  ASSUME CalmStarts, TypesInv, TypesInv', CalmInv, CalmInv',
         BootNextWorks, KeepsInv, Undo
  PROVE  KeepsInv'
<1>1. /\ pc["confirm"] = "undo" /\ OldDisk /\ Whole /\ BothGood /\ On
      /\ pc["storage"] = "over" /\ pc["update"] = "idle"
  BY DEF KeepsInv, Disk, NewDisk, CalmInv, Alone, Runs, Waiting, TypesInv, Power, Scripts,
         Undo, DropPair
<1>2. UNCHANGED <<image, next, running, mounted, healthy, mine, left>> /\ BothGood'
  BY <1>1 DEF Undo, DropPair, ConfirmFrame, machine, BothGood
<1>3. /\ \A s \in Slots : Labelled(s) \subseteq {mine.old[s], mine.new[s]}
      /\ \A s, u \in Slots : mine.old[s] # mine.new[u]
  BY <1>1 DEF KeepsInv, Remembers, Fresh
<1>4. /\ \A s \in Slots : mine.old[s] \in Valid(s)
      /\ \E s \in Slots : InOrder(mine.old[s])
  BY <1>1 DEF KeepsInv, Remembers, Fresh
<1>5. Reliable'
  BY <1>2 DEF KeepsInv, Reliable
<1>6. ASSUME NEW n \in Nums, Drops("undo", "new", n)
      PROVE  Disk' /\ Runs' /\ Remembers'
  <2>1. Delete(n) /\ UNCHANGED pc /\ \A s \in Slots : mine.old[s] # n
    BY <1>3, <1>6 DEF Drops
  <2>2. /\ \A s \in Slots : Labelled(s)' = Labelled(s) \ {n} /\ Valid(s)' = Valid(s) \ {n}
        /\ Stale' = {} /\ Duplicates' = {} /\ Written'
        /\ \A m : InOrder(m)' <=> InOrder(m) /\ m # n
        /\ order # <<>> /\ Default # n => Default' = Default
    <3>1. Duplicates = {} /\ Stale = {}
      BY <1>1 DEF OldDisk, CalmInv, Cleaned
    <3> QED BY <2>1, <3>1, DeleteWrites, DeleteShows DEF TypesInv, NvramOK, CalmInv, Delete
  <2>3. Whole'
    BY <1>4, <2>1, <2>2 DEF Whole
  <2>4. GoodHead'
    <3>1. order' # <<>>
      BY <1>4, <2>1, <2>2 DEF InOrder
    <3>2. (NvramOK /\ Written /\ Duplicates = {} /\ Stale = {} /\ order # <<>>
           => \E s \in Slots : Default \in Valid(s))'
      BY HeadIsValid, PTL
    <3> QED BY <1>2, <2>2, <3>1, <3>2 DEF TypesInv, GoodHead, BothGood
  <2>5. Disk'
    BY <1>1, <1>2, <2>1, <2>2, <2>3, <2>4 DEF Disk, OldDisk, Settled, Fresh
  <2>6. Runs'
    BY <1>1, <1>2, <2>1 DEF KeepsInv, Runs, Targeted, On
  <2>7. Remembers'
    <3>1. \E s \in Slots : InOrder(mine.old[s])'
      BY <1>2, <1>4, <2>1, <2>2 DEF InOrder
    <3> QED BY <1>1, <1>2, <1>3, <1>4, <2>1, <2>2, <3>1 DEF Remembers, Waiting, FixSteps
  <2> QED BY <2>5, <2>6, <2>7
<1>7. CASE Dropped("undo", "new")
  <2>1. UNCHANGED <<entry, order>> /\ pc' = [pc EXCEPT !["confirm"] = "stop"]
    BY <1>7 DEF Dropped, KeepEntries, Goto
  <2>2. \A s \in Slots : mine.new[s] \notin Labelled(s)
    BY <1>7, NumsAre DEF Dropped, Free, Labelled, Absent, Slots
  <2>3. \A s \in Slots : Labelled(s) = {mine.old[s]}
    BY <1>3, <1>4, <2>2 DEF Valid
  <2>4. \A s \in Slots : NumberOf(s) = mine.old[s]
    BY <2>3, OnlyNumbers DEF TypesInv, TypeOK
  <2>5. Default \in Minima
    BY <1>1, <2>3, <2>4 DEF OldDisk, GoodHead, Valid, Minima
  <2>6. pc["confirm"]' = "stop" /\ pc["storage"]' = "over" /\ pc["update"]' = "idle"
    BY <1>1, <2>1 DEF TypesInv, TypeOK, Scripts
  <2>7. next = NoNum
    BY <1>1 DEF OldDisk
  <2>8. Disk'
    BY <1>1, <1>2, <2>1, <2>5, SameDisk DEF Disk, OldDisk, Settled
  <2>9. Runs'
    BY <1>1, <1>2, <2>6 DEF KeepsInv, Runs, Targeted, On
  <2>10. Remembers'
    BY <2>6 DEF Remembers, Waiting, FixSteps, Fresh
  <2> QED BY <1>5, <2>8, <2>9, <2>10 DEF KeepsInv
<1>8. (\E n \in Nums : Drops("undo", "new", n)) \/ Dropped("undo", "new")
  BY Dropping DEF TypesInv, Undo
<1> QED BY <1>5, <1>6, <1>7, <1>8 DEF KeepsInv

LEMMA StopWatchdogKeeps ==
  ASSUME CalmStarts, TypesInv, TypesInv', CalmInv, CalmInv',
         BootNextWorks, KeepsInv, StopWatchdog
  PROVE  KeepsInv'
BY SameDisk
DEF KeepsInv, Reliable, StopWatchdog, Goto, ConfirmFrame, KeepEntries, machine, On, CalmInv,
    Alone, Disk, OldDisk, NewDisk, Settled, Runs, Waiting, Fresh, FixSteps, Targeted,
    Remembers

LEMMA WatchdogStartsKeeps ==
  ASSUME CalmStarts, TypesInv, TypesInv', CalmInv, CalmInv',
         BootNextWorks, KeepsInv, WatchdogStarts
  PROVE  KeepsInv'
BY SameDisk
DEF KeepsInv, Reliable, WatchdogStarts, nvram, machine, update, On, Disk, OldDisk, NewDisk,
    Settled, Runs, RunsDefault, Remembers

LEMMA WatchdogRebootsKeeps ==
  ASSUME CalmStarts, TypesInv, TypesInv', CalmInv, CalmInv',
         BootNextWorks, KeepsInv, WatchdogReboots
  PROVE  KeepsInv'
BY SameDisk
DEF KeepsInv, Reliable, WatchdogReboots, Halt, nvram, On, Disk, OldDisk, NewDisk, Settled,
    Runs, Waiting, Fresh, Scripts, Targeted, Remembers, Nothing

LEMMA StartUpdateKeeps ==
  ASSUME CalmStarts, TypesInv, TypesInv', CalmInv, CalmInv',
         BootNextWorks, KeepsInv, StartUpdate
  PROVE  KeepsInv'
<1>1. Reliable'
  BY DEF KeepsInv, Reliable, StartUpdate, Spend
<1>2. Disk'
  BY SameDisk
  DEF KeepsInv, On, Disk, OldDisk, NewDisk, Settled, StartUpdate, Goto, UpdateFrame, machine
<1>3. Runs'
  <2>1. RunsDefault' = RunsDefault /\ RunsDefault
    BY DEF CalmStarts, StartUpdate, MayStart, Calm, RunsDefault, Default, UpdateFrame,
           machine
  <2> QED
    BY <2>1, SameDisk
    DEF KeepsInv, Runs, Targeted, On, StartUpdate, Goto, UpdateFrame, machine
<1>4. Remembers'
  BY DEF TypesInv, TypeOK, CalmInv, Alone, Remembers, Waiting, Fresh, FixSteps, StartUpdate,
         Goto
<1> QED BY <1>1, <1>2, <1>3, <1>4 DEF KeepsInv

LEMMA ResolveTargetKeeps ==
  ASSUME CalmStarts, TypesInv, TypesInv', CalmInv, CalmInv',
         BootNextWorks, KeepsInv, ResolveTarget
  PROVE  KeepsInv'
BY SameDisk
DEF KeepsInv, Reliable, ResolveTarget, Goto, UpdateFrame, machine, On, Disk, OldDisk,
    NewDisk, Settled, Runs, RunsDefault, Remembers

LEMMA WriteInactiveKeeps ==
  ASSUME CalmStarts, TypesInv, TypesInv', CalmInv, CalmInv',
         BootNextWorks, KeepsInv, FormatInactive \/ CopyInactive
  PROVE  KeepsInv'
<1>1. /\ On /\ OldDisk /\ Whole /\ RunsDefault /\ Default \in Minima
      /\ pc["storage"] = "over" /\ pc["confirm"] = "over"
  BY DEF KeepsInv, Disk, NewDisk, OldDisk, CalmInv, Alone, Runs, Fresh, TypesInv, Power,
         Scripts, FormatInactive, CopyInactive
<1>2. mounted \in Slots /\ Other(mounted) # mounted
  BY <1>1, SlotsDiffer
<1>3. /\ image'[mounted] = image[mounted]
      /\ UNCHANGED <<entry, order, next, running, mounted, healthy, target, left>>
  BY <1>2 DEF TypesInv, TypeOK, FormatInactive, CopyInactive, UpdateFrame, KeepTarget,
              machine, update
<1>4. /\ Whole' = Whole /\ Stale' = Stale /\ Default' = Default /\ Minima' = Minima
      /\ \A s : Valid(s)' = Valid(s) /\ NumberOf(s)' = NumberOf(s)
  BY <1>3 DEF Whole, Stale, Default, Minima, NumberOf, Valid, Labelled
<1>5. /\ pc["storage"]' = "over" /\ pc["confirm"]' = "over"
      /\ pc["update"]' \in {"copy", "next"} /\ pc["update"] \in Targeted
  BY <1>1 DEF TypesInv, TypeOK, Scripts, Targeted, FormatInactive, CopyInactive, Goto
<1>6. Disk'
  <2>1. PICK s \in Slots : Default \in Valid(s) /\ image[s] \in Good
    BY <1>1 DEF OldDisk, GoodHead
  <2>2. s = mounted
    BY <1>1, <2>1 DEF RunsDefault, Valid
  <2>3. GoodHead'
    BY <1>3, <1>4, <2>1, <2>2 DEF GoodHead
  <2> QED BY <1>1, <1>3, <1>4, <1>5, <2>3 DEF Disk, OldDisk, Settled, Waiting
<1>7. Runs'
  <2>1. RunsDefault'
    BY <1>1, <1>3, <1>4 DEF RunsDefault
  <2> QED BY <1>3, <1>4, <1>5, <2>1 DEF KeepsInv, Runs, On
<1>8. Remembers' /\ Reliable'
  BY <1>3, <1>5 DEF KeepsInv, Reliable, Remembers, Waiting, Fresh, FixSteps
<1> QED BY <1>6, <1>7, <1>8 DEF KeepsInv

LEMMA SetBootNextKeeps ==
  ASSUME CalmStarts, TypesInv, TypesInv', CalmInv, CalmInv',
         BootNextWorks, KeepsInv, SetBootNext
  PROVE  KeepsInv'
<1>1. Reliable'
  BY DEF KeepsInv, Reliable, SetBootNext, KeepTarget
<1>2. Disk'
  <2>1. /\ OldDisk /\ Whole /\ pc["storage"] = "over" /\ pc["confirm"] = "over" /\ On
    BY DEF KeepsInv, Disk, NewDisk, CalmInv, Alone, TypesInv, Power, Scripts, SetBootNext
  <2>2. target \in Minima
    BY <2>1, SlotsDiffer DEF KeepsInv, Runs, Targeted, Minima, SetBootNext
  <2>3. pc["storage"]' = "over" /\ pc["confirm"]' = "over"
    BY <2>1 DEF TypesInv, TypeOK, Scripts, SetBootNext, Goto
  <2> QED
    BY <2>1, <2>2, <2>3, SameDisk
    DEF Disk, OldDisk, Settled, SetBootNext, UpdateFrame, machine, WriteBootNext
<1>3. Runs'
  BY SameDisk
  DEF KeepsInv, TypesInv, TypeOK, On, Runs, RunsDefault, Targeted, Scripts, SetBootNext,
      Goto, UpdateFrame, KeepTarget, machine, update, WriteBootNext
<1>4. Remembers'
  BY DEF TypesInv, TypeOK, CalmInv, Alone, Remembers, Waiting, Fresh, FixSteps, Scripts,
         SetBootNext, Goto
<1> QED BY <1>1, <1>2, <1>3, <1>4 DEF KeepsInv

LEMMA VerifyBootNextKeeps ==
  ASSUME CalmStarts, TypesInv, TypesInv', CalmInv, CalmInv',
         BootNextWorks, KeepsInv, VerifyBootNext
  PROVE  KeepsInv'
BY SameDisk
DEF KeepsInv, Reliable, VerifyBootNext, Goto, UpdateFrame, KeepTarget, machine, update, On,
    Disk, OldDisk, NewDisk, Settled, Runs, RunsDefault, Targeted, Remembers

LEMMA ClearBootNextKeeps ==
  ASSUME CalmStarts, TypesInv, TypesInv', CalmInv, CalmInv',
         BootNextWorks, KeepsInv, ClearBootNext
  PROVE  KeepsInv'
BY DEF KeepsInv, ClearBootNext, Runs

LEMMA OverwriteActiveKeeps ==
  ASSUME CalmStarts, TypesInv, TypesInv', CalmInv, CalmInv',
         BootNextWorks, KeepsInv, OverwriteActive
  PROVE  KeepsInv'
BY DEF KeepsInv, OverwriteActive, Runs

LEMMA RebootUpdatedKeeps ==
  ASSUME CalmStarts, TypesInv, TypesInv', CalmInv, CalmInv',
         BootNextWorks, KeepsInv, RebootUpdated
  PROVE  KeepsInv'
BY SameDisk
DEF KeepsInv, Reliable, RebootUpdated, Halt, nvram, On, Disk, OldDisk, NewDisk, Settled,
    Runs, Waiting, Fresh, Scripts, Targeted, Remembers, Nothing

LEMMA OperatorStartsKeeps ==
  ASSUME CalmStarts, TypesInv, TypesInv', CalmInv, CalmInv',
         BootNextWorks, KeepsInv, OperatorStarts
  PROVE  KeepsInv'
BY SameDisk
DEF KeepsInv, Reliable, OperatorStarts, Goto, Spend, nvram, machine, TypesInv, TypeOK, On,
    CalmInv, Alone, Disk, OldDisk, NewDisk, Settled, Runs, Targeted, Remembers

LEMMA OperatorEndsKeeps ==
  ASSUME CalmStarts, TypesInv, TypesInv', CalmInv, CalmInv',
         BootNextWorks, KeepsInv, OperatorEnds
  PROVE  KeepsInv'
<1>1. Reliable'
  BY SpendTypes DEF KeepsInv, Reliable, OperatorEnds, Goto, WriteBootNext, machine, update
<1>2. Disk'
  <2>1. /\ OldDisk /\ Whole /\ pc["storage"] = "over" /\ pc["confirm"] = "over"
    BY DEF KeepsInv, Disk, NewDisk, CalmInv, Alone, OperatorEnds
  <2>2. next' = next \/ next' \in Minima
    BY DEF OperatorEnds, WriteBootNext, Minima
  <2>3. pc["storage"]' = "over" /\ pc["confirm"]' = "over"
    BY <2>1 DEF TypesInv, TypeOK, Scripts, OperatorEnds, Goto
  <2> QED
    BY <2>1, <2>2, <2>3, SameDisk
    DEF Disk, OldDisk, Settled, On, OperatorEnds, machine
<1>3. Runs'
  BY DEF KeepsInv, On, CalmInv, Alone, Runs, Targeted, OperatorEnds, Goto, machine
<1>4. Remembers'
  BY DEF CalmInv, Alone, Remembers, Waiting, Fresh, FixSteps, OperatorEnds, Goto
<1> QED BY <1>1, <1>2, <1>3, <1>4 DEF KeepsInv


-----------------------------------------------------------------------------
(* Initial states.                                                         *)

LEMMA InitDisk ==
  ASSUME Init
  PROVE  /\ entry \in [Nums -> Entries]
         /\ order = <<0, 1, 2>>
         /\ entry[2] = [label |-> "auto", part |-> "a"]
         /\ \A n \in Nums \ {0, 1, 2} : entry[n] = Absent
         /\ entry[0].label = "a" /\ entry[1].label = "b"
         /\ image["a"] \in Good
         /\ \/ entry[0].part = "a" /\ entry[1].part = "b"
            \/ entry[0].part = "gone" /\ entry[1].part = "gone" /\ BothGood
<1>1. PICK g \in Good, other \in Good \cup {NoImage}, own \in BOOLEAN :
        /\ image = [s \in Slots |-> IF s = "a" THEN g ELSE other]
        /\ entry = Known(own)
        /\ ~own => other = g
  BY DEF Init
<1>2. Known(own) \in [Nums -> Entries]
  BY DEF Known, Entries, Slots, Absent
<1>3. /\ Known(own)[0] = [label |-> "a", part |-> IF own THEN "a" ELSE "gone"]
      /\ Known(own)[1] = [label |-> "b", part |-> IF own THEN "b" ELSE "gone"]
      /\ Known(own)[2] = [label |-> "auto", part |-> "a"]
      /\ \A n \in Nums \ {0, 1, 2} : Known(own)[n] = Absent
  BY NumsAre DEF Known
<1>4. image["a"] \in Good /\ (~own => BothGood)
  BY <1>1 DEF BothGood, Slots
<1> QED BY <1>1, <1>2, <1>3, <1>4 DEF Init

LEMMA InitTypes ==
  ASSUME Init
  PROVE  TypesInv
<1>1. NvramOK
  <2>1. 0 \in Nums /\ 1 \in Nums /\ 2 \in Nums
    BY NumsAre
  <2>2. Len(order) = 3 /\ DOMAIN order = 1 .. 3
        /\ order[1] = 0 /\ order[2] = 1 /\ order[3] = 2
    BY InitDisk
  <2>3. order \in Seq(Nums)
    <3>1. <<0, 1, 2>> \in Seq(Nums)
      BY <2>1
    <3> QED BY <3>1, InitDisk
  <2>4. \A i, j \in DOMAIN order : order[i] = order[j] => i = j
    BY <2>2
  <2>5. \A n \in Nums : InOrder(n) => n \in {0, 1, 2}
    BY InitDisk DEF InOrder
  <2>6. Listed
    BY <2>5, InitDisk DEF Listed, Absent
  <2> QED BY <2>3, <2>4, <2>6, InitDisk DEF NvramOK, IsInjective
<1>2. image \in [Slots -> Images \cup {NoImage}]
  BY DEF Init, Images
<1>3. TypeOK
  BY <1>1, <1>2, EfiABAssumption DEF TypeOK, NvramOK, Init, Nothing, Steps
<1>4. Power /\ Created
  BY DEF Init, Power, On, Created, Scripts
<1> QED BY <1>1, <1>3, <1>4 DEF TypesInv

LEMMA InitCalm ==
  ASSUME Init
  PROVE  CalmInv
<1>1. Written
  BY InitDisk DEF Written, Slots
<1>2. Alone /\ Cleaned /\ Updating
  BY DEF Init, Alone, Cleaned, Updating, Waiting, Targeted, Scripts
<1> QED BY <1>1, <1>2 DEF CalmInv

LEMMA InitKeeps ==
  ASSUME ReliableFirmware, Init, BootNextWorks
  PROVE  KeepsInv
<1>1. Reliable
  BY DEF ReliableFirmware, Init, BootNextWorks, Reliable
<1>2. Disk
  <2>1. Labelled("a") = {0} /\ Labelled("b") = {1}
    <3>1. \A n \in Nums : n \notin {0, 1, 2} => entry[n].label = "none"
      BY InitDisk DEF Absent
    <3>2. entry[2].label = "auto" /\ entry[0].label = "a" /\ entry[1].label = "b"
      BY InitDisk
    <3>3. \A n \in Nums : (entry[n].label = "a" <=> n = 0) /\ (entry[n].label = "b" <=> n = 1)
      BY <3>1, <3>2
    <3>4. 0 \in Nums /\ 1 \in Nums
      BY NumsAre
    <3> QED BY <3>3, <3>4 DEF Labelled
  <2>2. Default = 0 /\ next = NoNum /\ pc["storage"] = "idle" /\ ~On
    BY InitDisk DEF Default, Init, Scripts, On
  <2>3. CASE entry[0].part = "a" /\ entry[1].part = "b"
    <3>1. Valid("a") = {0} /\ Valid("b") = {1}
      BY <2>1, <2>3 DEF Valid
    <3>2. Whole /\ Stale = {}
      BY <2>1, <3>1 DEF Whole, Stale, Slots
    <3>3. GoodHead
      BY <2>2, <3>1, InitDisk DEF GoodHead, Slots
    <3>4. Default \in Minima
      BY <2>1, <2>2, OnlyNumbers, InitDisk DEF Minima, Slots
    <3> QED BY <2>2, <3>2, <3>3, <3>4 DEF Disk, OldDisk, Settled
  <2>4. CASE entry[0].part = "gone" /\ entry[1].part = "gone" /\ BothGood
    <3>1. ~Whole
      BY <2>1, <2>4 DEF Whole, Valid, Slots
    <3> QED BY <2>1, <2>2, <2>4, <3>1 DEF Disk, NewDisk, Slots
  <2> QED BY <2>3, <2>4, InitDisk
<1>3. Runs /\ Remembers
  BY DEF Init, Runs, On, Remembers, Waiting, Targeted, Fresh, Scripts, Nothing
<1> QED BY <1>1, <1>2, <1>3 DEF KeepsInv

-----------------------------------------------------------------------------
(* The steps together, and the theorems.                                   *)

LEMMA TypesStep ==
  ASSUME TypesInv, [Next]_vars
  PROVE  TypesInv'
<1>1. CASE Boot \/ BootUnlisted \/ PowerFails \/ NvramLost \/ BecomeHealthy
  BY <1>1, BootTypes, BootUnlistedTypes, PowerFailsTypes, NvramLostTypes, BecomeHealthyTypes
<1>2. ASSUME NEW t \in Scripts, FixEntries(t)
      PROVE  TypesInv'
  BY <1>2, RemovalTypes, CreateMissingTypes, FixOrderTypes DEF FixEntries
<1>3. CASE Confirm
  BY <1>2, <1>3, CheckTrialTypes, GiveUpTypes, RunConfirmTypes, CountOldTypes,
     CreateFreshTypes, SetOrderTypes, DropPairTypes, StopWatchdogTypes
  DEF Confirm, Scripts, DropOld, Undo
<1>4. CASE WatchdogStarts \/ WatchdogReboots
  BY <1>4, WatchdogStartsTypes, WatchdogRebootsTypes
<1>5. CASE StartUpdate \/ Update
  BY <1>2, <1>5, StartUpdateTypes, ResolveTargetTypes, WriteInactiveTypes, SetBootNextTypes,
     VerifyBootNextTypes, ClearBootNextTypes, OverwriteActiveTypes, RebootUpdatedTypes
  DEF Update, Scripts
<1>6. CASE Operator
  BY <1>2, <1>6, OperatorStartsTypes, OperatorEndsTypes DEF Operator, Scripts
<1>7. CASE UNCHANGED vars
  BY <1>7
  DEF vars, nvram, machine, update, TypesInv, TypeOK, NvramOK, Listed, InOrder, Power, On,
      Created, Valid, Labelled
<1> QED BY <1>1, <1>2, <1>3, <1>4, <1>5, <1>6, <1>7 DEF Next, Scripts

LEMMA CalmStep ==
  ASSUME CalmStarts, TypesInv, TypesInv', CalmInv, [Next]_vars
  PROVE  CalmInv'
<1>1. CASE Boot \/ BootUnlisted \/ PowerFails \/ NvramLost \/ BecomeHealthy
  BY <1>1, BootCalm, BootUnlistedCalm, PowerFailsCalm, NvramLostCalm, BecomeHealthyCalm
<1>2. ASSUME NEW t \in Scripts, FixEntries(t)
      PROVE  CalmInv'
  BY <1>2, RemovalCalm, CreateMissingCalm, FixOrderCalm DEF FixEntries
<1>3. CASE Confirm
  BY <1>2, <1>3, CheckTrialCalm, GiveUpCalm, RunConfirmCalm, CountOldCalm, CreateFreshCalm,
     SetOrderCalm, DropPairCalm, StopWatchdogCalm
  DEF Confirm, Scripts, DropOld, Undo
<1>4. CASE WatchdogStarts \/ WatchdogReboots
  BY <1>4, WatchdogStartsCalm, WatchdogRebootsCalm
<1>5. CASE StartUpdate \/ Update
  BY <1>2, <1>5, StartUpdateCalm, ResolveTargetCalm, FormatInactiveCalm, CopyInactiveCalm,
     SetBootNextCalm, VerifyBootNextCalm, ClearBootNextCalm, OverwriteActiveCalm,
     RebootUpdatedCalm
  DEF Update, Scripts
<1>6. CASE Operator
  BY <1>2, <1>6, OperatorStartsCalm, OperatorEndsCalm DEF Operator, Scripts
<1>7. CASE UNCHANGED vars
  BY <1>7
  DEF vars, nvram, machine, update, CalmInv, Alone, Written, Cleaned, Updating, Duplicates,
      Stale, Valid, Labelled
<1> QED BY <1>1, <1>2, <1>3, <1>4, <1>5, <1>6, <1>7 DEF Next, Scripts

LEMMA KeepsStep ==
  ASSUME CalmStarts, TypesInv, TypesInv', CalmInv, CalmInv', BootNextWorks, KeepsInv,
         [Next]_vars
  PROVE  KeepsInv'
<1>1. CASE Boot \/ BootUnlisted \/ PowerFails \/ NvramLost \/ BecomeHealthy
  BY <1>1, BootKeeps, BootUnlistedKeeps, PowerFailsKeeps, NvramLostKeeps, BecomeHealthyKeeps
<1>2. ASSUME NEW t \in Scripts, FixEntries(t)
      PROVE  KeepsInv'
  BY <1>2, RemovalKeeps, CreateMissingKeeps, FixOrderKeeps DEF FixEntries
<1>3. CASE Confirm
  BY <1>2, <1>3, CheckTrialKeeps, GiveUpKeeps, RunConfirmKeeps, CountOldKeeps,
     CreateFreshKeeps, SetOrderKeeps, DropOldKeeps, UndoKeeps, StopWatchdogKeeps
  DEF Confirm, Scripts
<1>4. CASE WatchdogStarts \/ WatchdogReboots
  BY <1>4, WatchdogStartsKeeps, WatchdogRebootsKeeps
<1>5. CASE StartUpdate \/ Update
  BY <1>2, <1>5, StartUpdateKeeps, ResolveTargetKeeps, WriteInactiveKeeps, SetBootNextKeeps,
     VerifyBootNextKeeps, ClearBootNextKeeps, OverwriteActiveKeeps, RebootUpdatedKeeps
  DEF Update, Scripts
<1>6. CASE Operator
  BY <1>2, <1>6, OperatorStartsKeeps, OperatorEndsKeeps DEF Operator, Scripts
<1>7. CASE UNCHANGED vars
  <2>1. Reliable' /\ Disk'
    BY <1>7, SameDisk
    DEF vars, nvram, machine, KeepsInv, Reliable, Disk, OldDisk, NewDisk, Settled, On
  <2>2. Runs' /\ Remembers'
    BY <1>7, SameDisk
    DEF vars, nvram, machine, update, KeepsInv, Runs, Remembers, On, RunsDefault
  <2> QED BY <2>1, <2>2 DEF KeepsInv
<1> QED BY <1>1, <1>2, <1>3, <1>4, <1>5, <1>6, <1>7 DEF Next, Scripts

\* The firmware does not change.
LEMMA SameFirmware ==
  ASSUME TypesInv, [Next]_vars
  PROVE  BootNextWorks' = BootNextWorks
<1>1. \/ UNCHANGED left
      \/ \E what \in {"crash", "fault", "update", "command", "loss"} : Spend(what)
  <2>1. CASE Boot \/ BootUnlisted \/ PowerFails \/ NvramLost \/ BecomeHealthy
    BY <2>1 DEF Boot, BootUnlisted, StartWith, PowerFails, NvramLost, BecomeHealthy
  <2>2. ASSUME NEW t \in Scripts, FixEntries(t)
        PROVE  UNCHANGED left \/ Spend("fault")
    BY <2>2
    DEF FixEntries, RemoveDuplicate, RemoveStale, CreateMissing, CreateFails, FixOrder
  <2>3. CASE Confirm
    BY <2>2, <2>3, Zenon
    DEF Confirm, Scripts, CheckTrial, GiveUp, RunConfirm, CountOld, CreateFresh,
        CreateFails, SetOrder, DropOld, Undo, DropPair, StopWatchdog
  <2>4. CASE WatchdogStarts \/ WatchdogReboots
    BY <2>4 DEF WatchdogStarts, WatchdogReboots
  <2>5. CASE StartUpdate \/ Update
    BY <2>2, <2>5, Zenon
    DEF Scripts, StartUpdate, Update, KeepTarget, ResolveTarget, FormatInactive,
        CopyInactive, SetBootNext, VerifyBootNext, ClearBootNext, OverwriteActive,
        RebootUpdated
  <2>6. CASE Operator
    BY <2>2, <2>6 DEF Operator, Scripts, OperatorStarts, OperatorEnds
  <2>7. CASE UNCHANGED vars
    BY <2>7 DEF vars
  <2> QED BY <2>1, <2>2, <2>3, <2>4, <2>5, <2>6, <2>7 DEF Next, Scripts
<1>2. left \in Limits
  BY DEF TypesInv, TypeOK, Limits
<1> QED BY <1>1, <1>2, SpendTypes DEF BootNextWorks

\* Whatever starts when and whatever fails, every variable keeps its type and
\* BootOrder lists each of its entries once (reefy-efi).
THEOREM Types == Spec => []TypeOK
<1>1. Init => TypesInv
  BY InitTypes
<1>2. TypesInv /\ [Next]_vars => TypesInv'
  BY TypesStep
<1>3. TypesInv => TypeOK
  BY DEF TypesInv
<1> QED BY <1>1, <1>2, <1>3, PTL DEF Spec

\* The inductive invariant of a calm machine: one script writes at a time, the
\* entries are what the storage script left, and an update knows what it wrote.
THEOREM CalmMachine ==
  ASSUME CalmStarts
  PROVE  Spec => [](TypesInv /\ CalmInv)
<1>1. Init => TypesInv /\ CalmInv
  BY InitTypes, InitCalm
<1>2. TypesInv /\ CalmInv /\ [Next]_vars => TypesInv' /\ CalmInv'
  BY TypesStep, CalmStep
<1> QED BY <1>1, <1>2, PTL DEF Spec

\* With calm starts, an update that reported success is what the machine
\* starts next, on firmware of either kind (reefy-efi, cmd_update).
THEOREM UpdateBootsNext ==
  ASSUME CalmStarts
  PROVE  Spec => []CompletedUpdateBootsNext
<1>1. ASSUME TypesInv, CalmInv, pc["update"] = "done"
      PROVE  Selected # NoNum /\ image[entry[Selected].part] = version
  <2>1. /\ target \in Valid(Other(mounted)) /\ order # <<>>
        /\ version \in Images /\ image[Other(mounted)] = version
        /\ next = target \/ (next = NoNum /\ image[mounted] = version)
    BY <1>1 DEF CalmInv, Updating, Targeted
  <2>2. mounted \in Slots /\ Other(mounted) \in Slots
    BY <1>1, SlotsDiffer DEF TypesInv, Power, Scripts
  <2>3. NoImage \notin Images
    BY EfiABAssumption DEF Images
  <2>4. CASE next = target
    <3>1. Bootable(next) /\ entry[next].part = Other(mounted)
      BY <2>1, <2>2, <2>3, <2>4 DEF Bootable, Valid, Labelled
    <3> QED BY <2>1, <3>1, NumsAre DEF Selected, Bootable
  <2>5. CASE next = NoNum /\ image[mounted] = version
    <3>1. Duplicates = {} /\ Stale = {}
      BY <1>1 DEF CalmInv, Alone, Cleaned
    <3>2. PICK s \in Slots : Default \in Valid(s)
      BY <1>1, <2>1, <3>1, HeadIsValid DEF TypesInv, CalmInv
    <3>3. \A u \in Slots : image[u] = version
      BY <2>1, <2>2, <2>5 DEF Other, Slots
    <3>4. Bootable(Default)
      BY <2>1, <2>3, <3>2, <3>3 DEF Bootable, Valid, Labelled
    <3>5. FirstInOrder # NoNum
      BY <1>1, <2>1, <3>4, FirstFound DEF TypesInv, NvramOK
    <3>6. Selected = FirstInOrder
      BY <2>5, NumsAre DEF Selected, Bootable
    <3>7. entry[FirstInOrder].part \in Slots
      BY <1>1, <3>5, FirstStarts DEF TypesInv, NvramOK, Bootable
    <3> QED BY <3>3, <3>5, <3>6, <3>7
  <2> QED BY <2>1, <2>4, <2>5
<1>2. TypesInv /\ CalmInv => CompletedUpdateBootsNext
  BY <1>1 DEF CompletedUpdateBootsNext
<1> QED BY <1>2, CalmMachine, PTL

\* The inductive invariant behind the rollback target.
THEOREM KeepsMachine ==
  ASSUME CalmStarts, ReliableFirmware
  PROVE  Spec => []IInv
<1>1. Init => IInv
  BY InitTypes, InitCalm, InitKeeps DEF IInv
<1>2. IInv /\ [Next]_vars => IInv'
  BY TypesStep, CalmStep, KeepsStep, SameFirmware DEF IInv
<1> QED BY <1>1, <1>2, PTL DEF Spec

\* With calm starts and firmware that keeps what it is told, the entry that
\* BootOrder leads to starts an image that can become healthy, wherever the
\* power fails in a repair, an update, a confirmation or its clean-up.
THEOREM GoodDefault ==
  ASSUME CalmStarts, ReliableFirmware
  PROVE  Spec => []KnownGoodDefault
<1>1. ASSUME IInv, BootNextWorks, FirstInOrder # NoNum
      PROVE  image[entry[FirstInOrder].part] \in Good
  <2>1. Bootable(FirstInOrder)
    BY <1>1, FirstStarts DEF IInv, TypesInv, NvramOK
  <2>2. CASE Whole
    BY <1>1, <2>2, GoodHeadStarts DEF IInv, TypesInv, KeepsInv, Disk, OldDisk
  <2>3. CASE ~Whole
    BY <1>1, <2>1, <2>3 DEF IInv, KeepsInv, Disk, NewDisk, BothGood, Bootable
  <2> QED BY <2>2, <2>3
<1>2. IInv => KnownGoodDefault
  BY <1>1 DEF KnownGoodDefault
<1> QED BY <1>2, KeepsMachine, PTL
=============================================================================
