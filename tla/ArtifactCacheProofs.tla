------------------------ MODULE ArtifactCacheProofs ------------------------
(***************************************************************************)
(* The safety of the artifact cache, for any number of processes,          *)
(* artifacts, layers, builds and saved states, and any number of failures, *)
(* kills and reboots.                                                      *)
(***************************************************************************)
EXTENDS ArtifactCache, SequenceTheorems, TLAPS

\* A collection is alone, a manifest has one process that works on it, a
\* provider's name one that activates it.
Alone ==
  /\ \A p, q \in Procs : Collects(p) => ~Shares(q) /\ (Collects(q) => q = p)
  /\ \A p, q \in Procs :
       /\ pc[p] \in Inside \ {"manifest"} /\ pc[q] \in Inside \ {"manifest"}
       /\ cur[p] = cur[q]
       => p = q
  /\ \A p, q \in Procs :
       /\ pc[p] \in Activating /\ pc[q] \in Activating
       /\ Info[cur[p]].name = Info[cur[q]].name
       => p = q

Validated == {"mount", "activate", "lease"} \cup Activating
Mounted == Validated \ {"mount"}

\* What a process has found or done, holds while it keeps its locks.
Knows(p) ==
  /\ pc[p] \in Inside \cup {"share", "unlist", "unlease"} => cur[p] \in Artifacts
  /\ pc[p] \in {"slot"} \cup Admitting => cur[p] \notin Manifests
  /\ pc[p] = "fetch" => layer[p] \in Layers
  /\ pc[p] \in {"validate"} \cup Validated => cur[p] \in Manifests
  /\ pc[p] \in Validated => FitsBuild(cur[p])
  /\ pc[p] \in Mounted => MountsOf(cur[p]) \subseteq mounts
  /\ pc[p] \in {"activate"} \cup Activating => Info[cur[p]].host
  /\ pc[p] \in Activating => active[Info[cur[p]].name] = NoArtifact
  /\ pc[p] = "lease" /\ Info[cur[p]].host =>
       /\ active[Info[cur[p]].name] # NoArtifact
       /\ SamePayload(active[Info[cur[p]].name], cur[p])

\* While a collection goes on, what it keeps and what it still has to remove
\* are all there is, and nothing that is ready is to be removed.
Sorted ==
  \A p \in Procs : Collects(p) =>
    /\ ready \subseteq kept /\ kept \subseteq Manifests
    /\ Manifests \subseteq kept \cup doomed /\ kept \cap doomed = {}
    /\ pc[p] \in {"unlist", "unlease"} => cur[p] \in doomed
    /\ pc[p] = "unlease" => cur[p] \notin Manifests

IInv ==
  /\ TypeOK /\ Alone /\ (\A p \in Procs : Knows(p)) /\ Sorted
  /\ AdmittedIsWhole /\ ReadyStaysReady /\ HooksFitTheBuild

-----------------------------------------------------------------------------
\* Removing an entry from a list without repetitions (artifacts.py, the files
\* of a directory) removes nothing else, and repeats nothing.
LEMMA WithoutOne ==
  ASSUME NEW list \in Seq(Artifacts), IsInjective(list), NEW a
  PROVE  /\ Without(list, a) \in Seq(Artifacts)
         /\ IsInjective(Without(list, a))
         /\ ToSet(Without(list, a)) = ToSet(list) \ {a}
<1>1. CASE ~Contains(list, a)
  BY <1>1 DEF Without, Contains, ToSet
<1>2. CASE Contains(list, a)
  <2> DEFINE k == Place(a, list)
             before == SubSeq(list, 1, k - 1)
             after == SubSeq(list, k + 1, Len(list))
             rest == before \o after
  <2>1. k \in 1 .. Len(list) /\ list[k] = a
    BY <1>2 DEF Contains, Place
  <2>2. \A i \in 1 .. Len(list) : list[i] \in Artifacts
    OBVIOUS
  <2> HIDE DEF k
  <2>3. /\ before \in Seq(Artifacts) /\ Len(before) = k - 1
        /\ \A i \in 1 .. k - 1 : before[i] = list[i]
    <3>1. \A i \in 1 .. k - 1 : list[i] \in Artifacts
      BY <2>1, <2>2
    <3>2. 1 \in Int /\ k - 1 \in Int
      BY <2>1
    <3>3. /\ before \in Seq(Artifacts)
          /\ Len(before) = IF 1 <= k - 1 THEN (k - 1) - 1 + 1 ELSE 0
          /\ \A i \in 1 .. (k - 1) - 1 + 1 : before[i] = list[1 + i - 1]
      BY <3>1, <3>2, SubSeqProperties
    <3> QED BY <3>3, <2>1
  <2>4. /\ after \in Seq(Artifacts) /\ Len(after) = Len(list) - k
        /\ \A i \in 1 .. Len(list) - k : after[i] = list[k + i]
    <3>1. \A i \in k + 1 .. Len(list) : list[i] \in Artifacts
      BY <2>1, <2>2
    <3>2. k + 1 \in Int /\ Len(list) \in Int
      BY <2>1
    <3>3. /\ after \in Seq(Artifacts)
          /\ Len(after) = IF k + 1 <= Len(list) THEN Len(list) - (k + 1) + 1 ELSE 0
          /\ \A i \in 1 .. Len(list) - (k + 1) + 1 : after[i] = list[(k + 1) + i - 1]
      BY <3>1, <3>2, SubSeqProperties
    <3> QED BY <3>3, <2>1
  <2> HIDE DEF before, after
  <2>5. /\ rest \in Seq(Artifacts) /\ Len(rest) = Len(list) - 1
        /\ \A i \in 1 .. Len(list) - 1 : rest[i] = IF i < k THEN list[i] ELSE list[i + 1]
    <3>1. /\ rest \in Seq(Artifacts)
          /\ Len(rest) = Len(before) + Len(after)
          /\ \A i \in 1 .. Len(before) + Len(after) :
               rest[i] = IF i <= Len(before) THEN before[i] ELSE after[i - Len(before)]
      BY <2>3, <2>4, ConcatProperties
    <3> HIDE DEF rest
    <3>2. ASSUME NEW i \in 1 .. Len(list) - 1
          PROVE  rest[i] = IF i < k THEN list[i] ELSE list[i + 1]
      <4>1. CASE i < k
        <5>1. i \in 1 .. k - 1 /\ i \in 1 .. Len(before) + Len(after) /\ i <= Len(before)
          BY <4>1, <2>1, <2>3, <2>4
        <5>2. rest[i] = before[i]
          BY <5>1, <3>1
        <5>3. before[i] = list[i]
          BY <5>1, <2>3
        <5> QED BY <4>1, <5>2, <5>3
      <4>2. CASE ~(i < k)
        <5>1. i - (k - 1) \in 1 .. Len(list) - k
          BY <4>2, <2>1
        <5>2. after[i - (k - 1)] = list[k + (i - (k - 1))]
          BY <5>1, <2>4
        <5>3. k + (i - (k - 1)) = i + 1
          BY <2>1
        <5>4. i \in 1 .. Len(before) + Len(after) /\ ~(i <= Len(before))
          <6>1. Len(before) = k - 1 /\ Len(after) = Len(list) - k
            BY <2>3, <2>4
          <6>2. i \in 1 .. (k - 1) + (Len(list) - k) /\ ~(i <= k - 1)
            BY <4>2, <2>1
          <6> QED BY <6>1, <6>2
        <5>5. rest[i] = after[i - Len(before)]
          BY <5>4, <3>1
        <5> QED BY <4>2, <5>2, <5>3, <5>5, <2>3
      <4> QED BY <4>1, <4>2
    <3> QED BY <3>1, <3>2, <2>1, <2>3, <2>4
  <2>6. Without(list, a) = rest
    BY <1>2 DEF Without, RemoveAt, rest, before, after, k
  <2> HIDE DEF rest
  <2>7. IsInjective(rest)
    <3>1. ASSUME NEW i \in 1 .. Len(list) - 1, NEW j \in 1 .. Len(list) - 1,
                 rest[i] = rest[j]
          PROVE  i = j
      <4> DEFINE at(n) == IF n < k THEN n ELSE n + 1
      <4>1. at(i) \in 1 .. Len(list) /\ at(j) \in 1 .. Len(list)
        BY <2>1
      <4>2. list[at(i)] = list[at(j)]
        BY <3>1, <2>5
      <4>3. at(i) = at(j)
        BY <4>1, <4>2 DEF IsInjective
      <4> QED BY <4>3, <2>1
    <3> QED BY <3>1, <2>5 DEF IsInjective
  <2>8. ToSet(rest) \subseteq ToSet(list) \ {a}
    <3>1. ASSUME NEW i \in 1 .. Len(list) - 1
          PROVE  rest[i] \in ToSet(list) /\ rest[i] # a
      <4> DEFINE at == IF i < k THEN i ELSE i + 1
      <4>1. at \in 1 .. Len(list) /\ at # k /\ rest[i] = list[at]
        BY <2>1, <2>5
      <4> QED BY <4>1, <2>1 DEF IsInjective, ToSet
    <3> QED BY <3>1, <2>5 DEF ToSet
  <2>9. ToSet(list) \ {a} \subseteq ToSet(rest)
    <3>1. ASSUME NEW i \in 1 .. Len(list), list[i] # a
          PROVE  list[i] \in ToSet(rest)
      <4> DEFINE at == IF i < k THEN i ELSE i - 1
      <4>1. at \in 1 .. Len(list) - 1 /\ rest[at] = list[i]
        BY <3>1, <2>1, <2>5
      <4> QED BY <4>1, <2>5 DEF ToSet
    <3> QED BY <3>1 DEF ToSet
  <2> QED BY <2>5, <2>6, <2>7, <2>8, <2>9
<1> QED BY <1>1, <1>2

\* Appending a new entry keeps a list free of repetitions.
LEMMA AppendOne ==
  ASSUME NEW list \in Seq(Artifacts), IsInjective(list),
         NEW a \in Artifacts, a \notin ToSet(list)
  PROVE  /\ Append(list, a) \in Seq(Artifacts)
         /\ IsInjective(Append(list, a))
         /\ ToSet(Append(list, a)) = ToSet(list) \cup {a}
<1> DEFINE more == Append(list, a)
<1>1. /\ more \in Seq(Artifacts) /\ Len(more) = Len(list) + 1
      /\ \A i \in 1 .. Len(list) : more[i] = list[i]
      /\ more[Len(list) + 1] = a
  OBVIOUS
<1> HIDE DEF more
<1>2. \A i \in 1 .. Len(list) : more[i] \in ToSet(list)
  BY <1>1 DEF ToSet
<1>3. IsInjective(more)
  BY <1>1, <1>2 DEF IsInjective
<1>4. ToSet(more) = ToSet(list) \cup {a}
  <2>1. DOMAIN more = 1 .. Len(list) + 1 /\ DOMAIN list = 1 .. Len(list)
    BY <1>1
  <2>2. ToSet(list) \cup {a} \subseteq ToSet(more)
    BY <1>1, <2>1 DEF ToSet
  <2>3. ToSet(more) \subseteq ToSet(list) \cup {a}
    BY <1>1, <1>2, <2>1 DEF ToSet
  <2> QED BY <2>2, <2>3
<1> QED BY <1>1, <1>3, <1>4 DEF more

\* What is listed are artifacts, whose layers are layers.
LEMMA Listed ==
  ASSUME TypeOK
  PROVE  /\ Manifests \subseteq Artifacts
         /\ \A a \in Artifacts : LayersOf(a) \subseteq Layers
BY DEF TypeOK, Manifests, ToSet, LayersOf, Layers

-----------------------------------------------------------------------------
(* One lemma for each action.                                             *)

\* The next artifact, or the end: no lock is held.
LEMMA NextItemKeeps ==
  ASSUME IInv, NEW p \in Procs, NextItem(p)
  PROVE  IInv'
<1>1. TypeOK'
  <2>1. todo[p] \subseteq Artifacts /\ todo' \in [Procs -> SUBSET Artifacts]
    BY DEF IInv, TypeOK, NextItem, Exit
  <2>2. cur' \in [Procs -> Artifacts \cup {NoArtifact}]
    BY <2>1 DEF IInv, TypeOK, NextItem, Exit
  <2>3. pc' \in [Procs -> {"idle", "next", "share", "gc"} \cup Inside \cup Collecting]
    BY DEF IInv, TypeOK, NextItem, Exit
  <2>4. cached' \in [Procs -> BOOLEAN] /\ layer' \in [Procs -> Layers \cup {NoLayer}]
    BY DEF IInv, TypeOK, NextItem, Exit
  <2> QED
    BY <2>1, <2>2, <2>3, <2>4 DEF IInv, TypeOK, NextItem, store, host, system, found
<1>2. Alone'
  BY DEF IInv, TypeOK, Alone, Knows, Shares, Collects, NextItem, Exit, host, At, Inside,
     Collecting, Admitting, Activating
<1>3. \A q \in Procs : Knows(q)'
  BY DEF IInv, TypeOK, Knows, FitsBuild, Manifests, Validated, Mounted, NextItem, Exit, store,
     host, system, At, Inside, Admitting, Activating
<1>4. Sorted'
  BY DEF IInv, TypeOK, Sorted, Collects, Manifests, NextItem, Exit, store, found, Collecting
<1>5. AdmittedIsWhole' /\ ReadyStaysReady' /\ HooksFitTheBuild'
  <2>1. AdmittedIsWhole'
    BY DEF IInv, TypeOK, AdmittedIsWhole, Manifests, NextItem, Exit, store
  <2>2. ReadyStaysReady'
    BY DEF IInv, TypeOK, ReadyStaysReady, Manifests, NextItem, Exit, store, host
  <2>3. HooksFitTheBuild'
    BY DEF IInv, TypeOK, HooksFitTheBuild, HookRuns, NextItem, Exit, host, system, At
  <2> QED BY <2>1, <2>2, <2>3
<1> QED BY <1>1, <1>2, <1>3, <1>4, <1>5 DEF IInv

\* The shared lock of the collection, taken only while none runs.
LEMMA LockSharedKeeps ==
  ASSUME IInv, NEW p \in Procs, LockShared(p)
  PROVE  IInv'
<1>1. TypeOK'
  BY DEF IInv, TypeOK, LockShared, Goto, store, host, system, found, Inside
<1>2. Alone'
  BY DEF IInv, TypeOK, Alone, Collects, LockShared, Goto, Collecting, Activating
<1>3. \A q \in Procs : Knows(q)'
  BY DEF IInv, TypeOK, Knows, FitsBuild, Manifests, Validated, Mounted, LockShared, Goto,
     store, host, system, At, Admitting, Activating
<1>4. Sorted'
  BY DEF IInv, TypeOK, Sorted, Collects, LockShared, Goto, Collecting
<1>5. AdmittedIsWhole' /\ ReadyStaysReady' /\ HooksFitTheBuild'
  BY DEF IInv, TypeOK, AdmittedIsWhole, ReadyStaysReady, HooksFitTheBuild, HookRuns,
     Manifests, LockShared, Goto, store, host, system, At
<1> QED BY <1>1, <1>2, <1>3, <1>4, <1>5 DEF IInv

\* The lock of a manifest, taken only while nobody else has it.
LEMMA LockManifestKeeps ==
  ASSUME IInv, NEW p \in Procs, LockManifest(p)
  PROVE  IInv'
<1>1. TypeOK'
  BY DEF IInv, TypeOK, LockManifest, HoldsManifest, Fails, Goto, store, host, system, found,
     Inside
<1>2. Alone'
  BY DEF IInv, TypeOK, Alone, Shares, Collects, LockManifest, HoldsManifest, Fails, Goto, At,
     Inside, Collecting, Admitting, Activating
<1>3. \A q \in Procs : Knows(q)'
  BY DEF IInv, TypeOK, Knows, FitsBuild, Manifests, Validated, Mounted, LockManifest,
     HoldsManifest, Fails, Goto, store, host, system, At, Collecting, Admitting, Activating
<1>4. Sorted'
  BY DEF IInv, TypeOK, Sorted, Collects, Manifests, LockManifest, HoldsManifest, Fails, Goto,
     store, found, Collecting
<1>5. AdmittedIsWhole' /\ ReadyStaysReady' /\ HooksFitTheBuild'
  BY DEF IInv, TypeOK, AdmittedIsWhole, ReadyStaysReady, HooksFitTheBuild, HookRuns,
     Manifests, LockManifest, HoldsManifest, Fails, Goto, store, host, system, At
<1> QED BY <1>1, <1>2, <1>3, <1>4, <1>5 DEF IInv

\* A free slot, still without a manifest.
LEMMA TakeSlotKeeps ==
  ASSUME IInv, NEW p \in Procs, TakeSlot(p)
  PROVE  IInv'
<1>1. TypeOK'
  BY DEF IInv, TypeOK, TakeSlot, Goto, store, host, system, found, Inside, Admitting
<1>2. Alone'
  BY DEF IInv, TypeOK, Alone, Shares, Collects, TakeSlot, Goto, At, Inside, Collecting,
     Activating
<1>3. \A q \in Procs : Knows(q)'
  BY DEF IInv, TypeOK, Knows, FitsBuild, Manifests, Validated, Mounted, TakeSlot, Goto, store,
     host, system, At, Inside, Activating
<1>4. Sorted'
  BY DEF IInv, TypeOK, Sorted, Collects, Manifests, TakeSlot, Goto, store, found, Collecting
<1>5. AdmittedIsWhole' /\ ReadyStaysReady' /\ HooksFitTheBuild'
  BY DEF IInv, TypeOK, AdmittedIsWhole, ReadyStaysReady, HooksFitTheBuild, HookRuns,
     Manifests, TakeSlot, Goto, store, host, system, At
<1> QED BY <1>1, <1>2, <1>3, <1>4, <1>5 DEF IInv

\* The configuration fits the build, or the invocation fails.
LEMMA FetchConfigKeeps ==
  ASSUME IInv, NEW p \in Procs, FetchConfig(p)
  PROVE  IInv'
<1>1. TypeOK'
  BY DEF IInv, TypeOK, FetchConfig, Fault, Fails, Goto, store, host, system, found, Inside,
     Admitting
<1>2. Alone'
  BY DEF IInv, TypeOK, Alone, Shares, Collects, FetchConfig, Fault, Fails, Goto, store, host,
     found, At, Collecting, Activating
<1>3. \A q \in Procs : Knows(q)'
  BY DEF IInv, TypeOK, Knows, FitsBuild, Manifests, Validated, Mounted, FetchConfig, Fault,
     Fails, Goto, store, host, system, At, Inside, Admitting, Activating
<1>4. Sorted'
  BY DEF IInv, TypeOK, Sorted, Collects, Manifests, FetchConfig, Fault, Fails, Goto, store,
     found, Collecting
<1>5. AdmittedIsWhole' /\ ReadyStaysReady' /\ HooksFitTheBuild'
  BY DEF IInv, TypeOK, AdmittedIsWhole, ReadyStaysReady, HooksFitTheBuild, HookRuns,
     Manifests, FetchConfig, Fault, Fails, Goto, store, host, system, At
<1> QED BY <1>1, <1>2, <1>3, <1>4, <1>5 DEF IInv

\* A layer that is missing.
LEMMA LockLayerKeeps ==
  ASSUME IInv, NEW p \in Procs, LockLayer(p)
  PROVE  IInv'
<1>1. TypeOK'
  BY Listed DEF IInv, TypeOK, Knows, LockLayer, store, host, system, found, At, Inside,
     Admitting
<1>2. Alone'
  BY DEF IInv, TypeOK, Alone, Shares, Collects, LockLayer, At, Inside, Collecting, Admitting,
     Activating
<1>3. \A q \in Procs : Knows(q)'
  <2>1. layer'[p] \in Layers
    BY Listed DEF IInv, TypeOK, Knows, LockLayer, At, Inside, Admitting
  <2>2. /\ pc' = [pc EXCEPT ![p] = "fetch"] /\ pc[p] = "layers"
        /\ \A q \in Procs \ {p} : layer'[q] = layer[q]
    BY DEF LockLayer, At
  <2>3. Manifests' = Manifests /\ UNCHANGED <<cur, mounts, active, build>>
    BY DEF LockLayer, Manifests, store, host, system
  <2> QED
    BY <2>1, <2>2, <2>3 DEF IInv, Knows, FitsBuild, Validated, Mounted, Inside, Admitting,
       Activating
<1>4. Sorted'
  BY DEF IInv, TypeOK, Sorted, Collects, Manifests, LockLayer, store, found, Collecting
<1>5. AdmittedIsWhole' /\ ReadyStaysReady' /\ HooksFitTheBuild'
  BY DEF IInv, TypeOK, AdmittedIsWhole, ReadyStaysReady, HooksFitTheBuild, HookRuns,
     Manifests, LockLayer, store, host, system, At
<1> QED BY <1>1, <1>2, <1>3, <1>4, <1>5 DEF IInv

\* The store gains a whole layer, or nothing.
LEMMA DownloadKeeps ==
  ASSUME IInv, NEW p \in Procs, Download(p)
  PROVE  IInv'
<1>1. TypeOK'
  BY Listed DEF IInv, TypeOK, Knows, Download, Fetched, host, system, found, At, Inside,
     Admitting
<1>2. Alone'
  BY DEF IInv, TypeOK, Alone, Shares, Collects, Download, Fetched, host, At, Collecting,
     Activating
<1>3. \A q \in Procs : Knows(q)'
  BY DEF IInv, TypeOK, Knows, FitsBuild, Manifests, Validated, Mounted, Download, Fetched,
     host, system, At, Collecting, Admitting, Activating
<1>4. Sorted'
  BY DEF IInv, TypeOK, Sorted, Collects, Manifests, Download, Fetched, found, Collecting
<1>5. AdmittedIsWhole' /\ ReadyStaysReady' /\ HooksFitTheBuild'
  BY DEF IInv, TypeOK, AdmittedIsWhole, ReadyStaysReady, HooksFitTheBuild, HookRuns,
     Manifests, Download, Fetched, host, system, At
<1> QED BY <1>1, <1>2, <1>3, <1>4, <1>5 DEF IInv

\* The manifest is listed once its layers are there: no other process works on it.
LEMMA AdmitKeeps ==
  ASSUME IInv, NEW p \in Procs, Admit(p)
  PROVE  IInv'
<1>1. TypeOK'
  <2>1. cur[p] \in Artifacts /\ cur[p] \notin ToSet(admitted)
    BY DEF IInv, TypeOK, Knows, Manifests, Admit, At, Inside, Admitting
  <2>2. admitted' \in Seq(Artifacts) /\ IsInjective(admitted')
    BY <2>1, AppendOne DEF IInv, TypeOK, Admit
  <2> QED
    BY <2>2 DEF IInv, TypeOK, Admit, Goto, host, system, found, Inside
<1>2. Alone'
  BY DEF IInv, TypeOK, Alone, Shares, Collects, Admit, Goto, At, Inside, Collecting,
     Admitting, Activating
<1>3. \A q \in Procs : Knows(q)'
  <2>1. Manifests' = Manifests \cup {cur[p]}
    BY AppendOne DEF IInv, TypeOK, Knows, Manifests, Admit, At, Collecting, Admitting
  <2>2. pc' = [pc EXCEPT ![p] = "validate"] /\ pc[p] = "layers"
    BY DEF IInv, TypeOK, Admit, At, Goto
  <2>3. UNCHANGED <<cur, layer, mounts, active, build>>
    BY DEF IInv, TypeOK, Admit, Goto, host, system
  <2>4. \A q \in Procs \ {p} : pc[q] \in {"slot"} \cup Admitting => cur[q] # cur[p]
    BY <2>2 DEF IInv, Alone, Inside, Admitting
  <2> QED
    BY <2>1, <2>2, <2>3, <2>4 DEF IInv, TypeOK, Knows, FitsBuild, Validated, Mounted,
       Collecting, Admitting, Activating
<1>4. Sorted'
  BY DEF IInv, TypeOK, Sorted, Alone, Shares, Collects, Admit, Goto, At, Inside, Collecting,
     Admitting
<1>5. AdmittedIsWhole' /\ ReadyStaysReady' /\ HooksFitTheBuild'
  <2>0. Manifests' = Manifests \cup {cur[p]}
    BY AppendOne DEF IInv, TypeOK, Knows, Manifests, Admit, At, Collecting, Admitting
  <2>1. AdmittedIsWhole'
    BY <2>0 DEF AdmittedIsWhole, IInv, Admit
  <2>2. ReadyStaysReady'
    BY <2>0 DEF ReadyStaysReady, IInv, Admit, host
  <2>3. HooksFitTheBuild'
    BY <2>0 DEF IInv, TypeOK, HooksFitTheBuild, HookRuns, Admit, Goto, host, system, At
  <2> QED BY <2>1, <2>2, <2>3
<1> QED BY <1>1, <1>2, <1>3, <1>4, <1>5 DEF IInv

\* An admitted extension is compared with the running build.
LEMMA ValidateKeeps ==
  ASSUME IInv, NEW p \in Procs, Validate(p)
  PROVE  IInv'
<1>1. TypeOK'
  BY DEF IInv, TypeOK, Validate, Fails, Goto, store, host, system, found, Inside
<1>2. Alone'
  BY DEF IInv, TypeOK, Alone, Shares, Collects, Validate, Fails, Goto, store, host, system,
     found, At, Collecting, Activating
<1>3. \A q \in Procs : Knows(q)'
  BY DEF IInv, TypeOK, Knows, FitsBuild, Manifests, Validated, Mounted, Validate, Fails, Goto,
     store, host, system, At, Inside, Admitting, Activating
<1>4. Sorted'
  BY DEF IInv, TypeOK, Sorted, Collects, Manifests, Validate, Fails, Goto, store, found,
     Collecting
<1>5. AdmittedIsWhole' /\ ReadyStaysReady' /\ HooksFitTheBuild'
  BY DEF IInv, TypeOK, AdmittedIsWhole, ReadyStaysReady, HooksFitTheBuild, HookRuns,
     Manifests, Validate, Fails, Goto, store, host, system, At
<1> QED BY <1>1, <1>2, <1>3, <1>4, <1>5 DEF IInv

\* Mounts are added one by one, the next step begins with all of them.
LEMMA MountKeeps ==
  ASSUME IInv, NEW p \in Procs, Mount(p)
  PROVE  IInv'
<1>1. TypeOK'
  BY Listed DEF IInv, TypeOK, Knows, MountsOf, Mount, Fault, Fails, Goto, process, store,
     system, found, At, Inside
<1>2. Alone'
  <2>1. UNCHANGED cur
    BY DEF IInv, TypeOK, Mount, Goto, process, Fault, Fails
  <2>2. /\ \A q \in Procs \ {p} : pc'[q] = pc[q]
        /\ pc[p] = "mount" /\ pc'[p] \in {"mount", "next", "lease", "activate"}
    BY DEF IInv, TypeOK, Mount, Goto, process, Fault, Fails, At
  <2>3. \A q \in Procs :
          /\ pc'[q] \in Inside => pc[q] \in Inside
          /\ pc'[q] \in Inside \ {"manifest"} => pc[q] \in Inside \ {"manifest"}
          /\ pc'[q] \in Activating => pc[q] \in Activating
          /\ pc'[q] \in Collecting => pc[q] \in Collecting
    BY <2>2 DEF Inside, Collecting, Activating
  <2> QED
    BY <2>1, <2>3 DEF IInv, Alone, Shares, Collects
<1>3. \A q \in Procs : Knows(q)'
  BY DEF IInv, TypeOK, Knows, FitsBuild, Manifests, Validated, Mounted, Mount, Fault, Fails,
     Goto, process, store, system, At, Collecting, Admitting, Activating
<1>4. Sorted'
  BY DEF IInv, TypeOK, Sorted, Collects, Manifests, Mount, Fault, Fails, Goto, process, store,
     found, Collecting
<1>5. AdmittedIsWhole' /\ ReadyStaysReady' /\ HooksFitTheBuild'
  <2>1. AdmittedIsWhole'
    BY DEF AdmittedIsWhole, IInv, Manifests, Mount, Fault, Fails, store
  <2>2. ReadyStaysReady'
    BY DEF ReadyStaysReady, IInv, Manifests, Mount, Fault, Fails, store
  <2>3. HooksFitTheBuild'
    BY DEF IInv, TypeOK, HooksFitTheBuild, HookRuns, Mount, Fault, Fails, Goto, process,
       system, At
  <2> QED BY <2>1, <2>2, <2>3
<1> QED BY <1>1, <1>2, <1>3, <1>4, <1>5 DEF IInv

\* The lock of a provider's name, taken only while nobody else has it.
LEMMA LockProviderKeeps ==
  ASSUME IInv, NEW p \in Procs, LockProvider(p)
  PROVE  IInv'
<1>1. TypeOK'
  BY DEF IInv, TypeOK, LockProvider, HoldsProvider, Fails, Goto, store, host, system, found,
     Inside, Activating
<1>2. Alone'
  BY DEF IInv, TypeOK, Alone, Knows, Shares, Collects, LockProvider, HoldsProvider, Fails,
     Goto, host, system, At, Inside, Collecting, Admitting, Activating
<1>3. \A q \in Procs : Knows(q)'
  BY DEF IInv, TypeOK, Knows, FitsBuild, Manifests, Validated, Mounted, LockProvider,
     HoldsProvider, Fails, Goto, store, host, system, At, Collecting, Admitting, Activating
<1>4. Sorted'
  BY DEF IInv, TypeOK, Sorted, Collects, Manifests, LockProvider, HoldsProvider, Fails, Goto,
     store, found, Collecting
<1>5. AdmittedIsWhole' /\ ReadyStaysReady' /\ HooksFitTheBuild'
  BY DEF IInv, TypeOK, AdmittedIsWhole, ReadyStaysReady, HooksFitTheBuild, HookRuns,
     Manifests, LockProvider, HoldsProvider, Fails, Goto, store, host, system, At
<1> QED BY <1>1, <1>2, <1>3, <1>4, <1>5 DEF IInv

\* The hook of an extension that fits the build.
LEMMA StartHookKeeps ==
  ASSUME IInv, NEW p \in Procs, StartHook(p)
  PROVE  IInv'
<1>1. TypeOK'
  BY DEF IInv, TypeOK, StartHook, Goto, store, host, system, found, Inside, Activating
<1>2. Alone'
  BY DEF IInv, TypeOK, Alone, Shares, Collects, StartHook, Goto, At, Inside, Collecting,
     Activating
<1>3. \A q \in Procs : Knows(q)'
  BY DEF IInv, TypeOK, Knows, FitsBuild, Manifests, Validated, Mounted, StartHook, Goto,
     store, host, system, At, Inside, Admitting, Activating
<1>4. Sorted'
  BY DEF IInv, TypeOK, Sorted, Collects, Manifests, StartHook, Goto, store, found, Collecting
<1>5. AdmittedIsWhole' /\ ReadyStaysReady' /\ HooksFitTheBuild'
  <2>1. AdmittedIsWhole'
    BY DEF AdmittedIsWhole, IInv, Manifests, StartHook, store
  <2>2. ReadyStaysReady'
    BY DEF ReadyStaysReady, IInv, Manifests, StartHook, store, host
  <2>3. HooksFitTheBuild'
    <3>1. Info[cur[p]].build = build
      BY DEF IInv, TypeOK, Knows, FitsBuild, Validated, StartHook, At, Activating
    <3>2. HookRuns' \subseteq HookRuns \cup {p} /\ UNCHANGED <<cur, host, build>>
      BY DEF IInv, TypeOK, HookRuns, StartHook, Goto, At, system
    <3> QED
      BY <3>1, <3>2 DEF IInv, HooksFitTheBuild, host
  <2> QED BY <2>1, <2>2, <2>3
<1> QED BY <1>1, <1>2, <1>3, <1>4, <1>5 DEF IInv

\* The hook ends, and nothing is recorded yet.
LEMMA HookEndsKeeps ==
  ASSUME IInv, NEW p \in Procs, HookEnds(p)
  PROVE  IInv'
<1>1. TypeOK'
  BY DEF IInv, TypeOK, HookEnds, Fault, Fails, Goto, store, host, system, found, Inside,
     Activating
<1>2. Alone'
  BY DEF IInv, TypeOK, Alone, Knows, Shares, Collects, HookEnds, Fault, Fails, Goto, store,
     At, Inside, Collecting, Admitting, Activating
<1>3. \A q \in Procs : Knows(q)'
  BY DEF IInv, TypeOK, Knows, FitsBuild, Manifests, Validated, Mounted, HookEnds, Fault,
     Fails, Goto, store, host, system, At, Collecting, Admitting, Activating
<1>4. Sorted'
  BY DEF IInv, TypeOK, Sorted, Collects, Manifests, HookEnds, Fault, Fails, Goto, store,
     found, Collecting
<1>5. AdmittedIsWhole' /\ ReadyStaysReady' /\ HooksFitTheBuild'
  BY DEF IInv, TypeOK, AdmittedIsWhole, ReadyStaysReady, HooksFitTheBuild, HookRuns,
     Manifests, HookEnds, Fault, Fails, Goto, store, host, system, At
<1> QED BY <1>1, <1>2, <1>3, <1>4, <1>5 DEF IInv

\* Nobody else with that name can be active or about to be.
LEMMA ActivateKeeps ==
  ASSUME IInv, NEW p \in Procs, Activate(p)
  PROVE  IInv'
<1>1. TypeOK'
  BY DEF IInv, TypeOK, Activate, Goto, store, system, found, Inside
<1>2. Alone'
  BY DEF IInv, TypeOK, Alone, Shares, Collects, Activate, Goto, At, Inside, Collecting,
     Activating
<1>3. \A q \in Procs : Knows(q)'
  <2>1. pc' = [pc EXCEPT ![p] = "lease"] /\ pc[p] = "record"
    BY DEF IInv, TypeOK, Activate, At, Goto
  <2>2. UNCHANGED <<cur, layer, mounts, build>> /\ Manifests' = Manifests
    BY DEF IInv, TypeOK, Activate, Goto, Manifests, store, system
  <2>3. cur[p] \in Artifacts /\ Info[cur[p]].name \in Names /\ cur[p] # NoArtifact
    BY CacheAssumption DEF IInv, TypeOK, Knows, Activate, Names, At, Inside, Activating
  <2>4. active' = [active EXCEPT ![Info[cur[p]].name] = cur[p]]
    BY DEF Activate
  <2>5. Knows(p)'
    BY <2>1, <2>2, <2>3, <2>4 DEF IInv, TypeOK, Knows, SamePayload, FitsBuild, Validated,
       Mounted, Admitting, Activating
  <2>6. ASSUME NEW q \in Procs \ {p}
        PROVE  Knows(q)'
    <3>1. pc'[q] = pc[q]
      BY <2>1
    <3>2. pc[q] \in Activating => Info[cur[q]].name # Info[cur[p]].name
      BY <2>1 DEF IInv, Alone, Activating
    <3>3. pc[q] \in Inside => cur[q] \in Artifacts
      BY DEF IInv, Knows
    <3>4. pc[q] \in Activating => active'[Info[cur[q]].name] = active[Info[cur[q]].name]
      BY <3>2, <3>3, <2>4 DEF Names
    <3>5. pc[q] = "lease" /\ Info[cur[q]].host =>
            active'[Info[cur[q]].name] = active[Info[cur[q]].name]
      <4>1. active[Info[cur[p]].name] = NoArtifact
        BY <2>1 DEF IInv, Knows, Activating
      <4> QED
        BY <4>1, <3>3, <2>4 DEF IInv, Names, Knows
    <3> QED
      BY <3>1, <3>4, <3>5, <2>2 DEF IInv, Knows, FitsBuild
  <2> QED BY <2>5, <2>6
<1>4. Sorted'
  BY DEF IInv, TypeOK, Sorted, Collects, Manifests, Activate, Goto, store, found, Collecting
<1>5. AdmittedIsWhole' /\ ReadyStaysReady' /\ HooksFitTheBuild'
  <2>1. AdmittedIsWhole'
    BY DEF AdmittedIsWhole, IInv, Manifests, Activate, store
  <2>2. ReadyStaysReady'
    BY DEF IInv, TypeOK, ReadyStaysReady, Knows, Manifests, Activate, store, At, Activating
  <2>3. HooksFitTheBuild'
    <3>1. Info[cur[p]].build = build
      BY DEF IInv, TypeOK, Knows, FitsBuild, Validated, Activate, At, Activating
    <3>2. HookRuns' \subseteq HookRuns /\ UNCHANGED <<cur, orphans, build>>
      BY DEF IInv, TypeOK, HookRuns, Activate, Goto, At, system
    <3>3. \A n \in Names : active'[n] \in {active[n], cur[p]}
      BY DEF Activate
    <3> QED
      BY <3>1, <3>2, <3>3 DEF IInv, HooksFitTheBuild
  <2> QED BY <2>1, <2>2, <2>3
<1> QED BY <1>1, <1>2, <1>3, <1>4, <1>5 DEF IInv

\* The artifact is ready: it is listed, whole, mounted and active.
LEMMA LeaseKeeps ==
  ASSUME IInv, NEW p \in Procs, Lease(p)
  PROVE  IInv'
<1>1. TypeOK'
  <2>1. cur[p] \in Artifacts
    BY DEF IInv, TypeOK, Knows, Lease, At, Inside
  <2>2. /\ Without(leases, cur[p]) \in Seq(Artifacts)
        /\ IsInjective(Without(leases, cur[p]))
        /\ cur[p] \notin ToSet(Without(leases, cur[p]))
    BY WithoutOne DEF IInv, TypeOK
  <2>3. leases' \in Seq(Artifacts) /\ IsInjective(leases')
    BY <2>1, <2>2, AppendOne DEF Lease
  <2> QED
    BY <2>1, <2>3 DEF IInv, TypeOK, Lease, Goto, host, system, found
<1>2. Alone'
  BY DEF IInv, TypeOK, Alone, Shares, Collects, Lease, Goto, At, Inside, Collecting, Activating
<1>3. \A q \in Procs : Knows(q)'
  BY DEF IInv, TypeOK, Knows, FitsBuild, Manifests, Validated, Mounted, Lease, Goto, host,
     system, Inside, Admitting, Activating
<1>4. Sorted'
  BY DEF IInv, TypeOK, Sorted, Alone, Shares, Collects, Lease, Goto, At, Inside, Collecting
<1>5. AdmittedIsWhole' /\ ReadyStaysReady' /\ HooksFitTheBuild'
  <2>1. AdmittedIsWhole'
    BY DEF AdmittedIsWhole, IInv, Manifests, Lease
  <2>2. ReadyStaysReady'
    <3>1. /\ cur[p] \in Manifests /\ MountsOf(cur[p]) \subseteq mounts
          /\ Info[cur[p]].host => /\ active[Info[cur[p]].name] # NoArtifact
                                  /\ SamePayload(active[Info[cur[p]].name], cur[p])
      BY DEF IInv, TypeOK, Knows, Validated, Mounted, Lease, At
    <3>2. LayersOf(cur[p]) \subseteq blobs
      BY <3>1 DEF IInv, AdmittedIsWhole
    <3>3. /\ Manifests' = Manifests /\ blobs' = blobs /\ mounts' = mounts /\ active' = active
          /\ ready' \subseteq ready \cup {cur[p]}
      BY DEF Lease, Manifests, host
    <3> QED
      BY <3>1, <3>2, <3>3 DEF IInv, ReadyStaysReady
  <2>3. HooksFitTheBuild'
    BY DEF IInv, TypeOK, HooksFitTheBuild, HookRuns, Lease, Goto, host, system, At
  <2> QED BY <2>1, <2>2, <2>3
<1> QED BY <1>1, <1>2, <1>3, <1>4, <1>5 DEF IInv

\* What is ready is wanted, and what is wanted is kept.
LEMMA StartCollectionKeeps ==
  ASSUME IInv, NEW p \in Procs, StartCollection(p)
  PROVE  IInv'
<1>1. TypeOK'
  <2>1. kept' \subseteq Artifacts /\ doomed' \subseteq Artifacts
    BY Listed DEF IInv, StartCollection
  <2> QED
    BY <2>1 DEF IInv, TypeOK, StartCollection, Goto, store, host, system, Collecting
<1>2. Alone'
  BY DEF IInv, TypeOK, Alone, Shares, Collects, StartCollection, Goto, Inside, Admitting,
     Activating
<1>3. \A q \in Procs : Knows(q)'
  BY DEF IInv, TypeOK, Knows, Shares, Validated, Mounted, StartCollection, Goto, Inside,
     Admitting, Activating
<1>4. Sorted'
  <2>1. ready \subseteq Manifests /\ ready \subseteq want
    BY DEF IInv, TypeOK, ReadyStaysReady
  <2>2. /\ ready \subseteq kept' /\ kept' \subseteq Manifests
        /\ Manifests \subseteq kept' \cup doomed' /\ kept' \cap doomed' = {}
    BY <2>1 DEF StartCollection, Protected
  <2>3. /\ Manifests' = Manifests /\ ready' = ready
        /\ \A q \in Procs : Collects(q)' => pc'[q] = "sweep"
    BY DEF IInv, TypeOK, Manifests, Collects, StartCollection, Goto, store
  <2> QED
    BY <2>2, <2>3 DEF Sorted
<1>5. AdmittedIsWhole' /\ ReadyStaysReady' /\ HooksFitTheBuild'
  BY DEF IInv, TypeOK, AdmittedIsWhole, ReadyStaysReady, HooksFitTheBuild, HookRuns,
     Manifests, StartCollection, Goto, store, host, system, At
<1> QED BY <1>1, <1>2, <1>3, <1>4, <1>5 DEF IInv

\* Only what is doomed is unmounted, and nobody has it mounted for use.
LEMMA UnmountKeeps ==
  ASSUME IInv, NEW p \in Procs, Unmount(p)
  PROVE  IInv'
<1>1. TypeOK'
  BY DEF IInv, TypeOK, Unmount, Fault, Fails, Goto, store, system, found, Collecting
<1>2. Alone'
  BY DEF IInv, TypeOK, Alone, Shares, Collects, Unmount, Fault, Fails, Goto, store, At,
     Inside, Admitting, Activating
<1>3. \A q \in Procs : Knows(q)'
  BY DEF IInv, TypeOK, Knows, Alone, Shares, Collects, Validated, Mounted, Unmount, Fault,
     Fails, Goto, At, Inside, Admitting, Activating
<1>4. Sorted'
  BY DEF IInv, TypeOK, Sorted, Collects, Manifests, Unmount, Fault, Fails, Goto, store, found,
     At, Collecting
<1>5. AdmittedIsWhole' /\ ReadyStaysReady' /\ HooksFitTheBuild'
  <2>1. AdmittedIsWhole'
    BY DEF AdmittedIsWhole, IInv, Manifests, Unmount, Fault, Fails, store
  <2>2. ReadyStaysReady'
    <3>1. \E a \in doomed : mounts \ MountsOf(a) \subseteq mounts' /\ a \notin ready
      BY DEF IInv, TypeOK, Sorted, Collects, Unmount, Fault, At, Collecting
    <3>2. \A a \in ready : MountsOf(a) \subseteq mounts'
      BY <3>1 DEF IInv, ReadyStaysReady, MountsOf
    <3> QED
      BY <3>2 DEF IInv, ReadyStaysReady, Unmount, Manifests, store
  <2>3. HooksFitTheBuild'
    BY DEF IInv, TypeOK, HooksFitTheBuild, HookRuns, Unmount, Fault, Fails, Goto, system, At
  <2> QED BY <2>1, <2>2, <2>3
<1> QED BY <1>1, <1>2, <1>3, <1>4, <1>5 DEF IInv

\* Only what is doomed is taken off the list.
LEMMA RemoveManifestKeeps ==
  ASSUME IInv, NEW p \in Procs, RemoveManifest(p)
  PROVE  IInv'
<1>1. TypeOK'
  <2>1. admitted' \in Seq(Artifacts) /\ IsInjective(admitted')
    BY WithoutOne DEF IInv, TypeOK, RemoveManifest
  <2> QED
    BY <2>1 DEF IInv, TypeOK, RemoveManifest, Goto, host, system, found, Collecting
<1>2. Alone'
  BY DEF IInv, TypeOK, Alone, Shares, Collects, RemoveManifest, Goto, At, Inside, Collecting,
     Admitting, Activating
<1>3. \A q \in Procs : Knows(q)'
  BY DEF IInv, TypeOK, Knows, Alone, Shares, Collects, Validated, Mounted, RemoveManifest,
     Goto, At, Inside, Collecting, Admitting, Activating
<1>4. Sorted'
  <2>1. Manifests' = Manifests \ {cur[p]}
    BY WithoutOne DEF IInv, TypeOK, Manifests, RemoveManifest
  <2> QED
    BY <2>1 DEF IInv, TypeOK, Sorted, Collects, RemoveManifest, Goto, found, At, Collecting
<1>5. AdmittedIsWhole' /\ ReadyStaysReady' /\ HooksFitTheBuild'
  <2>0. Manifests' = Manifests \ {cur[p]}
    BY WithoutOne DEF IInv, TypeOK, Manifests, RemoveManifest
  <2>1. AdmittedIsWhole'
    BY <2>0 DEF AdmittedIsWhole, IInv, RemoveManifest
  <2>2. ReadyStaysReady'
    BY <2>0 DEF IInv, TypeOK, ReadyStaysReady, Collects, Sorted, RemoveManifest, host, At,
       Collecting
  <2>3. HooksFitTheBuild'
    BY <2>0 DEF IInv, TypeOK, HooksFitTheBuild, HookRuns, RemoveManifest, Goto, host, system, At
  <2> QED BY <2>1, <2>2, <2>3
<1> QED BY <1>1, <1>2, <1>3, <1>4, <1>5 DEF IInv

\* What was taken off the list is no longer to be removed.
LEMMA RemoveLeaseKeeps ==
  ASSUME IInv, NEW p \in Procs, RemoveLease(p)
  PROVE  IInv'
<1>1. TypeOK'
  <2>1. leases' \in Seq(Artifacts) /\ IsInjective(leases')
    BY WithoutOne DEF IInv, TypeOK, RemoveLease
  <2> QED
    BY <2>1 DEF IInv, TypeOK, RemoveLease, Goto, host, system, Collecting
<1>2. Alone'
  BY DEF IInv, TypeOK, Alone, Shares, Collects, RemoveLease, Goto, At, Inside, Collecting,
     Admitting, Activating
<1>3. \A q \in Procs : Knows(q)'
  BY DEF IInv, TypeOK, Knows, FitsBuild, Manifests, Validated, Mounted, RemoveLease, Goto,
     host, system, At, Admitting, Activating
<1>4. Sorted'
  BY DEF IInv, TypeOK, Sorted, Alone, Collects, Manifests, RemoveLease, Goto, At, Collecting
<1>5. AdmittedIsWhole' /\ ReadyStaysReady' /\ HooksFitTheBuild'
  BY DEF IInv, TypeOK, AdmittedIsWhole, ReadyStaysReady, HooksFitTheBuild, HookRuns,
     Manifests, RemoveLease, Goto, host, system, At
<1> QED BY <1>1, <1>2, <1>3, <1>4, <1>5 DEF IInv

\* When nothing is left to remove, all that is listed is kept.
LEMMA RemoveBlobKeeps ==
  ASSUME IInv, NEW p \in Procs, RemoveBlob(p)
  PROVE  IInv'
<1>1. TypeOK'
  BY DEF IInv, TypeOK, RemoveBlob, Goto, process, host, system
<1>2. Alone'
  BY DEF IInv, TypeOK, Alone, Shares, Collects, RemoveBlob, Goto, process, At, Inside,
     Admitting, Activating
<1>3. \A q \in Procs : Knows(q)'
  BY DEF IInv, TypeOK, Knows, FitsBuild, Manifests, Validated, Mounted, RemoveBlob, Goto,
     process, host, system, Inside, Admitting, Activating
<1>4. Sorted'
  BY DEF IInv, TypeOK, Sorted, Alone, Collects, Manifests, RemoveBlob, Goto, process, At,
     Collecting
<1>5. AdmittedIsWhole' /\ ReadyStaysReady' /\ HooksFitTheBuild'
  <2>1. blobs' = blobs \/ \A a \in Manifests : LayersOf(a) \cap (blobs \ blobs') = {}
    BY DEF IInv, TypeOK, Sorted, Collects, Referenced, RemoveBlob, At, Collecting
  <2>2. \A a \in Manifests : LayersOf(a) \subseteq blobs'
    BY <2>1 DEF IInv, AdmittedIsWhole
  <2>3. /\ Manifests' = Manifests /\ ready' = ready /\ ready \subseteq Manifests
        /\ UNCHANGED <<host, build>>
    BY DEF IInv, ReadyStaysReady, RemoveBlob, Manifests, system
  <2>4. AdmittedIsWhole'
    BY <2>2, <2>3 DEF AdmittedIsWhole
  <2>5. ReadyStaysReady'
    BY <2>2, <2>3 DEF IInv, ReadyStaysReady, host
  <2>6. HooksFitTheBuild'
    BY DEF IInv, TypeOK, HookRuns, HooksFitTheBuild, RemoveBlob, Goto, process, host, system, At
  <2> QED BY <2>4, <2>5, <2>6
<1> QED BY <1>1, <1>2, <1>3, <1>4, <1>5 DEF IInv

\* A dead process holds nothing; its hook may go on.
LEMMA KillKeeps ==
  ASSUME IInv, NEW p \in Procs, Kill(p)
  PROVE  IInv'
<1>1. TypeOK'
  BY Listed DEF IInv, TypeOK, Knows, Kill, Exit, store, system, found, At, Collecting
<1>2. Alone'
  BY DEF IInv, TypeOK, Alone, Shares, Collects, Kill, Exit, Inside, Collecting, Admitting,
     Activating
<1>3. \A q \in Procs : Knows(q)'
  BY DEF IInv, TypeOK, Knows, FitsBuild, Manifests, Validated, Mounted, Kill, Exit, store,
     system, Inside, Admitting, Activating
<1>4. Sorted'
  BY DEF IInv, TypeOK, Sorted, Collects, Manifests, Kill, Exit, store, found, Collecting
<1>5. AdmittedIsWhole' /\ ReadyStaysReady' /\ HooksFitTheBuild'
  BY DEF IInv, TypeOK, AdmittedIsWhole, ReadyStaysReady, HooksFitTheBuild, HookRuns,
     Manifests, Kill, Exit, store, system, At
<1> QED BY <1>1, <1>2, <1>3, <1>4, <1>5 DEF IInv

\* A new invocation holds nothing.
LEMMA InvokeKeeps ==
  ASSUME IInv, NEW p \in Procs, Prepare(p) \/ ActivateCached(p) \/ Gc(p)
  PROVE  IInv'
<1>1. TypeOK'
  <2>1. \E step \in {"next", "gc"}, items \in SUBSET Artifacts, fromCache \in BOOLEAN :
          Invoke(p, step, items, fromCache)
    <3>1. want \subseteq Artifacts
      BY CacheAssumption DEF IInv, TypeOK
    <3>2. CASE Prepare(p)
      <4>1. PICK a \in want : Invoke(p, "next", {a}, FALSE)
        BY <3>2 DEF Prepare
      <4>2. {a} \in SUBSET Artifacts /\ FALSE \in BOOLEAN
        BY <3>1
      <4> QED BY <4>1, <4>2
    <3>3. CASE ActivateCached(p)
      BY <3>1, <3>3 DEF ActivateCached
    <3>4. CASE Gc(p)
      <4>1. {} \in SUBSET Artifacts /\ FALSE \in BOOLEAN
        OBVIOUS
      <4> QED BY <3>4, <4>1 DEF Gc
    <3> QED BY <3>2, <3>3, <3>4
  <2> QED
    BY <2>1 DEF IInv, TypeOK, Invoke, system, store, host, found
<1>2. Alone'
  BY DEF IInv, TypeOK, Alone, Shares, Collects, Prepare, ActivateCached, Gc, Invoke, host,
     found, At, Inside, Collecting, Admitting, Activating
<1>3. \A q \in Procs : Knows(q)'
  BY DEF IInv, TypeOK, Knows, FitsBuild, Manifests, Validated, Mounted, Prepare,
     ActivateCached, Gc, Invoke, system, store, host, Inside, Admitting, Activating
<1>4. Sorted'
  BY DEF IInv, TypeOK, Sorted, Collects, Manifests, Prepare, ActivateCached, Gc, Invoke,
     store, found, Collecting
<1>5. AdmittedIsWhole' /\ ReadyStaysReady' /\ HooksFitTheBuild'
  BY DEF IInv, TypeOK, AdmittedIsWhole, ReadyStaysReady, HooksFitTheBuild, HookRuns,
     Manifests, Prepare, ActivateCached, Gc, Invoke, system, store, host, At
<1> QED BY <1>1, <1>2, <1>3, <1>4, <1>5 DEF IInv

\* Another state may want less of what is ready, never more.
LEMMA SaveStateKeeps ==
  ASSUME IInv, SaveState
  PROVE  IInv'
<1>1. TypeOK'
  BY DEF IInv, TypeOK, SaveState, store, host, process, found
<1>2. Alone'
  BY DEF IInv, TypeOK, Alone, Shares, Collects, SaveState, process
<1>3. \A q \in Procs : Knows(q)'
  BY DEF IInv, TypeOK, Knows, FitsBuild, Manifests, SaveState, store, host, process
<1>4. Sorted'
  BY DEF IInv, TypeOK, Sorted, Collects, Manifests, SaveState, store, process, found
<1>5. AdmittedIsWhole' /\ ReadyStaysReady' /\ HooksFitTheBuild'
  BY DEF IInv, TypeOK, AdmittedIsWhole, ReadyStaysReady, HooksFitTheBuild, HookRuns,
     Manifests, SaveState, store, host, process, At
<1> QED BY <1>1, <1>2, <1>3, <1>4, <1>5 DEF IInv

\* A hook without a process ends.
LEMMA OrphanEndsKeeps ==
  ASSUME IInv, OrphanEnds
  PROVE  IInv'
<1>1. TypeOK'
  BY DEF IInv, TypeOK, OrphanEnds, system, store, process, found
<1>2. Alone'
  BY DEF IInv, TypeOK, Alone, Shares, Collects, OrphanEnds, process
<1>3. \A q \in Procs : Knows(q)'
  BY DEF IInv, TypeOK, Knows, FitsBuild, Manifests, OrphanEnds, system, store, process
<1>4. Sorted'
  BY DEF IInv, TypeOK, Sorted, Collects, Manifests, OrphanEnds, store, process, found
<1>5. AdmittedIsWhole' /\ ReadyStaysReady' /\ HooksFitTheBuild'
  BY DEF IInv, TypeOK, AdmittedIsWhole, ReadyStaysReady, HooksFitTheBuild, HookRuns,
     Manifests, OrphanEnds, system, store, process, At
<1> QED BY <1>1, <1>2, <1>3, <1>4, <1>5 DEF IInv

\* Only the store survives.
LEMMA RebootKeeps ==
  ASSUME IInv, Reboot
  PROVE  IInv'
<1>1. TypeOK'
  BY DEF IInv, TypeOK, Reboot, store
<1>2. Alone'
  BY DEF IInv, TypeOK, Alone, Collects, Reboot, Inside, Collecting, Admitting, Activating
<1>3. \A q \in Procs : Knows(q)'
  BY DEF IInv, TypeOK, Knows, Validated, Mounted, Reboot, Inside, Admitting, Activating
<1>4. Sorted'
  BY DEF IInv, TypeOK, Sorted, Collects, Reboot, Collecting
<1>5. AdmittedIsWhole' /\ ReadyStaysReady' /\ HooksFitTheBuild'
  BY DEF IInv, TypeOK, AdmittedIsWhole, ReadyStaysReady, HooksFitTheBuild, HookRuns,
     Manifests, Reboot, store
<1> QED BY <1>1, <1>2, <1>3, <1>4, <1>5 DEF IInv

-----------------------------------------------------------------------------
\* A stock of earlier invocations is whole and lists nothing twice.
LEMMA InitHolds == Init => IInv
<1> SUFFICES ASSUME Init PROVE IInv
  OBVIOUS
<1>1. TypeOK
  BY CacheAssumption DEF Init, TypeOK, Manifests, ToSet, LayersOf, Layers, MountsOf
<1>2. Alone /\ Sorted /\ (\A p \in Procs : Knows(p))
  BY DEF Init, Alone, Sorted, Knows, Collects, Validated, Mounted, Inside, Collecting,
     Admitting, Activating
<1>3. AdmittedIsWhole /\ ReadyStaysReady /\ HooksFitTheBuild
  BY DEF Init, AdmittedIsWhole, ReadyStaysReady, HooksFitTheBuild, HookRuns
<1> QED BY <1>1, <1>2, <1>3 DEF IInv

\* Every step, by the lemma of its action.
LEMMA NextKeeps == IInv /\ [Next]_vars => IInv'
<1> SUFFICES ASSUME IInv, [Next]_vars PROVE IInv'
  OBVIOUS
<1>1. ASSUME NEW p \in Procs, Run(p)
      PROVE  IInv'
  <2>1. CASE Admission(p)
    BY <2>1, LockSharedKeeps, LockManifestKeeps, TakeSlotKeeps, FetchConfigKeeps,
       LockLayerKeeps, DownloadKeeps, AdmitKeeps DEF Admission
  <2>2. CASE Use(p)
    BY <2>2, ValidateKeeps, MountKeeps, LockProviderKeeps, StartHookKeeps,
       HookEndsKeeps, ActivateKeeps, LeaseKeeps DEF Use
  <2>3. CASE Collection(p)
    BY <2>3, StartCollectionKeeps, UnmountKeeps, RemoveManifestKeeps,
       RemoveLeaseKeeps, RemoveBlobKeeps DEF Collection
  <2> QED BY <1>1, <2>1, <2>2, <2>3, NextItemKeeps DEF Run
<1>2. CASE UNCHANGED vars
  BY <1>2 DEF IInv, vars, system, store, host, process, found, TypeOK, Alone, Knows, Sorted, 
     AdmittedIsWhole, ReadyStaysReady, HooksFitTheBuild, HookRuns, Shares, Collects, FitsBuild,
     Manifests, At
<1> QED BY <1>1, <1>2, InvokeKeeps, KillKeeps, SaveStateKeeps, OrphanEndsKeeps, RebootKeeps
       DEF Next

\* The inductive invariant: what a process knows under its locks (artifacts.py,
\* prepare and gc) stays true until it releases them.
THEOREM CacheInvariant == Spec => []IInv
BY InitHolds, NextKeeps, PTL DEF Spec

\* Types; the store lists no manifest and no lease twice, however many
\* processes admit, lease and collect.
THEOREM CacheTypes == Spec => []TypeOK
<1>1. IInv => TypeOK
  BY DEF IInv
<1> QED BY <1>1, CacheInvariant, PTL

\* Every listed manifest has all its layers, though collections remove layers
\* and admissions take over layers of other artifacts without fetching them.
THEOREM AdmittedStaysWhole == Spec => []AdmittedIsWhole
<1>1. IInv => AdmittedIsWhole
  BY DEF IInv
<1> QED BY <1>1, CacheInvariant, PTL

\* What was made ready for the saved state stays listed, whole, mounted and,
\* if it extends the host, active, while other processes work in the cache.
THEOREM ReadyNeverLost == Spec => []ReadyStaysReady
<1>1. IInv => ReadyStaysReady
  BY DEF IInv
<1> QED BY <1>1, CacheInvariant, PTL

\* Hooks that run or outlived their process, and providers that are active,
\* were made for the running build.
THEOREM OnlyFittingHooks == Spec => []HooksFitTheBuild
<1>1. IInv => HooksFitTheBuild
  BY DEF IInv
<1> QED BY <1>1, CacheInvariant, PTL
=============================================================================
