--------------------------- MODULE ArtifactCache ---------------------------
(***************************************************************************)
(* The cache of digest-pinned artifacts (artifacts.py): every invocation   *)
(* of reefy-artifacts is a process that admits an artifact, mounts its     *)
(* layers, activates it when it extends the host, leases it, and then      *)
(* collects what nobody needs.  Processes exclude each other by file locks *)
(* only, which the kernel drops when a process dies.                       *)
(***************************************************************************)
EXTENDS Naturals, FiniteSets, SequencesExt

CONSTANTS
  Procs,      \* invocations that may run at the same time
  Artifacts,
  Info,       \* of each artifact: [layers, host, name, build]
  Builds,     \* operating system builds the device may boot
  States,     \* the sets of artifacts a saved state may name
  Stocks,     \* what earlier invocations may have left, oldest first
  NoArtifact, NoLayer,
  Slots,      \* concurrent admissions (2 in the code)
  Keep,       \* versions of an identity that are kept (3 in the code)
  Budget      \* bounds: invocations, failures and kills, reboots, new states

Layers == UNION {Info[a].layers : a \in Artifacts}
Names == {Info[a].name : a \in Artifacts}
Limits == {"call", "fault", "boot", "state"}

ASSUME CacheAssumption ==
  /\ NoArtifact \notin Artifacts /\ NoLayer \notin Layers
  /\ \A a \in Artifacts : /\ Info[a].layers # {} /\ Info[a].host \in BOOLEAN
                          /\ Info[a].build \in Builds
  /\ States \subseteq SUBSET Artifacts /\ Stocks \subseteq Seq(Artifacts)
  /\ \A s \in Stocks : IsInjective(s)
  /\ Slots \in Nat \ {0} /\ Keep \in Nat /\ Budget \in [Limits -> Nat]

VARIABLES
  want,      \* artifacts that the saved desired state names
  build,     \* REEFY_BUILD_ID and kernel of the running system
  admitted,  \* manifests in the store, in the order they were admitted
  leases,    \* lease files, oldest first
  blobs,     \* layers in the store, whole
  mounts,    \* <<artifact, layer>> mounted
  active,    \* active/<name>.json
  orphans,   \* artifacts whose hook outlived the process that started it
  ready,     \* wanted artifacts that a process has made ready
  pc, todo, cached, cur, layer,  \* of each process
  doomed, kept,                  \* what a collection found
  count      \* what is used of Budget

store == <<admitted, leases, blobs>>
system == <<want, build>>
host == <<mounts, active, orphans>>
process == <<pc, todo, cached, cur, layer>>
found == <<doomed, kept>>
vars == <<system, store, host, ready, process, found, count>>

Bounded(what) ==
  /\ count[what] < Budget[what]
  /\ count' = [count EXCEPT ![what] = @ + 1]

Place(a, list) == CHOOSE i \in DOMAIN list : list[i] = a
Without(list, a) == IF Contains(list, a) THEN RemoveAt(list, Place(a, list)) ELSE list

Manifests == ToSet(admitted)
LayersOf(a) == Info[a].layers
MountsOf(a) == {a} \X LayersOf(a)
Identity(a) == <<Info[a].host, Info[a].name>>

\* Equal configuration and layers.
SamePayload(a, b) == Info[a] = Info[b]

At(p, step) == pc[p] = step
Goto(p, step) == pc' = [pc EXCEPT ![p] = step] /\ UNCHANGED <<todo, cached, cur, layer>>
Exit(p) ==
  /\ pc' = [pc EXCEPT ![p] = "idle"] /\ todo' = [todo EXCEPT ![p] = {}]
  /\ cached' = [cached EXCEPT ![p] = FALSE]
  /\ cur' = [cur EXCEPT ![p] = NoArtifact] /\ layer' = [layer EXCEPT ![p] = NoLayer]

\* The locks a process holds follow from where it is.
Admitting == {"admit", "layers", "fetch"}
Activating == {"hook", "hooking", "record"}
Inside == {"manifest", "slot", "validate", "mount", "activate", "lease"}
            \cup Admitting \cup Activating
Collecting == {"sweep", "unlist", "unlease"}

\* Mutant of Shares: the collection starts with the shared lock still held.
SharesThroughCollection(p) == pc[p] \in Inside \cup {"gc"}

Shares(p) == pc[p] \in Inside
Collects(p) == pc[p] \in Collecting
HoldsManifest(p, a) == pc[p] \in Inside \ {"manifest"} /\ cur[p] = a
HoldsProvider(p, name) == pc[p] \in Activating /\ Info[cur[p]].name = name
HookRuns == {p \in Procs : At(p, "hooking")}

-----------------------------------------------------------------------------
Init ==
  /\ want \in States /\ build \in Builds
  /\ admitted \in Stocks /\ leases = admitted /\ blobs = UNION {LayersOf(a) : a \in Manifests}
  /\ mounts = {} /\ active = [n \in Names |-> NoArtifact] /\ orphans = {}
  /\ ready = {}
  /\ pc = [p \in Procs |-> "idle"] /\ todo = [p \in Procs |-> {}]
  /\ cached = [p \in Procs |-> FALSE]
  /\ cur = [p \in Procs |-> NoArtifact] /\ layer = [p \in Procs |-> NoLayer]
  /\ doomed = {} /\ kept = {}
  /\ count = [what \in Limits |-> 0]

Invoke(p, step, items, fromCache) ==
  /\ At(p, "idle") /\ Bounded("call")
  /\ pc' = [pc EXCEPT ![p] = step]
  /\ todo' = [todo EXCEPT ![p] = items] /\ cached' = [cached EXCEPT ![p] = fromCache]
  /\ UNCHANGED <<system, store, host, ready, cur, layer, found>>

\* The reconciler prepares an app's artifacts one process each, the boot
\* service every artifact of the state as it reads it; gc can be called.
Prepare(p) == \E a \in want : Invoke(p, "next", {a}, FALSE)
ActivateCached(p) == want # {} /\ Invoke(p, "next", want, TRUE)
Gc(p) == Invoke(p, "gc", {}, FALSE)

NextItem(p) ==
  /\ At(p, "next")
  /\ \/ todo[p] = {} /\ Exit(p)
     \/ \E a \in todo[p] :
          /\ cur' = [cur EXCEPT ![p] = a] /\ todo' = [todo EXCEPT ![p] = @ \ {a}]
          /\ pc' = [pc EXCEPT ![p] = "share"] /\ UNCHANGED <<cached, layer>>
  /\ UNCHANGED <<system, store, host, ready, found, count>>

\* An ArtifactError ends a prepare; the boot service goes on to the next.
Fails(p) == Goto(p, "next")
Fault(p) == Bounded("fault") /\ Fails(p)

-----------------------------------------------------------------------------
LockShared(p) ==
  /\ At(p, "share") /\ \A q \in Procs : ~Collects(q)
  /\ Goto(p, "manifest")
  /\ UNCHANGED <<system, store, host, ready, found, count>>

\* Mutant of LockManifest: only the collection is excluded.
SkipManifestLock(p) ==
  /\ At(p, "manifest")
  /\ \/ cur[p] \in Manifests /\ Goto(p, "validate")
     \/ cur[p] \notin Manifests /\ cached[p] /\ Fails(p)
     \/ cur[p] \notin Manifests /\ ~cached[p] /\ Goto(p, "slot")
  /\ UNCHANGED <<system, store, host, ready, found, count>>

\* A manifest that is listed is taken as it is; the boot service stops here
\* when it is not.
LockManifest(p) ==
  /\ At(p, "manifest") /\ \A q \in Procs : ~HoldsManifest(q, cur[p])
  /\ \/ cur[p] \in Manifests /\ Goto(p, "validate")
     \/ cur[p] \notin Manifests /\ cached[p] /\ Fails(p)
     \/ cur[p] \notin Manifests /\ ~cached[p] /\ Goto(p, "slot")
  /\ UNCHANGED <<system, store, host, ready, found, count>>

TakeSlot(p) ==
  /\ At(p, "slot") /\ Cardinality({q \in Procs : pc[q] \in Admitting}) < Slots
  /\ Goto(p, "admit")
  /\ UNCHANGED <<system, store, host, ready, found, count>>

FitsBuild(a) == Info[a].host => Info[a].build = build

\* Manifest and configuration are fetched and compared with their digests.
FetchConfig(p) ==
  /\ At(p, "admit")
  /\ \/ FitsBuild(cur[p]) /\ Goto(p, "layers") /\ UNCHANGED count
     \/ ~FitsBuild(cur[p]) /\ Fails(p) /\ UNCHANGED count
     \/ Fault(p)
  /\ UNCHANGED <<system, store, host, ready, found>>

\* A layer that another artifact brought is not fetched again.
LockLayer(p) ==
  /\ At(p, "layers")
  /\ \E l \in LayersOf(cur[p]) \ blobs :
       /\ \A q \in Procs : ~(At(q, "fetch") /\ layer[q] = l)
       /\ layer' = [layer EXCEPT ![p] = l]
  /\ pc' = [pc EXCEPT ![p] = "fetch"] /\ UNCHANGED <<todo, cached, cur>>
  /\ UNCHANGED <<system, store, host, ready, found, count>>

Fetched(p, step) ==
  /\ pc' = [pc EXCEPT ![p] = step] /\ layer' = [layer EXCEPT ![p] = NoLayer]
  /\ UNCHANGED <<todo, cached, cur>>

\* The digest is checked on a partial file, which then replaces the final one.
Download(p) ==
  /\ At(p, "fetch")
  /\ \/ blobs' = blobs \cup {layer[p]} /\ Fetched(p, "layers") /\ UNCHANGED count
     \/ Bounded("fault") /\ Fetched(p, "next") /\ UNCHANGED blobs
  /\ UNCHANGED <<system, admitted, leases, host, ready, found>>

\* Mutant of Admit: the manifest is written before the last layer is there.
AdmitEarly(p) ==
  /\ At(p, "layers") /\ Cardinality(LayersOf(cur[p]) \ blobs) <= 1
  /\ admitted' = IF cur[p] \in Manifests THEN admitted ELSE Append(admitted, cur[p])
  /\ Goto(p, IF LayersOf(cur[p]) \subseteq blobs THEN "validate" ELSE "layers")
  /\ UNCHANGED <<system, leases, blobs, host, ready, found, count>>

Admit(p) ==
  /\ At(p, "layers") /\ LayersOf(cur[p]) \subseteq blobs
  /\ admitted' = Append(admitted, cur[p])
  /\ Goto(p, "validate")
  /\ UNCHANGED <<system, leases, blobs, host, ready, found, count>>

\* Mutant of Validate: what was valid when it was admitted stays valid.
ValidateOnce(p) ==
  /\ At(p, "validate") /\ Goto(p, "mount")
  /\ UNCHANGED <<system, store, host, ready, found, count>>

\* A cached host extension is compared with the build that runs now.
Validate(p) ==
  /\ At(p, "validate")
  /\ IF FitsBuild(cur[p]) THEN Goto(p, "mount") ELSE Fails(p)
  /\ UNCHANGED <<system, store, host, ready, found, count>>

Mount(p) ==
  /\ At(p, "mount")
  /\ LET missing == MountsOf(cur[p]) \ mounts
         step == IF Info[cur[p]].host THEN "activate" ELSE "lease" IN
       \/ missing = {} /\ Goto(p, step) /\ UNCHANGED <<mounts, count>>
       \/ \E m \in missing : /\ mounts' = mounts \cup {m}
                             /\ UNCHANGED <<process, count>>
       \/ missing # {} /\ Fault(p) /\ UNCHANGED mounts
  /\ UNCHANGED <<system, store, active, orphans, ready, found>>

-----------------------------------------------------------------------------
(* Activation: one provider of a name per boot, one hook at a time.        *)

LockProvider(p) ==
  /\ At(p, "activate")
  /\ LET name == Info[cur[p]].name
         now == active[name] IN
       /\ \A q \in Procs : ~HoldsProvider(q, name)
       /\ \/ now # NoArtifact /\ SamePayload(now, cur[p]) /\ Goto(p, "lease")
          \/ now # NoArtifact /\ ~SamePayload(now, cur[p]) /\ Fails(p)
          \/ now = NoArtifact /\ Goto(p, "hook")
  /\ UNCHANGED <<system, store, host, ready, found, count>>

StartHook(p) ==
  /\ At(p, "hook") /\ HookRuns = {} /\ Goto(p, "hooking")
  /\ UNCHANGED <<system, store, host, ready, found, count>>

HookEnds(p) ==
  /\ At(p, "hooking")
  /\ \/ Goto(p, "record") /\ UNCHANGED count
     \/ Fault(p)
  /\ UNCHANGED <<system, store, host, ready, found>>

Activate(p) ==
  /\ At(p, "record") /\ active' = [active EXCEPT ![Info[cur[p]].name] = cur[p]]
  /\ Goto(p, "lease")
  /\ UNCHANGED <<system, store, mounts, orphans, ready, found, count>>

\* The locks are released before the collection takes its own.
Lease(p) ==
  /\ At(p, "lease") /\ Goto(p, "gc")
  /\ leases' = Append(Without(leases, cur[p]), cur[p])
  /\ ready' = ready \cup ({cur[p]} \cap want)
  /\ UNCHANGED <<system, admitted, blobs, host, found, count>>

-----------------------------------------------------------------------------
(* Collection, alone in the store.                                         *)

\* A lease is in nanoseconds, an admission in seconds: whatever has no lease
\* counts as older than whatever has one.
LastUsed(a) ==
  IF Contains(leases, a) THEN Len(admitted) + Place(a, leases) ELSE Place(a, admitted)
Newest ==
  {a \in Manifests : Cardinality({b \in Manifests : Identity(b) = Identity(a)
                                       /\ LastUsed(b) > LastUsed(a)}) < Keep}

\* Mutant of Protected: only retention by age.
ProtectActive == {active[n] : n \in Names}

Protected == want \cup {active[n] : n \in Names}

StartCollection(p) ==
  /\ At(p, "gc") /\ (\A q \in Procs : ~Shares(q) /\ ~Collects(q))
  /\ kept' = Manifests \cap (Protected \cup Newest)
  /\ doomed' = Manifests \ kept'
  /\ Goto(p, "sweep")
  /\ UNCHANGED <<system, store, host, ready, count>>

\* A layer that is busy ends the collection.
Unmount(p) ==
  /\ At(p, "sweep") /\ doomed # {}
  /\ \E a \in doomed :
       \/ /\ mounts' = mounts \ MountsOf(a) /\ UNCHANGED count
          /\ pc' = [pc EXCEPT ![p] = "unlist"] /\ cur' = [cur EXCEPT ![p] = a]
          /\ UNCHANGED <<todo, cached, layer>>
       \/ \E some \in SUBSET (MountsOf(a) \cap mounts) :
            /\ some # MountsOf(a) \cap mounts
            /\ mounts' = mounts \ some /\ Fault(p)
  /\ UNCHANGED <<system, store, active, orphans, ready, found>>

RemoveManifest(p) ==
  /\ At(p, "unlist") /\ Goto(p, "unlease")
  /\ admitted' = Without(admitted, cur[p])
  /\ UNCHANGED <<system, leases, blobs, host, ready, found, count>>

RemoveLease(p) ==
  /\ At(p, "unlease") /\ Goto(p, "sweep")
  /\ leases' = Without(leases, cur[p]) /\ doomed' = doomed \ {cur[p]}
  /\ UNCHANGED <<system, admitted, blobs, host, ready, kept, count>>

Referenced == UNION {LayersOf(a) : a \in kept}

RemoveBlob(p) ==
  /\ At(p, "sweep") /\ doomed = {}
  /\ \/ \E l \in blobs \ Referenced : blobs' = blobs \ {l} /\ UNCHANGED <<process, kept>>
     \/ blobs \subseteq Referenced /\ kept' = {} /\ Goto(p, "next") /\ UNCHANGED blobs
  /\ UNCHANGED <<system, admitted, leases, host, ready, doomed, count>>

-----------------------------------------------------------------------------
\* The data plane replaces the state file without any of these locks.
SaveState ==
  /\ Bounded("state") /\ want' \in States /\ ready' = ready \cap want'
  /\ UNCHANGED <<build, store, host, process, found>>

\* A process dies: of the caller's timeout, and then a hook that it started
\* goes on, or with its whole service.
Kill(p) ==
  /\ ~At(p, "idle") /\ Bounded("fault") /\ Exit(p)
  /\ \/ UNCHANGED orphans
     \/ At(p, "hooking") /\ ~cached[p] /\ orphans' = orphans \cup {cur[p]}
  /\ UNCHANGED <<system, store, mounts, active, ready, found>>

OrphanEnds ==
  /\ \E a \in orphans : orphans' = orphans \ {a}
  /\ UNCHANGED <<system, store, mounts, active, ready, process, found, count>>

\* /run is empty after a boot, possibly of the other slot's build.
Reboot ==
  /\ Bounded("boot") /\ build' \in Builds
  /\ mounts' = {} /\ active' = [n \in Names |-> NoArtifact] /\ orphans' = {}
  /\ ready' = {} /\ pc' = [p \in Procs |-> "idle"] /\ todo' = [p \in Procs |-> {}]
  /\ cached' = [p \in Procs |-> FALSE]
  /\ cur' = [p \in Procs |-> NoArtifact] /\ layer' = [p \in Procs |-> NoLayer]
  /\ doomed' = {} /\ kept' = {}
  /\ UNCHANGED <<want, store>>

Admission(p) ==
  \/ LockShared(p) \/ LockManifest(p) \/ TakeSlot(p) \/ FetchConfig(p)
  \/ LockLayer(p) \/ Download(p) \/ Admit(p)
Use(p) ==
  \/ Validate(p) \/ Mount(p) \/ LockProvider(p) \/ StartHook(p) \/ HookEnds(p)
  \/ Activate(p) \/ Lease(p)
Collection(p) ==
  \/ StartCollection(p) \/ Unmount(p) \/ RemoveManifest(p) \/ RemoveLease(p)
  \/ RemoveBlob(p)
Run(p) == NextItem(p) \/ Admission(p) \/ Use(p) \/ Collection(p)

Next ==
  \/ \E p \in Procs : Prepare(p) \/ ActivateCached(p) \/ Gc(p) \/ Run(p) \/ Kill(p)
  \/ SaveState \/ OrphanEnds \/ Reboot

Spec == Init /\ [][Next]_vars

\* A process goes on unless it waits for a lock; downloads, hooks and mounts
\* have timeouts.
FairSpec == Spec /\ \A p \in Procs : WF_vars(Run(p) /\ count' = count)

-----------------------------------------------------------------------------
\* Types; no manifest and no lease is listed twice.
TypeOK ==
  /\ want \in States /\ build \in Builds /\ blobs \subseteq Layers
  /\ admitted \in Seq(Artifacts) /\ IsInjective(admitted)
  /\ leases \in Seq(Artifacts) /\ IsInjective(leases)
  /\ mounts \subseteq UNION {MountsOf(a) : a \in Artifacts}
  /\ active \in [Names -> Artifacts \cup {NoArtifact}]
  /\ orphans \subseteq Artifacts /\ ready \subseteq want
  /\ pc \in [Procs -> {"idle", "next", "share", "gc"} \cup Inside \cup Collecting]
  /\ todo \in [Procs -> SUBSET Artifacts] /\ cached \in [Procs -> BOOLEAN]
  /\ cur \in [Procs -> Artifacts \cup {NoArtifact}]
  /\ layer \in [Procs -> Layers \cup {NoLayer}]
  /\ doomed \subseteq Artifacts /\ kept \subseteq Artifacts

\* An admitted manifest has all its layers, those it shares with collected
\* artifacts included; cached activation after a boot relies on it.
AdmittedIsWhole == \A a \in Manifests : LayersOf(a) \subseteq blobs

\* An artifact that was made ready stays usable for as long as the saved
\* state names it, whatever other processes prepare, fail, or collect.
ReadyStaysReady ==
  \A a \in ready :
    /\ a \in Manifests /\ LayersOf(a) \subseteq blobs /\ MountsOf(a) \subseteq mounts
    /\ Info[a].host => /\ active[Info[a].name] # NoArtifact
                       /\ SamePayload(active[Info[a].name], a)

\* No hook runs and no provider is active that was made for another build,
\* though the store keeps those of the other slot across an update.
HooksFitTheBuild ==
  \A a \in {cur[p] : p \in HookRuns} \cup orphans \cup {active[n] : n \in Names} :
    a # NoArtifact => Info[a].build = build

\* Every invocation ends: the locks it takes never close a circle.
EveryInvocationEnds == \A p \in Procs : ~At(p, "idle") ~> At(p, "idle")

\* "Running different vendors' hooks concurrently can corrupt the shared
\* module dependency update": one hook at a time.
HooksAreSerial == Cardinality(HookRuns) + Cardinality(orphans) <= 1
=============================================================================
