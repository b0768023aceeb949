----------------------------- MODULE AppVolumes -----------------------------
(***************************************************************************)
(* Dedicated logical volumes of app paths (storage.py): the boot mounter   *)
(* that runs before Docker, the reconciler that creates, mounts, repairs   *)
(* and tags volumes, and the reclaim of the volumes of deleted instances.  *)
(*                                                                         *)
(* systemd runs the mounter, then Docker, then the reconciler, so one of   *)
(* them works at a time; containers write at any time.  One step is one    *)
(* external command with its outcome: it works, it fails, or it is cut off *)
(* by a time-out with or without its effect.  Power may go, or the working *)
(* process be killed, between any two commands.                            *)
(***************************************************************************)
EXTENDS Naturals, FiniteSets

CONSTANTS
  Paths,      \* volume paths, /mnt/reefy-data/apps/<instance>/<volume>
  Instances,
  Owner,      \* the instance in a path
  NoPath,
  States,     \* the desired states a cloud may send
  Budget      \* bounds: failing commands, kills and power losses, states

Kinds == {"absent", "plain", "backup", "capped"}

ASSUME StatesAssumption ==
  /\ NoPath \notin Paths
  /\ Owner \in [Paths -> Instances]
  /\ States \subseteq [kind : [Paths -> Kinds], instances : SUBSET Instances]
  /\ \A s \in States : \A p \in Paths :
        s.kind[p] # "absent" => Owner[p] \in s.instances
  /\ Budget \in [fault : Nat, crash : Nat, state : Nat]

VARIABLES
  docker,   \* is docker.service active (the mounter works while it is not)
  saved,    \* the desired state on disk
  was,      \* paths of the state that the running apply replaced
  pc, cur,  \* what the working process does next, and for which path
  todo,     \* paths (or doomed volumes) still to be treated
  inv,      \* volumes in the inventory the working process took
  sure,     \* was that inventory readable
  made,     \* did this invocation create the volume (created_here)
  lv,       \* "none", "raw" (created, not formatted) or "xfs"
  data,     \* does the volume hold data of its app
  damaged,  \* has the file system a log that mount cannot replay
  tagged,   \* does the volume carry its ownership tags
  tried,    \* volumes with a repair marker of this boot
  shows,    \* what is at the path: the directory "below", the "lv", "other"
  below,    \* has the directory below files
  app,      \* the container: "none", "stopped", or what it has bound
  count     \* what is used of Budget

host == <<lv, data, damaged, tagged, tried, shows, below>>
work == <<pc, cur, todo, made>>
plan == <<docker, saved, was, inv, sure>>
vars == <<host, work, plan, app, count>>

Listed(s) == {p \in Paths : s.kind[p] # "absent"}
Managed(p) == saved.kind[p] \in {"backup", "capped"}
Existing == {p \in Paths : lv[p] # "none"}
Mountable(p) == lv[p] = "xfs" /\ ~damaged[p]

Bounded(what) ==
  /\ count[what] < Budget[what]
  /\ count' = [count EXCEPT ![what] = @ + 1]

\* A command that fails although nothing forces it to.
Fault == Bounded("fault")

-----------------------------------------------------------------------------
\* A device as it may be found: new, with an untagged volume of an older
\* release, or with files of an app that never had a volume.
Init ==
  /\ \E old \in [Paths -> {"new", "volume", "files"}] :
        /\ lv = [p \in Paths |-> IF old[p] = "volume" THEN "xfs" ELSE "none"]
        /\ data = [p \in Paths |-> old[p] = "volume"]
        /\ below = [p \in Paths |-> old[p] = "files"]
  /\ damaged = [p \in Paths |-> FALSE]
  /\ tagged = [p \in Paths |-> FALSE]
  /\ tried = {}
  /\ shows = [p \in Paths |-> "below"]
  /\ app = [p \in Paths |-> "none"]
  /\ docker = FALSE /\ saved \in States /\ was = {}
  /\ pc = "off" /\ cur = NoPath /\ todo = {} /\ made = FALSE
  /\ inv = {} /\ sure = TRUE
  /\ count = [fault |-> 0, crash |-> 0, state |-> 0]

-----------------------------------------------------------------------------
(* How an invocation for path p ends.  The mounter isolates its failures;  *)
(* in the reconciler an exception ends the apply, and a path that is left  *)
(* on default storage goes on to its seed files unless it must be backed.  *)

\* Mutant of Turn: created_here stays set for the next path.
TurnKeepsMade(next, p) == pc' = next /\ cur' = p /\ UNCHANGED made
Turn(next, p) == pc' = next /\ cur' = p /\ made' = FALSE

Raise(p) ==
  /\ IF docker THEN Turn("idle", NoPath) ELSE Turn("next", NoPath)
  /\ todo' = IF docker THEN {} ELSE todo \ {p}

GoOn(p) ==
  /\ IF docker THEN Turn("seed", p) ELSE Turn("next", NoPath)
  /\ todo' = todo \ {p}

LeaveOff(p) == IF saved.kind[p] = "backup" THEN Raise(p) ELSE GoOn(p)

Enter(step, p) == pc' = step /\ cur' = p /\ todo' = todo \ {p} /\ UNCHANGED made

MayCreate(p) == Managed(p) /\ sure
Expected(p) == p \in inv
\* The mounter without an inventory tries every path, but creates nothing.
Concerns(p) == Managed(p) \/ Expected(p) \/ ~sure

-----------------------------------------------------------------------------
(* The mounter (boot_mount) and the reconciler (_prepare_app_dirs) take    *)
(* the paths one by one.                                                   *)

StartMounter ==
  /\ pc = "off"
  /\ \E readable \in BOOLEAN :
        /\ sure' = readable
        /\ inv' = IF readable THEN Existing ELSE {}
        /\ IF readable THEN UNCHANGED count ELSE Fault
  /\ todo' = Listed(saved)
  /\ Turn("next", NoPath)
  /\ UNCHANGED <<host, docker, saved, was, app>>

\* The barrier ends, by itself or by TimeoutStartSec: Docker starts and
\* restarts its containers on whatever their paths show.
StartDocker ==
  /\ ~docker /\ pc # "off"
  /\ IF pc = "next" /\ todo = {} THEN UNCHANGED count ELSE Bounded("crash")
  /\ docker' = TRUE
  /\ app' = [p \in Paths |-> IF app[p] = "stopped" THEN shows[p] ELSE app[p]]
  /\ todo' = {} /\ Turn("idle", NoPath)
  /\ UNCHANGED <<host, saved, was, inv, sure>>

\* A new state is saved, or the saved one reconciled again.
StartApply ==
  /\ docker /\ pc = "idle"
  /\ Bounded("state")
  /\ \E s \in States : saved' = s
  /\ was' \in {Listed(saved), {}}
  /\ inv' = Existing /\ sure' = TRUE
  /\ todo' = Listed(saved')
  /\ Turn("next", NoPath)
  /\ UNCHANGED <<host, docker, app>>

Skip(p) ==
  /\ pc = "next" /\ p \in todo /\ ~Concerns(p)
  /\ GoOn(p)
  /\ UNCHANGED <<host, plan, app, count>>

\* Seed files and downloads go to whatever is at the path.
Seed ==
  /\ pc = "seed"
  /\ \E seeded \in BOOLEAN :
        /\ data' = [data EXCEPT ![cur] = @ \/ (seeded /\ shows[cur] = "lv")]
        /\ below' = [below EXCEPT ![cur] = @ \/ (seeded /\ shows[cur] = "below")]
  /\ Turn("next", NoPath)
  /\ UNCHANGED <<lv, damaged, tagged, tried, shows, todo, plan, app, count>>

-----------------------------------------------------------------------------
(* _ensure_volume_lv, under the volume lock.                               *)

Looks(p) == pc = "next" /\ p \in todo /\ Concerns(p)

\* Mutant of LookFails: what cannot be inspected falls back to default storage.
LookFailsOpen(p) == Looks(p) /\ Fault /\ LeaveOff(p) /\ UNCHANGED <<host, plan, app>>

\* The mount, the metadata or the size cannot be read.
LookFails(p) ==
  /\ Looks(p) /\ Fault
  /\ IF Expected(p) THEN Raise(p) ELSE LeaveOff(p)
  /\ UNCHANGED <<host, plan, app>>

FoundMounted(p) ==
  /\ Looks(p) /\ shows[p] = "lv"
  /\ \/ tagged' = [tagged EXCEPT ![p] = TRUE] /\ UNCHANGED count
     \/ ~tagged[p] /\ Fault /\ UNCHANGED tagged
  /\ GoOn(p)
  /\ UNCHANGED <<lv, data, damaged, tried, shows, below, plan, app>>

FoundForeign(p) ==
  /\ Looks(p) /\ shows[p] = "other"
  /\ IF Expected(p) THEN Raise(p) ELSE LeaveOff(p)
  /\ UNCHANGED <<host, plan, app, count>>

\* Files in the directory, and no volume: an app that never had one.
FoundFilesOnly(p) ==
  /\ Looks(p) /\ shows[p] = "below" /\ below[p] /\ lv[p] = "none"
  /\ LeaveOff(p)
  /\ UNCHANGED <<host, plan, app, count>>

\* Files that were written while the volume was not mounted: before Docker
\* runs they are moved aside, when the tags say whose volume it is.
PreserveFallback(p) ==
  /\ Looks(p) /\ shows[p] = "below" /\ below[p] /\ lv[p] # "none"
  /\ ~docker /\ tagged[p]
  /\ below' = [below EXCEPT ![p] = FALSE]
  /\ Enter("mount", p)
  /\ UNCHANGED <<lv, data, damaged, tagged, tried, shows, plan, app, count>>

FoundConflict(p) ==
  /\ Looks(p) /\ shows[p] = "below" /\ below[p] /\ lv[p] # "none"
  /\ IF docker \/ ~tagged[p] THEN UNCHANGED count ELSE Fault
  /\ Raise(p)
  /\ UNCHANGED <<host, plan, app>>

FoundNothing(p) ==
  /\ Looks(p) /\ shows[p] = "below" /\ ~below[p] /\ lv[p] = "none"
  /\ IF MayCreate(p) THEN Enter("create", p) ELSE LeaveOff(p)
  /\ UNCHANGED <<host, plan, app, count>>

\* Mutant of FoundVolume: the directory is not listed first.
FoundVolumeUnlisted(p) ==
  /\ Looks(p) /\ shows[p] = "below" /\ lv[p] # "none"
  /\ Enter("mount", p)
  /\ UNCHANGED <<host, plan, app, count>>

FoundVolume(p) ==
  /\ Looks(p) /\ shows[p] = "below" /\ ~below[p] /\ lv[p] # "none"
  /\ Enter("mount", p)
  /\ UNCHANGED <<host, plan, app, count>>

-----------------------------------------------------------------------------
(* The new volume; whatever fails, what this invocation created is removed *)
(* again before the path falls back to default storage.                    *)

At(step) == pc = step
Goto(step) == pc' = step /\ UNCHANGED <<cur, todo>>

CreateVolume ==
  /\ At("create") /\ UNCHANGED made
  /\ \/ lv' = [lv EXCEPT ![cur] = "raw"] /\ Goto("format") /\ UNCHANGED count
     \/ Fault /\ Goto("undo") /\ lv' \in {lv, [lv EXCEPT ![cur] = "raw"]}
  /\ UNCHANGED <<data, damaged, tagged, tried, shows, below, plan, app>>

\* Mutant of FormatVolume: a failing mkfs only logs.
FormatVolumeLogs ==
  /\ At("format")
  /\ \/ /\ lv' = [lv EXCEPT ![cur] = "xfs"] /\ made' = TRUE
        /\ Goto("mount") /\ UNCHANGED count
     \/ Fault /\ LeaveOff(cur) /\ UNCHANGED lv
  /\ UNCHANGED <<data, damaged, tagged, tried, shows, below, plan, app>>

FormatVolume ==
  /\ At("format")
  /\ \/ /\ lv' = [lv EXCEPT ![cur] = "xfs"] /\ made' = TRUE
        /\ Goto("mount") /\ UNCHANGED count
     \/ /\ Fault /\ Goto("undo") /\ UNCHANGED made
        /\ lv' \in {lv, [lv EXCEPT ![cur] = "xfs"]}
  /\ UNCHANGED <<data, damaged, tagged, tried, shows, below, plan, app>>

\* What lvremove takes away.
Removed(p) ==
  /\ lv' = [lv EXCEPT ![p] = "none"]
  /\ data' = [data EXCEPT ![p] = FALSE]
  /\ tagged' = [tagged EXCEPT ![p] = FALSE]
  /\ damaged' = [damaged EXCEPT ![p] = FALSE]

UndoVolume ==
  /\ At("undo")
  /\ \/ Removed(cur) /\ LeaveOff(cur) /\ UNCHANGED count
     \/ Fault /\ Raise(cur) /\ UNCHANGED <<lv, data, tagged, damaged>>
     \/ Fault /\ Raise(cur) /\ Removed(cur)
  /\ UNCHANGED <<tried, shows, below, plan, app>>

MountVolume ==
  /\ At("mount") /\ Mountable(cur)
  /\ shows' = [shows EXCEPT ![cur] = "lv"]
  /\ Goto("tag")
  /\ UNCHANGED <<lv, data, damaged, tagged, tried, below, made, plan, app, count>>

\* mount is cut off; findmnt tells a new volume what became of it.
MountCutOff ==
  /\ At("mount") /\ Fault
  /\ shows' \in {shows} \cup (IF Mountable(cur) THEN {[shows EXCEPT ![cur] = "lv"]} ELSE {})
  /\ \/ Raise(cur)
     \/ /\ made /\ UNCHANGED made
        /\ Goto(IF shows'[cur] = "lv" THEN "tag" ELSE "undo")
  /\ UNCHANGED <<lv, data, damaged, tagged, tried, below, plan, app>>

\* mount refuses: a new volume is removed, an old one gets one repair a boot.
MountRefused ==
  /\ At("mount")
  /\ IF Mountable(cur) THEN Fault ELSE UNCHANGED count
  /\ IF made THEN Goto("undo") /\ UNCHANGED <<made, tried>>
     ELSE IF lv[cur] = "xfs" /\ cur \notin tried
     THEN Goto("repair") /\ tried' = tried \cup {cur} /\ UNCHANGED made
     ELSE Raise(cur) /\ UNCHANGED tried
  /\ UNCHANGED <<lv, data, damaged, tagged, shows, below, plan, app>>

RepairVolume ==
  /\ At("repair")
  /\ \/ /\ damaged' = [damaged EXCEPT ![cur] = FALSE]
        /\ Goto("mount") /\ UNCHANGED <<made, count>>
     \/ Fault /\ Raise(cur) /\ UNCHANGED damaged
  /\ UNCHANGED <<lv, data, tagged, tried, shows, below, plan, app>>

\* A new volume that cannot be tagged is unmounted and removed.
TagVolume ==
  /\ At("tag")
  /\ \/ /\ tagged' = [tagged EXCEPT ![cur] = TRUE] /\ GoOn(cur)
        /\ UNCHANGED <<shows, count>>
     \/ /\ ~tagged[cur] /\ Fault /\ UNCHANGED tagged
        /\ \/ ~made /\ GoOn(cur) /\ UNCHANGED shows
           \/ /\ made /\ Goto("undo") /\ UNCHANGED made
              /\ shows' = [shows EXCEPT ![cur] = "below"]
           \/ made /\ Raise(cur) /\ UNCHANGED shows
  /\ UNCHANGED <<lv, data, damaged, tried, below, plan, app>>

-----------------------------------------------------------------------------
(* docker compose up --remove-orphans, then the reclaim.  A v1 apply ends  *)
(* when compose fails, a v2 apply reclaims all the same.                   *)

\* Mutant of Gone: by path, not by instance.
GoneByPath == {p \in Paths : saved.kind[p] = "absent"}
Gone == {p \in Paths : Owner[p] \notin saved.instances}
Unlisted == {p \in Paths \ Listed(saved) : app[p] # "none"}

\* Containers of removed apps go, those of the state start, or start anew,
\* on what their path shows now.
Compose ==
  /\ docker /\ pc = "next" /\ todo = {}
  /\ \E up \in SUBSET Listed(saved), kept \in SUBSET Unlisted :
        /\ app' = [p \in Paths |->
             IF p \in up THEN shows[p]
             ELSE IF p \in Unlisted \ kept THEN "none" ELSE app[p]]
        /\ IF kept = {} /\ \A p \in Listed(saved) : app'[p] # "none"
           THEN UNCHANGED count /\ Turn("adopt", NoPath)
           ELSE Fault /\ \E next \in {"adopt", "idle"} : Turn(next, NoPath)
  /\ UNCHANGED <<host, todo, plan>>

\* Volumes of both states are tagged; tagged ones of no live owner go.
Adopt ==
  /\ pc = "adopt"
  /\ LET named == {p \in Existing : p \in was \cup Listed(saved)} IN
     \/ /\ tagged' = [p \in Paths |-> tagged[p] \/ p \in named]
        /\ UNCHANGED count
     \/ /\ Fault
        /\ \E some \in SUBSET named :
             tagged' = [p \in Paths |-> tagged[p] \/ p \in some]
  /\ todo' = {p \in Gone : tagged'[p]}
  /\ Turn("reclaim", NoPath)
  /\ UNCHANGED <<lv, data, damaged, tried, shows, below, plan, app>>

\* umount may fail while a container has the volume, lvremove does.
Unmount(p) ==
  /\ pc = "reclaim" /\ p \in todo /\ cur = NoPath
  /\ \/ /\ Turn("reclaim", p)
        /\ shows' = [shows EXCEPT ![p] = IF @ = "lv" THEN "below" ELSE @]
        /\ UNCHANGED <<todo, count>>
     \/ /\ IF app[p] = "lv" THEN UNCHANGED count ELSE Fault
        /\ todo' = todo \ {p} /\ Turn("reclaim", NoPath)
        /\ UNCHANGED shows
  /\ UNCHANGED <<lv, data, damaged, tagged, tried, below, plan, app>>

\* lvremove, whose effect the next inventory tells.
RemoveDeleted ==
  /\ pc = "reclaim" /\ cur # NoPath
  /\ \/ app[cur] # "lv" /\ Removed(cur) /\ UNCHANGED count
     \/ /\ IF app[cur] = "lv" THEN UNCHANGED count ELSE Fault
        /\ UNCHANGED <<lv, data, tagged, damaged>>
  /\ todo' = todo \ {cur} /\ Turn("reclaim", NoPath)
  /\ UNCHANGED <<tried, shows, below, plan, app>>

EndApply ==
  /\ pc = "reclaim" /\ todo = {}
  /\ Turn("idle", NoPath)
  /\ UNCHANGED <<host, todo, plan, app, count>>

-----------------------------------------------------------------------------
(* The containers, the operator, and what ends a process.                  *)

AppWrites(p) ==
  \/ /\ app[p] = "lv" /\ data' = [data EXCEPT ![p] = TRUE]
     /\ UNCHANGED below
  \/ /\ app[p] = "below" /\ below' = [below EXCEPT ![p] = TRUE]
     /\ UNCHANGED data

App(p) ==
  /\ AppWrites(p)
  /\ UNCHANGED <<lv, damaged, tagged, tried, shows, work, plan, app, count>>

\* The operator mounts something of his own at the path.
MountForeign(p) ==
  /\ pc = "idle" /\ shows[p] = "below" /\ Fault
  /\ shows' = [shows EXCEPT ![p] = "other"]
  /\ UNCHANGED <<lv, data, damaged, tagged, tried, below, work, plan, app>>

\* The reconciler is killed; its mounts and the containers stay.
Kill ==
  /\ docker /\ pc # "idle" /\ Bounded("crash")
  /\ Turn("idle", NoPath) /\ todo' = {}
  /\ UNCHANGED <<host, plan, app>>

\* Power is lost: the log of a mounted file system may be beyond replay.
PowerLoss ==
  /\ Bounded("crash")
  /\ \E hurt \in SUBSET {p \in Paths : shows[p] = "lv"} :
        damaged' = [p \in Paths |-> damaged[p] \/ p \in hurt]
  /\ shows' = [p \in Paths |-> "below"]
  /\ app' = [p \in Paths |-> IF app[p] = "none" THEN "none" ELSE "stopped"]
  /\ docker' = FALSE /\ tried' = {} /\ todo' = {} /\ Turn("off", NoPath)
  /\ UNCHANGED <<lv, data, tagged, below, saved, was, inv, sure>>

Mounter == StartMounter \/ StartDocker
Apply == StartApply \/ Seed \/ Compose \/ Adopt \/ RemoveDeleted \/ EndApply
Look(p) ==
  \/ Skip(p) \/ LookFails(p) \/ FoundMounted(p) \/ FoundForeign(p)
  \/ FoundFilesOnly(p) \/ PreserveFallback(p) \/ FoundConflict(p)
  \/ FoundNothing(p) \/ FoundVolume(p)
Volume ==
  \/ CreateVolume \/ FormatVolume \/ UndoVolume \/ MountVolume \/ MountCutOff
  \/ MountRefused \/ RepairVolume \/ TagVolume

Next ==
  \/ Mounter \/ Apply \/ Volume \/ Kill \/ PowerLoss
  \/ \E p \in Paths : Look(p) \/ Unmount(p) \/ App(p) \/ MountForeign(p)

Spec == Init /\ [][Next]_vars

-----------------------------------------------------------------------------
TypeOK ==
  /\ docker \in BOOLEAN /\ sure \in BOOLEAN /\ made \in BOOLEAN
  /\ saved \in States /\ was \subseteq Paths
  /\ pc \in {"off", "idle", "next", "seed", "create", "format", "undo", "mount",
             "repair", "tag", "adopt", "reclaim"}
  /\ cur \in Paths \cup {NoPath} /\ (made => pc \in {"mount", "undo", "tag"})
  /\ todo \subseteq Paths /\ inv \subseteq Paths /\ tried \subseteq Paths
  /\ lv \in [Paths -> {"none", "raw", "xfs"}]
  /\ data \in [Paths -> BOOLEAN] /\ damaged \in [Paths -> BOOLEAN]
  /\ tagged \in [Paths -> BOOLEAN] /\ below \in [Paths -> BOOLEAN]
  /\ shows \in [Paths -> {"below", "lv", "other"}]
  /\ app \in [Paths -> {"none", "stopped", "below", "lv", "other"}]
  /\ count \in [fault : Nat, crash : Nat, state : Nat]

\* App data on a volume goes away only when the whole instance is gone from
\* the desired state and no container has the volume any more, whatever
\* fails, is cut off or is killed on the way.
DataIsKept ==
  [][\A p \in Paths : data[p] /\ ~data'[p] => Owner[p] \notin saved.instances /\ app[p] # "lv"]_vars

\* A volume is never mounted over files that the app left in the directory
\* below, unless a container still writes there.
MountsHideNothing ==
  [][\A p \in Paths :
       shows[p] = "below" /\ shows'[p] = "lv" /\ below[p] => app[p] = "below"]_vars

\* An apply never starts a container on the directory below when the path
\* has a volume: the app would see none of its data.
NoAppBesideItsVolume ==
  [][\A p \in Paths :
       docker /\ app[p] # "below" /\ app'[p] = "below" => lv[p] = "none"]_vars

\* A single failing command never strands an unformatted volume, which no
\* later run would format: it takes a kill, or a clean-up that fails too.
OneFailureStrandsNothing ==
  \A p \in Paths :
    lv[p] = "raw" /\ p # cur => count.crash > 0 \/ count.fault > 1
=============================================================================
