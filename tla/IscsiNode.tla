------------------------------ MODULE IscsiNode ------------------------------
(***************************************************************************)
(* The node-side iSCSI attach/detach engine of src/storage/iscsinode.go   *)
(* and its cleanup helpers in src/storage/storagehelper.go.               *)
(*                                                                         *)
(* Every volume has at most one node RPC in flight (the orchestrator      *)
(* serialises operations per volume); RPCs of different volumes run       *)
(* concurrently.  Each step of an RPC is one external command or syscall, *)
(* so the process-wide execScsi mutex, which makes each single command    *)
(* atomic but nothing longer, is the granularity of the steps.  The host  *)
(* state the RPCs share is the iscsiadm iface and session database, the   *)
(* device-mapper maps, the mount table and the files under /host.         *)
(***************************************************************************)
EXTENDS Naturals

CONSTANTS
    Vols,       \* volumes attached to this node
    Targets,    \* target portal groups; the cloned iface is named after one
    VolTarget,  \* the portal group each volume's context names
    Modes       \* access types a volume may have: "file" (mount) or "block"

ASSUME ConstAssumption ==
    /\ VolTarget \in [Vols -> Targets]
    /\ Modes \subseteq {"file", "block"}
    /\ Modes # {}

\* A target path carries at most this many stacked mounts in a model run.
MountBound == 2

VARIABLES
    iface,     \* iscsiadm iface record named Portals[0]: absent, new (created, not yet updated), ready
    session,   \* portal groups with a logged-in iSCSI session (never logged out)
    mpath,     \* mpath[v]: the dm-N multipath map over v's LUN exists
    mounts,    \* mounts[v]: number of mounts on v's target path
    target,    \* target[v]: v's target path (directory or block file) exists
    sidecar,   \* sidecar[v]: <stage>/<vol>.json: absent, or its MpathDevice empty or set
    stageDir,  \* stageDir[v]: v's staging directory exists
    co,        \* co[v]: the orchestrator's view of v
    pc,        \* pc[v]: the step of v's in-flight RPC, "idle" if none
    mode,      \* mode[v]: v's access type, fixed by its volume capability
    mp,        \* mp[v]: the in-flight RPC's iscsiDisk.MpathDevice is set
    flushErr   \* flushErr[v]: a multipath flush for v failed since v was last staged

vars == <<iface, session, mpath, mounts, target, sidecar, stageDir, co, pc, mode, mp, flushErr>>

IfaceState   == {"absent", "new", "ready"}
SidecarState == {"absent", "noMpath", "mpath"}
CoState      == {"unstaged", "staged", "uncertain", "published"}
PublishSteps == {"ifaceShow", "ifaceNew", "ifaceUpdate", "discover", "sessionList",
                 "login", "rescan", "waitPath", "mountCheck", "blockMkdir",
                 "blockMount", "blockSave", "fileMkdir", "fileSave", "fileMount", "chown"}
UnpublishSteps == {"unmount", "unmountCheck"}
UnstageSteps   == {"unstageLoad", "flush", "unstageRemove"}
Steps == {"idle"} \cup PublishSteps \cup UnpublishSteps \cup UnstageSteps

TypeOK ==
    /\ iface \in [Targets -> IfaceState]
    /\ session \subseteq Targets
    /\ mpath \in [Vols -> BOOLEAN]
    /\ mounts \in [Vols -> 0..MountBound]
    /\ target \in [Vols -> BOOLEAN]
    /\ sidecar \in [Vols -> SidecarState]
    /\ stageDir \in [Vols -> BOOLEAN]
    /\ co \in [Vols -> CoState]
    /\ pc \in [Vols -> Steps]
    /\ mode \in [Vols -> Modes]
    /\ mp \in [Vols -> BOOLEAN]
    /\ flushErr \in [Vols -> BOOLEAN]

Init ==
    /\ iface = [t \in Targets |-> "absent"]
    /\ session = {}
    /\ mpath = [v \in Vols |-> FALSE]
    /\ mounts = [v \in Vols |-> 0]
    /\ target = [v \in Vols |-> FALSE]
    /\ sidecar = [v \in Vols |-> "absent"]
    /\ stageDir = [v \in Vols |-> FALSE]
    /\ co = [v \in Vols |-> "unstaged"]
    /\ pc = [v \in Vols |-> "idle"]
    /\ mode \in [Vols -> Modes]
    /\ mp = [v \in Vols |-> FALSE]
    /\ flushErr = [v \in Vols |-> FALSE]

-----------------------------------------------------------------------------
(* Helpers for the steps.                                                  *)

Goto(v, l) == pc' = [pc EXCEPT ![v] = l]

\* The content createISCSIConfigFile writes for the in-flight disk.
SidecarOf(v) == IF mp[v] THEN "mpath" ELSE "noMpath"

\* An RPC returns: the orchestrator records the outcome.
Return(v, c) == /\ pc' = [pc EXCEPT ![v] = "idle"]
                /\ co' = [co EXCEPT ![v] = c]

PublishOk(v)  == Return(v, "published")
PublishErr(v) == Return(v, "uncertain")
UnpublishOk(v) == Return(v, "staged")
UnpublishErr(v) == Return(v, co[v])
UnstageOk(v)  == Return(v, "unstaged")
UnstageErr(v) == Return(v, "staged")

-----------------------------------------------------------------------------
(* NodeStageVolume: the orchestrator creates the staging directory, then  *)
(* the handler registers the host port and CHAP posture on the array      *)
(* (array state is not part of this module); either may fail.             *)

NodeStageVolume(v) ==
    /\ pc[v] = "idle"
    /\ co[v] = "unstaged"
    /\ stageDir' = [stageDir EXCEPT ![v] = TRUE]
    /\ \/ /\ co' = [co EXCEPT ![v] = "staged"]
          /\ flushErr' = [flushErr EXCEPT ![v] = FALSE]
       \/ UNCHANGED <<co, flushErr>>
    /\ UNCHANGED <<iface, session, mpath, mounts, target, sidecar, pc, mode, mp>>

-----------------------------------------------------------------------------
(* NodePublishVolume = getISCSIDisk, getISCSIDiskMounter, AttachDisk,     *)
(* then chown/chmod.  One action per external command.                    *)

PublishStart(v) ==
    /\ pc[v] = "idle"
    /\ co[v] \in {"staged", "uncertain", "published"}
    /\ Goto(v, "ifaceShow")
    /\ mp' = [mp EXCEPT ![v] = FALSE]
    /\ UNCHANGED <<iface, session, mpath, mounts, target, sidecar, stageDir, co, mode, flushErr>>

\* iscsiadm --mode iface --interface Portals[0] --op show
IfaceShow(v) ==
    /\ pc[v] = "ifaceShow"
    /\ \/ iface[VolTarget[v]] = "absent" /\ Goto(v, "ifaceNew")
       \/ iface[VolTarget[v]] # "absent" /\ Goto(v, "discover")
    /\ UNCHANGED <<iface, session, mpath, mounts, target, sidecar, stageDir, co, mode, mp, flushErr>>

\* cloneIface: show and parse the default iface, then --op new.
IfaceNew(v) ==
    /\ pc[v] = "ifaceNew"
    /\ \/ /\ iface[VolTarget[v]] = "absent"
          /\ iface' = [iface EXCEPT ![VolTarget[v]] = "new"]
          /\ Goto(v, "ifaceUpdate")
          /\ UNCHANGED co
       \/ /\ PublishErr(v)
          /\ UNCHANGED iface
    /\ UNCHANGED <<session, mpath, mounts, target, sidecar, stageDir, mode, mp, flushErr>>

\* cloneIface: --op update per parameter; on a failure --op delete.
IfaceUpdate(v) ==
    /\ pc[v] = "ifaceUpdate"
    /\ \/ /\ iface' = [iface EXCEPT ![VolTarget[v]] = "ready"]
          /\ Goto(v, "discover")
          /\ UNCHANGED co
       \/ /\ iface' = [iface EXCEPT ![VolTarget[v]] = "absent"]
          /\ PublishErr(v)
       \/ /\ PublishErr(v)
          /\ UNCHANGED iface
    /\ UNCHANGED <<session, mpath, mounts, target, sidecar, stageDir, mode, mp, flushErr>>

\* sendtargets discovery, then the CHAP node updates whose errors are only
\* remembered in lastErr.
Discover(v) ==
    /\ pc[v] = "discover"
    /\ \/ Goto(v, "sessionList") /\ UNCHANGED co
       \/ PublishErr(v)
    /\ UNCHANGED <<iface, session, mpath, mounts, target, sidecar, stageDir, mode, mp, flushErr>>

\* iscsiadm --mode session | grep IQN
SessionList(v) ==
    /\ pc[v] = "sessionList"
    /\ \/ VolTarget[v] \in session /\ Goto(v, "rescan")
       \/ VolTarget[v] \notin session /\ Goto(v, "login")
    /\ UNCHANGED <<iface, session, mpath, mounts, target, sidecar, stageDir, co, mode, mp, flushErr>>

\* iscsiadm --login through the iface, then the second session listing.
Login(v) ==
    /\ pc[v] = "login"
    /\ \/ /\ iface[VolTarget[v]] # "absent"
          /\ session' = session \cup {VolTarget[v]}
          /\ Goto(v, "rescan")
          /\ UNCHANGED co
       \/ /\ PublishErr(v)
          /\ UNCHANGED session
    /\ UNCHANGED <<iface, mpath, mounts, target, sidecar, stageDir, mode, mp, flushErr>>

\* rescanDeviceMap: scan every SCSI host, wait for the devices and the map.
\* A failure after the scan may leave the map assembled.  When the session
\* listing yields no host, hosts[0] panics and the deferred recover makes
\* the function return nil: AttachDisk goes on with no map assembled.
Rescan(v) ==
    /\ pc[v] = "rescan"
    /\ \/ /\ mpath' = [mpath EXCEPT ![v] = TRUE]
          /\ Goto(v, "waitPath")
          /\ UNCHANGED co
       \/ /\ Goto(v, "waitPath")
          /\ UNCHANGED <<mpath, co>>
       \/ /\ \/ mpath' = [mpath EXCEPT ![v] = TRUE]
             \/ UNCHANGED mpath
          /\ PublishErr(v)
    /\ UNCHANGED <<iface, session, mounts, target, sidecar, stageDir, mode, mp, flushErr>>

\* waitForPathToExist per portal; no device path at all is an error.
WaitPath(v) ==
    /\ pc[v] = "waitPath"
    /\ \/ mpath[v] /\ Goto(v, "mountCheck") /\ UNCHANGED co
       \/ PublishErr(v)
    /\ UNCHANGED <<iface, session, mpath, mounts, target, sidecar, stageDir, mode, mp, flushErr>>

\* Mutant: AttachDisk without the IsLikelyNotMountPoint early return.
MountCheckNoProbe(v) ==
    /\ pc[v] = "mountCheck"
    /\ \/ /\ mp' = [mp EXCEPT ![v] = mpath[v]]
          /\ Goto(v, IF mode[v] = "block" THEN "blockMkdir" ELSE "fileMkdir")
          /\ UNCHANGED co
       \/ PublishErr(v) /\ UNCHANGED mp
    /\ UNCHANGED <<iface, session, mpath, mounts, target, sidecar, stageDir, mode, flushErr>>

\* Mutant: the dm device found is not stored into iscsiDisk.MpathDevice.
MountCheckNoMpath(v) ==
    /\ pc[v] = "mountCheck"
    /\ \/ mounts[v] > 0 /\ Goto(v, "chown") /\ UNCHANGED co
       \/ mounts[v] = 0 /\ Goto(v, IF mode[v] = "block" THEN "blockMkdir" ELSE "fileMkdir") /\ UNCHANGED co
       \/ PublishErr(v)
    /\ UNCHANGED <<iface, session, mpath, mounts, target, sidecar, stageDir, mode, mp, flushErr>>

\* Mutant: the result of IsLikelyNotMountPoint read the wrong way round.
MountCheckInverted(v) ==
    /\ pc[v] = "mountCheck"
    /\ \/ /\ mounts[v] = 0
          /\ Goto(v, "chown")
          /\ UNCHANGED <<mp, co>>
       \/ /\ mounts[v] > 0
          /\ mp' = [mp EXCEPT ![v] = mpath[v]]
          /\ Goto(v, IF mode[v] = "block" THEN "blockMkdir" ELSE "fileMkdir")
          /\ UNCHANGED co
       \/ PublishErr(v) /\ UNCHANGED mp
    /\ UNCHANGED <<iface, session, mpath, mounts, target, sidecar, stageDir, mode, flushErr>>

\* IsLikelyNotMountPoint: an already mounted target returns success at
\* once; otherwise findMultipathDeviceForDevice sets MpathDevice.  A probe
\* failing with anything but "not exist" fails the publish.
MountCheck(v) ==
    /\ pc[v] = "mountCheck"
    /\ \/ /\ mounts[v] > 0
          /\ Goto(v, "chown")
          /\ UNCHANGED <<mp, co>>
       \/ /\ mounts[v] = 0
          /\ mp' = [mp EXCEPT ![v] = mpath[v]]
          /\ Goto(v, IF mode[v] = "block" THEN "blockMkdir" ELSE "fileMkdir")
          /\ UNCHANGED co
       \/ PublishErr(v) /\ UNCHANGED mp
    /\ UNCHANGED <<iface, session, mpath, mounts, target, sidecar, stageDir, mode, flushErr>>

\* Block: mkdir --parents of the parent, create the target file.
BlockMkdir(v) ==
    /\ pc[v] = "blockMkdir"
    /\ \/ /\ target' = [target EXCEPT ![v] = TRUE]
          /\ Goto(v, "blockMount")
          /\ UNCHANGED co
       \/ PublishErr(v) /\ UNCHANGED target
    /\ UNCHANGED <<iface, session, mpath, mounts, sidecar, stageDir, mode, mp, flushErr>>

\* Block: bind mount of the device onto the target file.
BlockMount(v) ==
    /\ pc[v] = "blockMount"
    /\ \/ /\ mounts[v] < MountBound
          /\ mounts' = [mounts EXCEPT ![v] = @ + 1]
          /\ Goto(v, "blockSave")
          /\ UNCHANGED co
       \/ PublishErr(v) /\ UNCHANGED mounts
    /\ UNCHANGED <<iface, session, mpath, target, sidecar, stageDir, mode, mp, flushErr>>

\* Block: createISCSIConfigFile, after the mount.
BlockSave(v) ==
    /\ pc[v] = "blockSave"
    /\ \/ /\ sidecar' = [sidecar EXCEPT ![v] = SidecarOf(v)]
          /\ Goto(v, "chown")
          /\ UNCHANGED co
       \/ PublishErr(v) /\ UNCHANGED sidecar
    /\ UNCHANGED <<iface, session, mpath, mounts, target, stageDir, mode, mp, flushErr>>

\* File: dmsetup info, stat of the mount point, mkdir --parents if absent.
FileMkdir(v) ==
    /\ pc[v] = "fileMkdir"
    /\ \/ /\ target' = [target EXCEPT ![v] = TRUE]
          /\ Goto(v, "fileSave")
          /\ UNCHANGED co
       \/ PublishErr(v) /\ UNCHANGED target
    /\ UNCHANGED <<iface, session, mpath, mounts, sidecar, stageDir, mode, mp, flushErr>>

\* File: createISCSIConfigFile, before the mount.
FileSave(v) ==
    /\ pc[v] = "fileSave"
    /\ \/ /\ sidecar' = [sidecar EXCEPT ![v] = SidecarOf(v)]
          /\ Goto(v, "fileMount")
          /\ UNCHANGED co
       \/ PublishErr(v) /\ UNCHANGED sidecar
    /\ UNCHANGED <<iface, session, mpath, mounts, target, stageDir, mode, mp, flushErr>>

\* File: FormatAndMount.
FileMount(v) ==
    /\ pc[v] = "fileMount"
    /\ \/ /\ mounts[v] < MountBound
          /\ mounts' = [mounts EXCEPT ![v] = @ + 1]
          /\ Goto(v, "chown")
          /\ UNCHANGED co
       \/ PublishErr(v) /\ UNCHANGED mounts
    /\ UNCHANGED <<iface, session, mpath, target, sidecar, stageDir, mode, mp, flushErr>>

\* ChownVolume and ChmodVolume, then the RPC returns.
Chown(v) ==
    /\ pc[v] = "chown"
    /\ PublishOk(v) \/ PublishErr(v)
    /\ UNCHANGED <<iface, session, mpath, mounts, target, sidecar, stageDir, mode, mp, flushErr>>

-----------------------------------------------------------------------------
(* NodeUnpublishVolume = unmountAndCleanUp(targetPath).                    *)

UnpublishStart(v) ==
    /\ pc[v] = "idle"
    /\ co[v] \in {"published", "uncertain"}
    /\ Goto(v, "unmount")
    /\ UNCHANGED <<iface, session, mpath, mounts, target, sidecar, stageDir, co, mode, mp, flushErr>>

\* mounter.Unmount: a failure is only a warning, the next step rechecks.
Unmount(v) ==
    /\ pc[v] = "unmount"
    /\ \/ mounts[v] > 0 /\ mounts' = [mounts EXCEPT ![v] = @ - 1]
       \/ UNCHANGED mounts
    /\ Goto(v, "unmountCheck")
    /\ UNCHANGED <<iface, session, mpath, target, sidecar, stageDir, co, mode, mp, flushErr>>

\* cleanupOldMountDirectory or os.Remove of the block file: the target
\* path, its vol_data.json and its csi-* parent are removed.
RemoveTarget(v) == target' = [target EXCEPT ![v] = FALSE]

\* Mutant: unmountAndCleanUp without the isMountedByListMethod recheck.
UnmountCheckNoRecheck(v) ==
    /\ pc[v] = "unmountCheck"
    /\ \/ ~target[v] /\ UnpublishOk(v) /\ UNCHANGED target
       \/ target[v] /\ RemoveTarget(v) /\ UnpublishOk(v)
       \/ target[v] /\ UnpublishErr(v) /\ UNCHANGED target
    /\ UNCHANGED <<iface, session, mpath, mounts, sidecar, stageDir, mode, mp, flushErr>>

\* isMountedByListMethod, then the stat and removal of the (empty) mount
\* directory or of the block target file.
UnmountCheck(v) ==
    /\ pc[v] = "unmountCheck"
    /\ \/ /\ mounts[v] = 0
          /\ \/ ~target[v] /\ UNCHANGED target
             \/ target[v] /\ RemoveTarget(v)
          /\ UnpublishOk(v)
       \/ /\ mounts[v] = 0 /\ target[v]
          /\ UnpublishErr(v) /\ UNCHANGED target
       \/ /\ mounts[v] > 0
          /\ UnpublishErr(v) /\ UNCHANGED target
    /\ UNCHANGED <<iface, session, mpath, mounts, sidecar, stageDir, mode, mp, flushErr>>

-----------------------------------------------------------------------------
(* NodeUnstageVolume.                                                      *)

UnstageStart(v) ==
    /\ pc[v] = "idle"
    /\ co[v] = "staged"
    /\ Goto(v, "unstageLoad")
    /\ UNCHANGED <<iface, session, mpath, mounts, target, sidecar, stageDir, co, mode, mp, flushErr>>

\* loadDiskInfoFromFile; if the sidecar does not exist, RemoveAll of the
\* stage path and success.  A sidecar that cannot be decoded, or a failing
\* pathExists, leaves MpathDevice empty and goes on.
UnstageLoad(v) ==
    /\ pc[v] = "unstageLoad"
    /\ \/ /\ sidecar[v] # "absent"
          /\ mp' = [mp EXCEPT ![v] = (sidecar[v] = "mpath")]
          /\ Goto(v, "flush")
          /\ UNCHANGED <<stageDir, co>>
       \/ /\ mp' = [mp EXCEPT ![v] = FALSE]
          /\ Goto(v, "flush")
          /\ UNCHANGED <<stageDir, co>>
       \/ /\ sidecar[v] = "absent"
          /\ stageDir' = [stageDir EXCEPT ![v] = FALSE]
          /\ UnstageOk(v)
          /\ UNCHANGED mp
    /\ UNCHANGED <<iface, session, mpath, mounts, target, sidecar, mode, flushErr>>

\* detachMpathDevice(MpathDevice): best effort, a failure is a warning.
Flush(v) ==
    /\ pc[v] = "flush"
    /\ \/ mp[v] /\ mpath' = [mpath EXCEPT ![v] = FALSE] /\ UNCHANGED flushErr
       \/ mp[v] /\ flushErr' = [flushErr EXCEPT ![v] = TRUE] /\ UNCHANGED mpath
       \/ ~mp[v] /\ UNCHANGED <<mpath, flushErr>>
    /\ Goto(v, "unstageRemove")
    /\ UNCHANGED <<iface, session, mounts, target, sidecar, stageDir, co, mode, mp>>

\* IsDirectory(/host/stage), os.Remove of <vol>.json, os.Remove of the dir.
UnstageRemove(v) ==
    /\ pc[v] = "unstageRemove"
    /\ \/ /\ ~stageDir[v] \/ sidecar[v] = "absent"
          /\ UnstageErr(v)
          /\ UNCHANGED <<sidecar, stageDir>>
       \/ /\ stageDir[v] /\ sidecar[v] # "absent"
          /\ sidecar' = [sidecar EXCEPT ![v] = "absent"]
          /\ \/ stageDir' = [stageDir EXCEPT ![v] = FALSE] /\ UnstageOk(v)
             \/ UNCHANGED stageDir /\ UnstageErr(v)
    /\ UNCHANGED <<iface, session, mpath, mounts, target, mode, mp, flushErr>>

-----------------------------------------------------------------------------

Node(v) ==
    \/ NodeStageVolume(v)
    \/ PublishStart(v) \/ IfaceShow(v) \/ IfaceNew(v) \/ IfaceUpdate(v)
    \/ Discover(v) \/ SessionList(v) \/ Login(v) \/ Rescan(v) \/ WaitPath(v)
    \/ MountCheck(v) \/ BlockMkdir(v) \/ BlockMount(v) \/ BlockSave(v)
    \/ FileMkdir(v) \/ FileSave(v) \/ FileMount(v) \/ Chown(v)
    \/ UnpublishStart(v) \/ Unmount(v) \/ UnmountCheck(v)
    \/ UnstageStart(v) \/ UnstageLoad(v) \/ Flush(v) \/ UnstageRemove(v)

Next == \E v \in Vols : Node(v)

Spec == Init /\ [][Next]_vars

-----------------------------------------------------------------------------
(* Refinement mapping onto VolumeLifecycle: the orchestrator's view is the *)
(* abstract state, and a target is mounted when the mount table holds an  *)
(* entry for it.                                                           *)

Lifecycle == INSTANCE VolumeLifecycle WITH state <- co, mounted <- {u \in Vols : mounts[u] > 0}

-----------------------------------------------------------------------------
(* Properties.                                                             *)

\* The node RPCs implement the CSI volume lifecycle: NodePublishVolume
\* reports success only with the target mounted, NodeUnpublishVolume and
\* NodeUnstageVolume only with it unmounted, and a mount is made only for a
\* volume the orchestrator has staged.
LifecycleSpec == Lifecycle!Spec

\* Idempotent publish (spec 8.1): however the orchestrator retries
\* NodePublishVolume, the IsLikelyNotMountPoint check in AttachDisk keeps a
\* target path from being mounted twice.
NoStackedMount == \A v \in Vols : mounts[v] <= 1

\* A multipath flush by NodeUnstageVolume never pulls the map from under a
\* mounted target: unmountAndCleanUp's recheck keeps a failed unmount from
\* reporting success, so the orchestrator never unstages a mounted volume.
FlushOnlyWhenUnmounted ==
    [][\A v \in Vols : (mpath[v] /\ ~mpath'[v]) => mounts[v] = 0]_vars

\* Spec section 2 (the attached disk is destroyed at Unstage): once
\* NodeUnstageVolume has reported success, no target path of the volume is
\* still mounted.  It rests on NodeUnpublishVolume reporting success only
\* after isMountedByListMethod found the target unmounted, and on the
\* orchestrator unstaging only what it holds staged.
UnstagedUnmounted == \A v \in Vols : co[v] = "unstaged" => mounts[v] = 0

\* Sidecar durability (spec 8.3, 4.4 step 4): whenever NodePublishVolume has
\* returned success, v's sidecar exists and names its multipath device, so
\* that NodeUnstageVolume can flush it.
SidecarAfterPublish ==
    \A v \in Vols : co[v] = "published" => sidecar[v] = "mpath"

\* The comment before createISCSIConfigFile in AttachDisk: persisting the
\* sidecar lets cleanup flush the multipath map.  Once NodeUnstageVolume has
\* succeeded, v's map is gone unless a flush of it was tried and failed.
UnstageLeavesNoMap ==
    \A v \in Vols : co[v] = "unstaged" => (~mpath[v] \/ flushErr[v])

\* Spec section 3: the iface named Portals[0] exists whenever the host has
\* attached through that portal set, i.e. while a session uses it.
IfaceExistsForSession ==
    \A t \in session : iface[t] # "absent"

=============================================================================
