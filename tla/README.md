# Formal models of the iSCSI CSI driver

This directory holds TLA+ models of the driver under `src/`. It also holds TLC
configurations that check the models on small instances, and TLAPS proofs of
the main safety properties for every instance.

## 1. The system

The driver is a Kubernetes CSI plugin. It attaches volumes of a storage array
to a node over iSCSI.

| Part | Source | Role |
|---|---|---|
| Node service | `src/storage/iscsinode.go`, `src/storage/storagehelper.go` | `NodeStageVolume` registers the node's initiator with the array (host port, CHAP). `NodePublishVolume` attaches the LUN: iface clone, discovery, login, rescan, multipath wait, mount or bind-mount, sidecar JSON, chown. `NodeUnpublishVolume` unmounts and removes the target path. `NodeUnstageVolume` reads the sidecar, flushes the multipath map and removes the sidecar and staging directory. |
| Controller service | `src/service/controller.go` | Validates the volume id (`<id>$$<storageType>`) and capabilities, then dispatches to a storage-type back end. The back ends are not in `src/`. |
| Identity | `src/service/identity.go` | Returns constants. |
| REST client | `src/api/client/restclient.go` | One process-wide resty client. Every request sets the array URL and credentials on it. |
| Helpers | `src/helper/yamltruthyness.go`, `storagehelper.go` | YAML booleans, size rounding, volume-id split, parameter checks. |
| Command runner | `helper.ExecScsi` (not in `src/`) | Runs one shell command under a process-wide mutex. |

### How the parts interact

Several volumes' RPCs run concurrently on one node. They share host state:

- the iscsiadm iface record, named after the first portal;
- the iSCSI sessions;
- the device-mapper multipath maps;
- the mount table;
- the sidecar files `<stage>/<vol>.json`.

The execScsi mutex makes each single command atomic, but no sequence of
commands.

The orchestrator (kubelet) sends at most one RPC per volume at a time. It
retries a failed publish. It unstages only a volume it believes is unpublished.

That last point is an assumption about the environment, and the model states
it. The node model records a failed publish as *uncertain*: the target may
be mounted, so the orchestrator must unpublish before it unstages. Every
error of `NodePublishVolume` is `codes.Internal`, even after the target has
been mounted (a chown or chmod failure, `iscsinode.go` 238-252). Kubelet
treats Internal as a final error. It records the target as not mounted,
never unpublishes it, and may unstage. The `unstage_final` run checks the
model under that reading (section 3). The theorems about unstaging assume
the uncertain reading.

### Inventory of hard behaviours

- A check-then-act on the shared iface. `--op show`, then `--op new`, then
  `--op update`, and `--op delete` on failure (lines 516, 1155, 1167).
- A check-then-act on sessions, with duplicate logins absorbed (562-575).
- Partial failures between rescan, sidecar write and mount (591, 686, 747).
- Idempotent retries that return early at the mount probe (635).
- A best-effort unmount with a recheck (`storagehelper.go` 153-170).
- A best-effort multipath flush (347).
- A missing sidecar, which turns unstage into RemoveAll and success (324-335).
- Bounded retries when waiting for device paths (1035-1064).
- Panics that are recovered into errors, or into nil (430, 816).
- A shared HTTP client mutated per request (`restclient.go` 89).
- int64 size arithmetic (`storagehelper.go` 223-229).
- A publish that fails with the target mounted (`iscsinode.go` 241).
- A host object's CHAP posture read from a possibly stale publish context
  (`iscsinode.go` 151).

`PROJECT.json` lists each of these with the properties that cover it.

## 2. What is modelled

| Module | Part | Status |
|---|---|---|
| `IscsiNode.tla` | node attach/detach engine | modelled |
| `VolumeLifecycle.tla` | what the node service promises per volume | abstract spec |
| `NodeStage.tla` | the array side of `NodeStageVolume` | modelled |
| `Controller.tla` | CreateVolume, DeleteVolume, Controller(Un)PublishVolume | partly |
| `VolumeHandle.tla` | `validateVolumeID` and the handle suffix | pure operators |
| `VolumeSize.tla` | `verifyVolumeSize` at int64 width | modelled |
| `RestClient.tla` | the shared resty client | modelled |

`PROJECT.json` "map" gives the source lines each definition translates.

### `IscsiNode.tla`: the node attach/detach engine

Constants:

- `Vols` are the volumes.
- `Targets` are the portal groups; the iface is named after one.
- `VolTarget` gives each volume's portal group.
- `Modes` is a subset of `{"file","block"}`.

State, per portal group or per volume:

- `iface`: absent, new or ready.
- `session`: a set of portal groups.
- `mpath`: whether the dm map exists.
- `mounts`: the number of mounts on the target path, up to `MountBound`.
- `target`: whether the target path exists.
- `sidecar`: absent, or present with `MpathDevice` empty or set.
- `stageDir`: whether the staging directory exists.
- `co`: the orchestrator's view. It is unstaged, staged, uncertain after a
  failed publish, or published.
- `pc`: the step of the in-flight RPC.
- `mode`: the access type, chosen initially.
- `mp`: the in-flight `iscsiDisk.MpathDevice` is set.
- `flushErr`: a flush of the volume failed.

Each action is one external command or syscall of a handler, in the code's
order. This is the granularity the execScsi mutex gives.

| RPC | Actions |
|---|---|
| `NodePublishVolume` | `PublishStart`, `IfaceShow`, `IfaceNew`, `IfaceUpdate` (cloneIface), `Discover`, `SessionList`, `Login`, `Rescan` (rescanDeviceMap), `WaitPath`, `MountCheck`, `BlockMkdir`/`BlockMount`/`BlockSave` or `FileMkdir`/`FileSave`/`FileMount`, `Chown` |
| `NodeUnpublishVolume` | `UnpublishStart`, `Unmount`, `UnmountCheck` (unmountAndCleanUp) |
| `NodeUnstageVolume` | `UnstageStart`, `UnstageLoad`, `Flush`, `UnstageRemove` |
| `NodeStageVolume` | one step that may fail; its array calls are in `NodeStage.tla` |

Every command may fail where the code checks for an error. The early returns
and error paths go to `PublishErr`, `UnpublishErr` and `UnstageErr`, which
give the orchestrator's reaction.

### `VolumeLifecycle.tla`: the abstract node service

Per volume, the abstract state is:

- `state`, the orchestrator's view: unstaged, staged, uncertain or published;
- `mounted`, the set of volumes whose target path carries a mount.

Its steps are Stage, Mount, Unmount, PublishOk, PublishFail, UnpublishOk and
UnstageOk. Together they say:

- a target is mounted only for a staged volume;
- a publish succeeds only with the target mounted;
- an unpublish or unstage succeeds only with it unmounted.

`IscsiNode` implements it. The mapping is
`Lifecycle == INSTANCE VolumeLifecycle WITH state <- co, mounted <- {u : mounts[u] > 0}`.
The property is `LifecycleSpec == Lifecycle!Spec`. Every node command step
maps to a stutter, except these:

- the mount (`Mount`);
- the unmount that reaches zero (`Unmount`);
- the orchestrator's reactions (the `*Ok`/`*Fail` steps).

### `NodeStage.tla`: host port and CHAP posture

Volumes of one node share one host object on the array. Its state is:

- `portReg`: the initiator is a port of the host;
- `sec`: the host's securityMethod.

Per volume, the state is:

- the fixed `useChap` and CHAP secrets (`creds`);
- the publish context `pctx` that ControllerPublishVolume captured;
- `staged`;
- the step `pc`.

The actions are:

- `ControllerPublish` and `ControllerUnpublish`, from the spec, because the
  back end is not in `src/`;
- `StageStart`, the port check;
- `AddPort`;
- `Chap`, with the secret check and `AddChapSecurityForHost`;
- `Unstage`.

The constant `Configs` gives the admissible `useChap` assignments.

### `Controller.tla` and `VolumeHandle.tla`: the controller front end

`VolumeHandle` holds pure operators:

- `Pieces`/`Split` model Go's `strings.Split` on `"$$"`. `Pieces` is a
  recursive function over `Seq(STRING)`, not a RECURSIVE operator, so that
  the controller's proofs can use this module.
- `ValidateVolumeID` models the two-piece check.
- `HandleOf` is CreateVolume's `id + "$$" + proto`.

The array's volume ids are decimal, so they never contain `$$`. The split
round-trips for them; `HandlesRoundTrip` in section 4 states this.

Strings are sequences of one-character strings, so that a split can look at
them.

`Controller` holds:

- `vols`: the volumes on the array;
- `held`: the handles the orchestrator holds, each with the volume it was
  made for. A pre-provisioned PersistentVolume's handle, which an
  administrator wrote, was made for no volume (`NoVolume`);
- `attached`: the (handle, node) pairs published.

The actions are:

- `CreateVolume`, with `validateCapabilities` and the back-end choice;
- `StaticProvision`: the orchestrator takes up a pre-provisioned handle
  (`StaticHandles`). This is how DeleteVolume meets a handle that
  `validateVolumeID` rejects;
- `DeleteVolume`. A handle that fails validation is reported deleted without
  a back-end call.
- `ControllerPublish` and `ControllerUnpublish`.

The back ends are not in `src/`. They appear as their effect on the array.
A failure of a back end, or an early return that changes nothing, is a
stutter.

### `VolumeSize.tla`: size rounding

`VerifyVolumeSize(required, limit)` translates `verifyVolumeSize` at a
parametric width:

- `MaxInt` is 2^63-1 in the code;
- `Wrap` is two's-complement wrap-around;
- `BytesOfGiB` is the GiB unit.

The state is:

- the last request (`SetRequired`, `SetLimit`);
- the `result`.

### `RestClient.tla`: the shared REST client

The state is:

- `client` (nil, new or ready), the lazily created `rClient`;
- the client's `hostURL` and `auth`;
- `withStruct`;
- per goroutine, `pc`, `sent` and `result`.

The actions are:

- `CheckHttpClient` and `NewRestClient` (`NewRestClient` resets the URL and
  auth);
- `Configure`, `SetHostURL` and `SetBasicAuth`;
- `Send`, which reads URL and auth at send time and classifies the reply with
  `CheckResponse`.

`Replies` is the set of replies the array and the transport may give.

## 3. Runs

| Run | Instance | Expect | Checks | Shows |
|---|---|---|---|---|
| `attach` | 2 vols, 1 portal group, both modes, `MountBound=2` | pass, 775k states | `NoStackedMount`, `UnstagedUnmounted`, `FlushOnlyWhenUnmounted`, `LifecycleSpec` | Publish retries never stack a mount. No unstage succeeds with the target mounted, and none flushes a mounted map. The node engine implements `VolumeLifecycle`. |
| `file_sidecar` | as above, file only | pass, 157k states | `SidecarAfterPublish` | A successful filesystem publish leaves a sidecar naming the map. |
| `block_sidecar` | block only | violation | `SidecarAfterPublish` | The block sidecar is written after the mount. A failed write, then a retry, gives success with no sidecar. |
| `iface_race` | file only | violation | `IfaceExistsForSession` | One volume deletes the iface after its update fails, while another has logged in through it. |
| `unstage_leak` | file only | violation | `UnstageLeavesNoMap` | A publish failing after the rescan leaves a map with no sidecar. Unstage then succeeds without flushing. |
| `unstage_final` | file only, `PublishErr <- MCPublishErrFinal` | violation | `UnstagedUnmounted` | A failed publish is taken as final, as kubelet takes Internal. Trace: mount, chown fails, unstage succeeds with the target still mounted. |
| `stage_same` | 2 vols, same `useChap` | pass, 7k states | `StagePosture` | With one posture per node, a successful stage leaves the host in it. |
| `stage_mixed` | 2 vols, any `useChap` | violation | `StagePosture` | Trace: v2 pushes CHAP, then v1 (none), whose context still says NONE, returns success with the host on CHAP. |
| `controller` | decimal ids `1`..`22`, protocols `i` (with a back end) and `ii` (none), static handle `7` | pass, 1.5k states | `DeleteRemovesVolume` | A volume whose DeleteVolume reported success is gone from the array. |
| `size` | `MaxInt=31`, `BytesOfGiB=4`, all requests and limits | pass, 4k states | `SizeWithinLimit` | A returned size is positive, a whole GiB and within a non-zero limit. |
| `rest` | 2 goroutines, 2 arrays, 7 reply kinds | pass, 102k states | `OkNotRejected` | checkResponse never reports success for a 401 or 503, a JSON error object, a non-object body, a null result or a transport error. Other error statuses (a 404 or 500 with a JSON object body) do pass; the property does not claim them. |
| `rest_host_race` | as above, all replies | violation | `SentToOwnArray` | A request is sent to another goroutine's array with that array's credentials. |

Bounds:

- Two volumes, goroutines or arrays are the fewest that can race.
- `MountBound = 2` lets a stacked mount occur.
- `MaxInt = 31` with `BytesOfGiB = 4` makes every request and limit
  enumerable. That includes sizes below one GiB, sizes that are not whole
  GiB (cut down), and limits below the cut size. `SizeWithinLimitHolds`
  covers every width.
- Ids of one and two decimal digits give 6 volumes, enough for creates,
  deletes and publishes to overlap. The static handle `7` has no `$$`, so
  DeleteVolume's invalid-handle path runs.

Symmetry over the volumes is used where the volumes are interchangeable.

Each passing property has a mutant in `PROJECT.json` that TLC catches:

- the mount probe dropped, or inverted;
- `MpathDevice` not recorded;
- the unmount recheck dropped;
- the back end handed the whole handle instead of the stripped id;
- the posture comparison inverted;
- rounding up instead of down;
- the error check moved after the result check.

### Fairness and liveness

No fairness is assumed and no liveness property is stated.

- Every node command may fail, and retries are the orchestrator's, not the
  code's. The code guarantees no progress when its commands keep failing.
- "Publish eventually succeeds" would need fairness on the environment's
  success. That would check the environment, not the driver.

## 4. What is proved

TLAPS checks every step of the following.

| Module | Theorem | Statement |
|---|---|---|
| `IscsiNode_proofs` | `TypeCorrect` | `Spec => []TypeOK` |
| `IscsiNode_proofs` | `NoStackedMountHolds` | `Spec => []NoStackedMount` |
| `IscsiNode_proofs` | `FlushOnlyWhenUnmountedHolds` | `Spec => FlushOnlyWhenUnmounted` |
| `IscsiNode_proofs` | `RefinesLifecycle` | `Spec => LifecycleSpec` |
| `NodeStage_proofs` | `SameChapPosture` | `Uniform => (Spec => StagePosture)` |
| `VolumeSize_proofs` | `SizeWithinLimitHolds` | `Spec => []SizeWithinLimit` |
| `IscsiNode_proofs` | `FileSidecarDurable` | `Spec => [](\A v : mode[v] = "file" /\ co[v] = "published" => sidecar[v] = "mpath")` |
| `IscsiNode_proofs` | `SidecarAfterPublishFile` | `Modes = {"file"} => (Spec => []SidecarAfterPublish)` |
| `VolumeLifecycle_proofs` | `LifecycleMountedAttachable` | `Spec => []MountedAttachable` (abstract) |
| `IscsiNode_proofs` | `NoMountWhenUnstaged` | `Spec => []UnstagedUnmounted` |
| `RestClient_proofs` | `OkNotRejectedHolds` | `Spec => []OkNotRejected` |
| `Controller_proofs` | `DeleteRemovesVolumeHolds` | `HandlesRoundTrip => (Spec => DeleteRemovesVolume)` |

Assumptions:

- `IscsiNode`: `ConstAssumption` says `VolTarget` maps into `Targets` and
  `Modes` is a non-empty subset of the two access types.
- `NodeStage`: `ConfigAssumption` says `Configs` is a non-empty set of
  `useChap` assignments. `Uniform` adds that each gives all volumes one value.
  `stage_mixed` shows the theorem is false without it.
- `VolumeSize`: `SizeAssumption` says `MaxInt` is positive and
  `BytesOfGiB` is in `1..MaxInt`.
- `RestClient`: `HostAssumption` says `HostOf` maps requests to arrays and
  `Replies` is a set of replies.
- `SidecarAfterPublishFile` assumes every volume is a filesystem volume.
  `block_sidecar` shows the property fails for block volumes.
  `FileSidecarDurable` needs no such hypothesis: it speaks of the file-mode
  volumes of any instance.
- `DeleteRemovesVolumeHolds` assumes `HandlesRoundTrip`: `validateVolumeID`
  splits `HandleOf(id, p)` back into `(id, p)` for every allocatable id and
  protocol with a back end. TLC evaluates it:
  - it holds for the decimal ids of up to 4 digits with two protocol names;
  - it is false for ids containing `$`, which the array does not allocate.
- `Controller`: `IdsNonEmpty` says no array id is empty, so no volume is
  the `NoVolume` of a pre-provisioned handle.
- `NoMountWhenUnstaged`, like `FlushOnlyWhenUnmountedHolds`, is about the
  node model as written, where a failed publish leaves the volume
  uncertain. `unstage_final` shows it fails under kubelet's final-error
  reading.

  The theorem proves the controller's part of the argument: the guards, the
  back-end choice and the dispatch. The split's correctness for all inputs
  would need induction over data.

### Inductive invariants

**`IscsiNode`.** `IInv` is `TypeOK /\ NoStackedMount` strengthened with the
following:

- `MountInv`: between the mount probe and the mount, the target is unmounted.
  This makes the `+1` of the mount safe.
- `MountedCo`: a mounted target belongs to a volume that is published,
  uncertain or in a publish.
- `UnstageCo`: unstage runs only for a staged volume.
- `PublishCo`, `UnpublishCo` and `PostMount`: the orchestrator's view during
  each RPC, and a mount after the mount step. The refinement needs them,
  because each orchestrator reaction must be an abstract step.

The flush theorem follows: a flush belongs to an unstage, so the volume is
staged, so its target is unmounted. `RefinesLifecycle` proves two things:

- `Init` maps to the abstract `Init`;
- under `IInv`, every step is an abstract step or a stutter. There is one
  case per action that changes `co` or crosses zero mounts.

**`NodeStage`.** `CtxInv` says two things:

- a captured context's securityMethod is the host's current one, or the host
  already has the posture the volume asks for;
- a stage in flight has a context.

Under `Uniform`, every volume asks for the same posture. So a stale context
can only be stale toward that posture, and `LowerPosture` relates the two
spellings.

**Sidecar.** `SideInv`, checked with TLC on the `attach` instance, adds
these to `IInv`:

- block steps run only for block volumes;
- the map exists at the mount probe;
- the in-flight disk carries `MpathDevice` from the probe to the sidecar
  write;
- a file-mode volume past the write, mounted or published, has a sidecar
  naming its map.

`IInv`'s `MountedCo` and `UnstageCo` show that the only remover,
`UnstageRemove`, never runs while the target is mounted.

**Through the refinement.** `LifecycleMountedAttachable` is proved on the
abstract spec, from `LInv == TypeOK /\ MountedAttachable`.
`NoMountWhenUnstaged` instantiates that theorem under the refinement mapping
(`LP == INSTANCE VolumeLifecycle_proofs WITH ...`). It then combines it with
`RefinesLifecycle`.

**`RestClient`.** `OkInv` says a goroutine's `"ok"` is what `CheckResponse`
returned for the reply it recorded. Only `Send` writes `result` and `sent`,
and it writes both from one reply. The lemma `CheckResponseOk` reads off
what an `"ok"` excludes.

**`Controller`.** `HeldInv` says the array holds volumes of allocatable
ids. It also says every held handle is either `HandleOf` of an allocatable
id and a protocol with a back end, or a pre-provisioned one made for no
volume. Deleting a pre-provisioned handle removes at most some volume, and
never `NoVolume`. Under `HandlesRoundTrip`, a
step that drops a handle is `DeleteVolume` of it. That step deletes exactly
the volume the handle was made for.

**`VolumeSize`.** `SizeWithinLimit` is a property of the pure operator, and
`VerifyVolumeSizeSafe` proves it for every input. `WrapId` shows that `Wrap`
is the identity within int64. `RoundDown` bounds the rounded size.

`IscsiNode`'s `IInv` was checked as an invariant with TLC on the `attach`
instance before it was proved.

### What stays with TLC

- What `Split` computes for every input, for example that it undoes
  `HandleOf` for every id without `$`. That needs induction over data, which
  the installed provers cannot instantiate with an operator. The
  controller theorem takes it as the hypothesis `HandlesRoundTrip`.
- `SentToOwnArray` and the other properties of violation runs, which are
  false.
- Liveness and ENABLED, which are out of the prover's reach (none is stated).

## 5. Not modelled, and why

- Node info RPCs, identity and the test helper hold no state.
- Controller:
  - `ControllerExpandVolume`, `CreateSnapshot` and `DeleteSnapshot` validate
    and dispatch to back-end state the model does not hold (size,
    snapshots).
  - `ValidateVolumeCapabilities` and the List/Get RPCs change nothing.
  - The back ends are not in `src/`.
- `YamlBoolToBool`, `validateStorageClassParameters` (regexp),
  `copyRequestParameters`, `getPermissionMaps` (JSON), `parseSessionSecret` and
  `extractTransportName` are string processing, with no caller that a property
  depends on.
- dmsetup and sysfs parsing are left out. Device discovery is reduced to
  "map exists".
- The read-only block branch (`iscsinode.go` 656) is dead code: `readOnly` is
  always false (952).
- Some hazards have no run of their own (see `PROJECT.json` "hazards"):
  - `verifyVolumeSize` rounding a request down below `required`;
  - the lazy `rClient` creation race;
  - `checkResponse` accepting a body without `result`.
- `SizeWithinLimit` does not say the size reaches `RequiredBytes`.
  `verifyVolumeSize` rounds down on purpose (1.5 GiB gives 1 GiB), and it
  has no caller under `src/`.
