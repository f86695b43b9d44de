--------------------------- MODULE IscsiNode_proofs ---------------------------
(***************************************************************************)
(* Theorems about IscsiNode, for every set of volumes and portal groups    *)
(* and either access mode.                                                 *)
(***************************************************************************)
EXTENDS IscsiNode, TLAPS

\* The steps of AttachDisk between the mount-point probe and the mount.
PreMountSteps == {"blockMkdir", "blockMount", "fileMkdir", "fileSave", "fileMount"}

\* No mount exists on a target while its publish is between the probe
\* (IsLikelyNotMountPoint) and the mount call.
MountInv == \A v \in Vols : pc[v] \in PreMountSteps => mounts[v] = 0

\* A mounted target is one the orchestrator still considers published (or
\* uncertain), or one whose publish is in flight.
MountedCo ==
    \A v \in Vols : mounts[v] > 0 => (co[v] \in {"uncertain", "published"} \/ pc[v] \in PublishSteps)

\* NodeUnstageVolume runs only for a volume the orchestrator holds staged.
UnstageCo == \A v \in Vols : pc[v] \in UnstageSteps => co[v] = "staged"

\* A publish in flight is for a volume the orchestrator has staged.
PublishCo == \A v \in Vols : pc[v] \in PublishSteps => co[v] \in Lifecycle!Attachable

\* An unpublish in flight is for a volume published or left uncertain.
UnpublishCo == \A v \in Vols : pc[v] \in UnpublishSteps => co[v] \in {"uncertain", "published"}

\* After the mount of AttachDisk, the target stays mounted until the RPC
\* returns.
PostMount == \A v \in Vols : pc[v] \in {"blockSave", "chown"} => mounts[v] > 0

IInv == TypeOK /\ NoStackedMount /\ MountInv /\ MountedCo /\ UnstageCo
        /\ PublishCo /\ UnpublishCo /\ PostMount
-----------------------------------------------------------------------------
(* Type correctness: every step keeps each variable in its type, whichever *)
(* RPC step of whichever volume it is.                                     *)

\* One step of any RPC of any volume keeps every variable in its type.
LEMMA TypeOKStep == TypeOK /\ [Next]_vars => TypeOK'
<1> USE DEF TypeOK, IfaceState, SidecarState, CoState, Steps, PublishSteps,
            UnpublishSteps, UnstageSteps, MountBound, Goto, Return, PublishOk,
            PublishErr, UnpublishOk, UnpublishErr, UnstageOk, UnstageErr
<1> SUFFICES ASSUME TypeOK, [Next]_vars PROVE TypeOK'
  OBVIOUS
<1>1. ASSUME NEW v \in Vols, NodeStageVolume(v) PROVE TypeOK'
  BY <1>1, ConstAssumption DEF NodeStageVolume
<1>2. ASSUME NEW v \in Vols, PublishStart(v) PROVE TypeOK'
  BY <1>2, ConstAssumption DEF PublishStart
<1>3. ASSUME NEW v \in Vols, IfaceShow(v) PROVE TypeOK'
  BY <1>3, ConstAssumption DEF IfaceShow
<1>4. ASSUME NEW v \in Vols, IfaceNew(v) PROVE TypeOK'
  BY <1>4, ConstAssumption DEF IfaceNew
<1>5. ASSUME NEW v \in Vols, IfaceUpdate(v) PROVE TypeOK'
  BY <1>5, ConstAssumption DEF IfaceUpdate
<1>6. ASSUME NEW v \in Vols, Discover(v) PROVE TypeOK'
  BY <1>6, ConstAssumption DEF Discover
<1>7. ASSUME NEW v \in Vols, SessionList(v) PROVE TypeOK'
  BY <1>7, ConstAssumption DEF SessionList
<1>8. ASSUME NEW v \in Vols, Login(v) PROVE TypeOK'
  BY <1>8, ConstAssumption DEF Login
<1>9. ASSUME NEW v \in Vols, Rescan(v) PROVE TypeOK'
  BY <1>9, ConstAssumption DEF Rescan
<1>10. ASSUME NEW v \in Vols, WaitPath(v) PROVE TypeOK'
  BY <1>10, ConstAssumption DEF WaitPath
<1>11. ASSUME NEW v \in Vols, MountCheck(v) PROVE TypeOK'
  BY <1>11, ConstAssumption DEF MountCheck
<1>12. ASSUME NEW v \in Vols, BlockMkdir(v) PROVE TypeOK'
  BY <1>12, ConstAssumption DEF BlockMkdir
<1>13. ASSUME NEW v \in Vols, BlockMount(v) PROVE TypeOK'
  BY <1>13, ConstAssumption DEF BlockMount
<1>14. ASSUME NEW v \in Vols, BlockSave(v) PROVE TypeOK'
  BY <1>14, ConstAssumption DEF BlockSave, SidecarOf
<1>15. ASSUME NEW v \in Vols, FileMkdir(v) PROVE TypeOK'
  BY <1>15, ConstAssumption DEF FileMkdir
<1>16. ASSUME NEW v \in Vols, FileSave(v) PROVE TypeOK'
  BY <1>16, ConstAssumption DEF FileSave, SidecarOf
<1>17. ASSUME NEW v \in Vols, FileMount(v) PROVE TypeOK'
  BY <1>17, ConstAssumption DEF FileMount
<1>18. ASSUME NEW v \in Vols, Chown(v) PROVE TypeOK'
  BY <1>18, ConstAssumption DEF Chown
<1>19. ASSUME NEW v \in Vols, UnpublishStart(v) PROVE TypeOK'
  BY <1>19, ConstAssumption DEF UnpublishStart
<1>20. ASSUME NEW v \in Vols, Unmount(v) PROVE TypeOK'
  BY <1>20, ConstAssumption DEF Unmount
<1>21. ASSUME NEW v \in Vols, UnmountCheck(v) PROVE TypeOK'
  BY <1>21, ConstAssumption DEF UnmountCheck, RemoveTarget
<1>22. ASSUME NEW v \in Vols, UnstageStart(v) PROVE TypeOK'
  BY <1>22, ConstAssumption DEF UnstageStart
<1>23. ASSUME NEW v \in Vols, UnstageLoad(v) PROVE TypeOK'
  BY <1>23, ConstAssumption DEF UnstageLoad
<1>24. ASSUME NEW v \in Vols, Flush(v) PROVE TypeOK'
  BY <1>24, ConstAssumption DEF Flush
<1>25. ASSUME NEW v \in Vols, UnstageRemove(v) PROVE TypeOK'
  BY <1>25, ConstAssumption DEF UnstageRemove
<1>26. CASE UNCHANGED vars
  BY <1>26 DEF vars
<1>27. QED
  BY <1>1, <1>2, <1>3, <1>4, <1>5, <1>6, <1>7, <1>8, <1>9, <1>10, <1>11, <1>12, <1>13, <1>14, <1>15, <1>16, <1>17, <1>18, <1>19, <1>20, <1>21, <1>22, <1>23, <1>24, <1>25, <1>26 DEF Next, Node

\* Every reachable state of the node RPCs is well-typed: the mount counts
\* stay within the bound, every step name is one of AttachDisk's,
\* unmountAndCleanUp's or NodeUnstageVolume's, and so on.
THEOREM TypeCorrect == Spec => []TypeOK
<1>1. Init => TypeOK
  BY ConstAssumption DEF Init, TypeOK, IfaceState, SidecarState, CoState, Steps,
     PublishSteps, UnpublishSteps, UnstageSteps, MountBound
<1>2. QED
  BY <1>1, TypeOKStep, PTL DEF Spec

-----------------------------------------------------------------------------
(* The inductive invariant.  NoStackedMount alone is not inductive: the    *)
(* mount in BlockMount and FileMount adds one to the count, and is safe    *)
(* only because the probe in MountCheck found the target unmounted and no *)
(* other step of the volume ran in between (MountInv).  MountedCo and      *)
(* UnstageCo tie the mount table to the orchestrator's view, which is what *)
(* keeps NodeUnstageVolume away from a mounted volume.                     *)

\* The node starts with no volume staged, mounted or in flight, which
\* satisfies the inductive invariant.
LEMMA InitIInv == Init => IInv
BY ConstAssumption DEF Init, IInv, TypeOK, IfaceState, SidecarState, CoState, Steps,
   NoStackedMount, MountInv, MountedCo, UnstageCo, PreMountSteps, PublishSteps,
   UnpublishSteps, UnstageSteps, MountBound, PublishCo, UnpublishCo, PostMount

\* No step of any node RPC of any volume breaks the inductive invariant.
LEMMA IInvStep == IInv /\ [Next]_vars => IInv'
<1> USE DEF IInv, NoStackedMount, MountInv, MountedCo, UnstageCo, PreMountSteps,
            PublishCo, UnpublishCo, PostMount, Lifecycle!Attachable,
            IfaceState, SidecarState, CoState, Steps, PublishSteps,
            UnpublishSteps, UnstageSteps, MountBound, Goto, Return, PublishOk,
            PublishErr, UnpublishOk, UnpublishErr, UnstageOk, UnstageErr
<1> SUFFICES ASSUME IInv, [Next]_vars PROVE IInv'
  OBVIOUS
<1>0. TypeOK'
  BY TypeOKStep
<1>1. ASSUME NEW v \in Vols, NodeStageVolume(v) PROVE IInv'
  BY <1>1, <1>0 DEF TypeOK, NodeStageVolume
<1>2. ASSUME NEW v \in Vols, PublishStart(v) PROVE IInv'
  BY <1>2, <1>0 DEF TypeOK, PublishStart
<1>3. ASSUME NEW v \in Vols, IfaceShow(v) PROVE IInv'
  BY <1>3, <1>0 DEF TypeOK, IfaceShow
<1>4. ASSUME NEW v \in Vols, IfaceNew(v) PROVE IInv'
  BY <1>4, <1>0 DEF TypeOK, IfaceNew
<1>5. ASSUME NEW v \in Vols, IfaceUpdate(v) PROVE IInv'
  BY <1>5, <1>0 DEF TypeOK, IfaceUpdate
<1>6. ASSUME NEW v \in Vols, Discover(v) PROVE IInv'
  BY <1>6, <1>0 DEF TypeOK, Discover
<1>7. ASSUME NEW v \in Vols, SessionList(v) PROVE IInv'
  BY <1>7, <1>0 DEF TypeOK, SessionList
<1>8. ASSUME NEW v \in Vols, Login(v) PROVE IInv'
  BY <1>8, <1>0 DEF TypeOK, Login
<1>9. ASSUME NEW v \in Vols, Rescan(v) PROVE IInv'
  BY <1>9, <1>0 DEF TypeOK, Rescan
<1>10. ASSUME NEW v \in Vols, WaitPath(v) PROVE IInv'
  BY <1>10, <1>0 DEF TypeOK, WaitPath
<1>11. ASSUME NEW v \in Vols, MountCheck(v) PROVE IInv'
  BY <1>11, <1>0 DEF TypeOK, MountCheck
<1>12. ASSUME NEW v \in Vols, BlockMkdir(v) PROVE IInv'
  BY <1>12, <1>0 DEF TypeOK, BlockMkdir
<1>13. ASSUME NEW v \in Vols, BlockMount(v) PROVE IInv'
  BY <1>13, <1>0 DEF TypeOK, BlockMount
<1>14. ASSUME NEW v \in Vols, BlockSave(v) PROVE IInv'
  BY <1>14, <1>0 DEF TypeOK, BlockSave, SidecarOf
<1>15. ASSUME NEW v \in Vols, FileMkdir(v) PROVE IInv'
  BY <1>15, <1>0 DEF TypeOK, FileMkdir
<1>16. ASSUME NEW v \in Vols, FileSave(v) PROVE IInv'
  BY <1>16, <1>0 DEF TypeOK, FileSave, SidecarOf
<1>17. ASSUME NEW v \in Vols, FileMount(v) PROVE IInv'
  BY <1>17, <1>0 DEF TypeOK, FileMount
<1>18. ASSUME NEW v \in Vols, Chown(v) PROVE IInv'
  BY <1>18, <1>0 DEF TypeOK, Chown
<1>19. ASSUME NEW v \in Vols, UnpublishStart(v) PROVE IInv'
  BY <1>19, <1>0 DEF TypeOK, UnpublishStart
<1>20. ASSUME NEW v \in Vols, Unmount(v) PROVE IInv'
  BY <1>20, <1>0 DEF TypeOK, Unmount
<1>21. ASSUME NEW v \in Vols, UnmountCheck(v) PROVE IInv'
  BY <1>21, <1>0 DEF TypeOK, UnmountCheck, RemoveTarget
<1>22. ASSUME NEW v \in Vols, UnstageStart(v) PROVE IInv'
  BY <1>22, <1>0 DEF TypeOK, UnstageStart
<1>23. ASSUME NEW v \in Vols, UnstageLoad(v) PROVE IInv'
  BY <1>23, <1>0 DEF TypeOK, UnstageLoad
<1>24. ASSUME NEW v \in Vols, Flush(v) PROVE IInv'
  BY <1>24, <1>0 DEF TypeOK, Flush
<1>25. ASSUME NEW v \in Vols, UnstageRemove(v) PROVE IInv'
  BY <1>25, <1>0 DEF TypeOK, UnstageRemove
<1>26. CASE UNCHANGED vars
  BY <1>26 DEF vars, TypeOK
<1>27. QED
  BY <1>1, <1>2, <1>3, <1>4, <1>5, <1>6, <1>7, <1>8, <1>9, <1>10, <1>11, <1>12, <1>13, <1>14, <1>15, <1>16, <1>17, <1>18, <1>19, <1>20, <1>21, <1>22, <1>23, <1>24, <1>25, <1>26 DEF Next, Node

\* Idempotent publish: no interleaving of NodePublishVolume retries with
\* the other RPCs ever stacks a second mount on a target path.
THEOREM NoStackedMountHolds == Spec => []NoStackedMount
<1>1. IInv => NoStackedMount
  BY DEF IInv
<1>2. QED
  BY InitIInv, IInvStep, <1>1, PTL DEF Spec

\* NodeUnstageVolume's multipath flush never removes the map of a volume
\* whose target is still mounted.
THEOREM FlushOnlyWhenUnmountedHolds == Spec => FlushOnlyWhenUnmounted
<1>1. IInv /\ [Next]_vars => [\A v \in Vols : (mpath[v] /\ ~mpath'[v]) => mounts[v] = 0]_vars
  <2> SUFFICES ASSUME IInv, [Next]_vars, NEW v \in Vols, mpath[v], ~mpath'[v]
               PROVE mounts[v] = 0
    BY DEF vars
  <2>1. pc[v] = "flush" /\ co[v] = "staged"
    <3>1. PICK u \in Vols : Node(u)
      BY DEF Next, vars
    <3>2. u = v /\ Flush(v)
      BY <3>1 DEF IInv, TypeOK, Node, NodeStageVolume, PublishStart, IfaceShow, IfaceNew,
         IfaceUpdate, Discover, SessionList, Login, Rescan, WaitPath, MountCheck,
         BlockMkdir, BlockMount, BlockSave, FileMkdir, FileSave, FileMount, Chown,
         UnpublishStart, Unmount, UnmountCheck, UnstageStart, UnstageLoad, Flush,
         UnstageRemove, Goto, Return, PublishOk, PublishErr, UnpublishOk, UnpublishErr,
         UnstageOk, UnstageErr, RemoveTarget
    <3>3. QED
      BY <3>2 DEF Flush, IInv, UnstageCo, UnstageSteps
  <2>2. QED
    BY <2>1 DEF IInv, MountedCo, TypeOK, PublishSteps
<1>2. QED
  BY InitIInv, IInvStep, <1>1, PTL DEF Spec, FlushOnlyWhenUnmounted


-----------------------------------------------------------------------------
(* Refinement: IscsiNode implements VolumeLifecycle under the mapping      *)
(* state <- co, mounted <- {v : mounts[v] > 0}.  Every step of a node   *)
(* RPC is a lifecycle step of its volume or leaves co and the mounted     *)
(* flags alone.                                                            *)

\* The lifecycle variables under the mapping.
AbsVars == <<co, {u \in Vols : mounts[u] > 0}>>

\* A step that changes neither co nor the mount table is a lifecycle stutter.
LEMMA AbsStutter ==
  ASSUME co' = co, mounts' = mounts
  PROVE  [Lifecycle!Next]_Lifecycle!vars
BY DEF Lifecycle!vars

\* One publish step that fails returns "uncertain": a lifecycle PublishFail.
LEMMA AbsPublishFail ==
  ASSUME IInv, NEW v \in Vols, pc[v] \in PublishSteps, PublishErr(v), mounts' = mounts
  PROVE  [Lifecycle!Next]_Lifecycle!vars
<1>1. Lifecycle!PublishFail(v)
  BY DEF IInv, PublishCo, PublishErr, Return, Lifecycle!PublishFail
<1>2. QED
  BY <1>1 DEF Lifecycle!Next

\* Every step of the node RPCs is a step of the lifecycle.
LEMMA AbsStep == IInv /\ [Next]_vars => [Lifecycle!Next]_Lifecycle!vars
<1> SUFFICES ASSUME IInv, [Next]_vars PROVE [Lifecycle!Next]_Lifecycle!vars
  OBVIOUS
<1> USE DEF PublishSteps
<1>1. ASSUME NEW v \in Vols, NodeStageVolume(v) PROVE [Lifecycle!Next]_Lifecycle!vars
  <2>1. CASE co' = [co EXCEPT ![v] = "staged"]
    <3>1. Lifecycle!Stage(v)
      BY <1>1, <2>1 DEF NodeStageVolume, IInv, MountedCo, TypeOK, Steps, UnpublishSteps,
         UnstageSteps, Lifecycle!Stage
    <3>2. QED
      BY <3>1 DEF Lifecycle!Next
  <2>2. CASE co' = co
    BY <1>1, <2>2, AbsStutter DEF NodeStageVolume
  <2>3. QED
    BY <1>1, <2>1, <2>2 DEF NodeStageVolume
<1>2. ASSUME NEW v \in Vols,
             \/ PublishStart(v) \/ IfaceShow(v) \/ SessionList(v) \/ UnpublishStart(v)
             \/ UnstageStart(v) \/ Flush(v)
      PROVE [Lifecycle!Next]_Lifecycle!vars
  BY <1>2, AbsStutter DEF PublishStart, IfaceShow, SessionList, UnpublishStart,
     UnstageStart, Flush, Goto
<1>3. ASSUME NEW v \in Vols,
             \/ IfaceNew(v) \/ IfaceUpdate(v) \/ Discover(v) \/ Login(v) \/ Rescan(v)
             \/ WaitPath(v) \/ MountCheck(v) \/ BlockMkdir(v) \/ BlockSave(v)
             \/ FileMkdir(v) \/ FileSave(v)
      PROVE [Lifecycle!Next]_Lifecycle!vars
  <2>1. pc[v] \in PublishSteps /\ mounts' = mounts
    BY <1>3 DEF IfaceNew, IfaceUpdate, Discover, Login, Rescan, WaitPath, MountCheck,
       BlockMkdir, BlockSave, FileMkdir, FileSave
  <2>2. CASE PublishErr(v)
    BY <2>1, <2>2, AbsPublishFail
  <2>3. CASE co' = co
    BY <2>1, <2>3, AbsStutter
  <2>4. QED
    BY <1>3, <2>2, <2>3 DEF IfaceNew, IfaceUpdate, Discover, Login, Rescan, WaitPath,
       MountCheck, BlockMkdir, BlockSave, FileMkdir, FileSave
<1>4. ASSUME NEW v \in Vols, BlockMount(v) \/ FileMount(v) PROVE [Lifecycle!Next]_Lifecycle!vars
  <2>1. pc[v] \in PreMountSteps
    BY <1>4 DEF BlockMount, FileMount, PreMountSteps
  <2>2. CASE mounts' = [mounts EXCEPT ![v] = @ + 1] /\ co' = co
    <3>1. Lifecycle!Mount(v)
      BY <2>1, <2>2 DEF IInv, MountInv, PublishCo, PreMountSteps, TypeOK, Lifecycle!Mount
    <3>2. QED
      BY <3>1 DEF Lifecycle!Next
  <2>3. CASE PublishErr(v) /\ mounts' = mounts
    BY <2>1, <2>3, AbsPublishFail DEF PreMountSteps
  <2>4. QED
    BY <1>4, <2>2, <2>3 DEF BlockMount, FileMount
<1>5. ASSUME NEW v \in Vols, Chown(v) PROVE [Lifecycle!Next]_Lifecycle!vars
  <2>1. CASE PublishOk(v)
    <3>1. Lifecycle!PublishOk(v)
      BY <1>5, <2>1 DEF Chown, PublishOk, Return, IInv, PostMount, PublishCo, TypeOK,
         Lifecycle!PublishOk
    <3>2. QED
      BY <3>1 DEF Lifecycle!Next
  <2>2. CASE PublishErr(v)
    BY <1>5, <2>2, AbsPublishFail DEF Chown
  <2>3. QED
    BY <1>5, <2>1, <2>2 DEF Chown
<1>6. ASSUME NEW v \in Vols, Unmount(v) PROVE [Lifecycle!Next]_Lifecycle!vars
  <2>1. CASE mounts[v] > 0 /\ mounts' = [mounts EXCEPT ![v] = @ - 1]
    <3>1. Lifecycle!Unmount(v)
      BY <1>6, <2>1 DEF Unmount, IInv, NoStackedMount, UnpublishCo, UnpublishSteps,
         TypeOK, Lifecycle!Unmount, Lifecycle!Attachable
    <3>2. QED
      BY <3>1 DEF Lifecycle!Next
  <2>2. CASE mounts' = mounts
    BY <1>6, <2>2, AbsStutter DEF Unmount
  <2>3. QED
    BY <1>6, <2>1, <2>2 DEF Unmount
<1>7. ASSUME NEW v \in Vols, UnmountCheck(v) PROVE [Lifecycle!Next]_Lifecycle!vars
  <2>1. CASE mounts[v] = 0 /\ UnpublishOk(v)
    <3>1. Lifecycle!UnpublishOk(v)
      BY <1>7, <2>1 DEF UnmountCheck, UnpublishOk, Return, IInv, UnpublishCo,
         UnpublishSteps, TypeOK, Lifecycle!UnpublishOk
    <3>2. QED
      BY <3>1 DEF Lifecycle!Next
  <2>2. CASE UnpublishErr(v)
    BY <1>7, <2>2, AbsStutter DEF UnmountCheck, UnpublishErr, Return, IInv, TypeOK
  <2>3. QED
    BY <1>7, <2>1, <2>2 DEF UnmountCheck
<1>8. ASSUME NEW v \in Vols, UnstageLoad(v) \/ UnstageRemove(v)
      PROVE [Lifecycle!Next]_Lifecycle!vars
  <2>1. pc[v] \in UnstageSteps /\ co[v] = "staged" /\ mounts[v] = 0 /\ mounts' = mounts
    BY <1>8 DEF UnstageLoad, UnstageRemove, IInv, UnstageCo, MountedCo, UnstageSteps, TypeOK
  <2>2. CASE UnstageOk(v)
    <3>1. Lifecycle!UnstageOk(v)
      BY <2>1, <2>2 DEF UnstageOk, Return, IInv, TypeOK, Lifecycle!UnstageOk
    <3>2. QED
      BY <3>1 DEF Lifecycle!Next
  <2>3. CASE UnstageErr(v)
    BY <2>1, <2>3, AbsStutter DEF UnstageErr, Return, IInv, TypeOK
  <2>4. CASE co' = co
    BY <2>1, <2>4, AbsStutter
  <2>5. QED
    BY <1>8, <2>2, <2>3, <2>4 DEF UnstageLoad, UnstageRemove
<1>9. CASE UNCHANGED vars
  BY <1>9, AbsStutter DEF vars
<1>10. QED
  BY <1>1, <1>2, <1>3, <1>4, <1>5, <1>6, <1>7, <1>8, <1>9 DEF Next, Node

\* The node engine implements the CSI volume lifecycle: whatever the
\* interleaving of RPCs of different volumes and whichever commands fail,
\* NodePublishVolume reports success only with the target mounted, and
\* NodeUnpublishVolume and NodeUnstageVolume only with it unmounted.
THEOREM RefinesLifecycle == Spec => LifecycleSpec
<1>1. Init => Lifecycle!Init
  BY DEF Init, Lifecycle!Init
<1>2. QED
  BY <1>1, InitIInv, IInvStep, AbsStep, PTL DEF Spec, LifecycleSpec, Lifecycle!Spec

\* The abstract lifecycle's theorems, read through the refinement mapping.
LP == INSTANCE VolumeLifecycle_proofs WITH state <- co, mounted <- {u \in Vols : mounts[u] > 0}

\* No target path is left mounted for a volume the orchestrator holds
\* unstaged: NodeUnstageVolume never succeeds while a mount made by
\* NodePublishVolume is still there, and no mount precedes the stage.
\* Proved for the abstract lifecycle and carried over by the refinement.
THEOREM NoMountWhenUnstaged == Spec => []UnstagedUnmounted
<1>1. LifecycleSpec => []LP!MountedAttachable
  <2>1. LP!Spec => []LP!MountedAttachable
    BY LP!LifecycleMountedAttachable
  <2>2. Lifecycle!Init <=> LP!Init
    BY DEF Lifecycle!Init, LP!Init
  <2>3. [Lifecycle!Next]_Lifecycle!vars <=> [LP!Next]_LP!vars
    BY DEF Lifecycle!Next, LP!Next, Lifecycle!vars, LP!vars,
       Lifecycle!Stage, LP!Stage, Lifecycle!Mount, LP!Mount, Lifecycle!Unmount, LP!Unmount,
       Lifecycle!PublishOk, LP!PublishOk, Lifecycle!PublishFail, LP!PublishFail,
       Lifecycle!UnpublishOk, LP!UnpublishOk, Lifecycle!UnstageOk, LP!UnstageOk,
       Lifecycle!Attachable, LP!Attachable
  <2>4. QED
    BY <2>1, <2>2, <2>3, PTL DEF LifecycleSpec, Lifecycle!Spec, LP!Spec
<1>2. TypeOK /\ LP!MountedAttachable => UnstagedUnmounted
  BY DEF TypeOK, LP!MountedAttachable, LP!Attachable, UnstagedUnmounted
<1>3. QED
  BY <1>1, <1>2, RefinesLifecycle, TypeCorrect, PTL

-----------------------------------------------------------------------------
(* Sidecar durability.  A filesystem publish writes the sidecar           *)
(* (createISCSIConfigFile) before FormatAndMount, with the MpathDevice     *)
(* that findMultipathDeviceForDevice found after waitForPathToExist; a     *)
(* retry that finds the target mounted returns without writing it.  So a  *)
(* published or mounted file-mode volume has a sidecar naming its map as  *)
(* long as nothing removes the sidecar while the target is mounted:        *)
(* NodeUnstageVolume, the only remover, runs only for a staged volume,     *)
(* which MountedCo keeps unmounted.                                        *)

\* The block steps belong to block-mode volumes; the map exists at the
\* probe; the disk carries MpathDevice from the probe to the sidecar
\* write; and a file-mode volume past the write, mounted or published has
\* a sidecar naming its map.
SideInv ==
    \A v \in Vols :
        /\ pc[v] \in {"blockMkdir", "blockMount", "blockSave"} => mode[v] = "block"
        /\ pc[v] = "mountCheck" => mpath[v]
        /\ pc[v] \in {"fileMkdir", "fileSave"} => mp[v]
        /\ mode[v] = "file" /\ (pc[v] \in {"fileMount", "chown"} \/ mounts[v] > 0
                               \/ co[v] = "published")
           => sidecar[v] = "mpath"

LEMMA InitSideInv == Init => SideInv
<1> SUFFICES ASSUME Init PROVE SideInv
  OBVIOUS
<1>1. \A v \in Vols : pc[v] = "idle" /\ mounts[v] = 0 /\ co[v] = "unstaged"
  BY Zenon DEF Init
<1>2. \A v \in Vols : mounts[v] = 0 => ~(mounts[v] > 0)
  OBVIOUS
<1>3. QED
  BY <1>1, <1>2, Zenon DEF SideInv

\* No step of any node RPC breaks SideInv, given the inductive invariant.
LEMMA SideInvStep == IInv /\ SideInv /\ [Next]_vars => SideInv'
<1> USE DEF SideInv, IInv, MountedCo, UnstageCo, CoState, Steps, PublishSteps,
            UnpublishSteps, UnstageSteps, Goto, Return, PublishOk,
            PublishErr, UnpublishOk, UnpublishErr, UnstageOk, UnstageErr
<1> SUFFICES ASSUME IInv, SideInv, [Next]_vars PROVE SideInv'
  OBVIOUS
<1>1. ASSUME NEW v \in Vols, NodeStageVolume(v) PROVE SideInv'
  BY <1>1 DEF TypeOK, NodeStageVolume
<1>2. ASSUME NEW v \in Vols, PublishStart(v) \/ IfaceShow(v) \/ SessionList(v)
      PROVE SideInv'
  BY <1>2 DEF TypeOK, PublishStart, IfaceShow, SessionList
<1>3. ASSUME NEW v \in Vols, IfaceNew(v) \/ IfaceUpdate(v) \/ Discover(v) \/ Login(v)
      PROVE SideInv'
  BY <1>3 DEF TypeOK, IfaceNew, IfaceUpdate, Discover, Login
<1>4. ASSUME NEW v \in Vols, Rescan(v) PROVE SideInv'
  BY <1>4 DEF TypeOK, Rescan
<1>5. ASSUME NEW v \in Vols, WaitPath(v) PROVE SideInv'
  BY <1>5 DEF TypeOK, WaitPath
<1>6. ASSUME NEW v \in Vols, MountCheck(v) PROVE SideInv'
  BY <1>6 DEF TypeOK, MountCheck
<1>7. ASSUME NEW v \in Vols, BlockMkdir(v) \/ BlockMount(v) \/ BlockSave(v)
      PROVE SideInv'
  BY <1>7 DEF TypeOK, BlockMkdir, BlockMount, BlockSave, SidecarOf
<1>8. ASSUME NEW v \in Vols, FileMkdir(v) PROVE SideInv'
  BY <1>8 DEF TypeOK, FileMkdir
<1>9. ASSUME NEW v \in Vols, FileSave(v) PROVE SideInv'
  BY <1>9 DEF TypeOK, FileSave, SidecarOf
<1>10. ASSUME NEW v \in Vols, FileMount(v) PROVE SideInv'
  BY <1>10 DEF TypeOK, FileMount
<1>11. ASSUME NEW v \in Vols, Chown(v) PROVE SideInv'
  BY <1>11 DEF TypeOK, Chown
<1>12. ASSUME NEW v \in Vols, UnpublishStart(v) \/ Unmount(v) PROVE SideInv'
  BY <1>12 DEF TypeOK, UnpublishStart, Unmount
<1>13. ASSUME NEW v \in Vols, UnmountCheck(v) PROVE SideInv'
  BY <1>13 DEF TypeOK, UnmountCheck, RemoveTarget
<1>14. ASSUME NEW v \in Vols, UnstageStart(v) \/ UnstageLoad(v) \/ Flush(v)
       PROVE SideInv'
  BY <1>14 DEF TypeOK, UnstageStart, UnstageLoad, Flush
<1>15. ASSUME NEW v \in Vols, UnstageRemove(v) PROVE SideInv'
  BY <1>15 DEF TypeOK, UnstageRemove
<1>16. CASE UNCHANGED vars
  BY <1>16 DEF vars
<1>17. QED
  BY <1>1, <1>2, <1>3, <1>4, <1>5, <1>6, <1>7, <1>8, <1>9, <1>10, <1>11, <1>12,
     <1>13, <1>14, <1>15, <1>16 DEF Next, Node

\* Sidecar durability (spec 8.3) for filesystem volumes: in every state, a
\* file-mode volume whose NodePublishVolume last returned success has a
\* sidecar that names its multipath device, however its publishes,
\* retries, unpublishes and unstages interleave with other volumes'.
THEOREM FileSidecarDurable ==
    Spec => [](\A v \in Vols : mode[v] = "file" /\ co[v] = "published" => sidecar[v] = "mpath")
<1>1. Init => IInv /\ SideInv
  BY InitIInv, InitSideInv
<1>2. IInv /\ SideInv /\ [Next]_vars => (IInv /\ SideInv)'
  BY IInvStep, SideInvStep
<1>3. IInv /\ SideInv => \A v \in Vols : mode[v] = "file" /\ co[v] = "published" => sidecar[v] = "mpath"
  BY DEF SideInv
<1>4. QED
  BY <1>1, <1>2, <1>3, PTL DEF Spec

\* SidecarAfterPublish, as the file_sidecar run checks it: when every
\* volume is a filesystem volume, a successful NodePublishVolume always
\* leaves a sidecar naming the map.  (block_sidecar shows that it fails for
\* block volumes, whose sidecar is written after the mount.)
THEOREM SidecarAfterPublishFile == Modes = {"file"} => (Spec => []SidecarAfterPublish)
<1> SUFFICES ASSUME Modes = {"file"} PROVE Spec => []SidecarAfterPublish
  OBVIOUS
<1>1. TypeOK /\ (\A v \in Vols : mode[v] = "file" /\ co[v] = "published" => sidecar[v] = "mpath")
      => SidecarAfterPublish
  BY DEF TypeOK, SidecarAfterPublish
<1>2. QED
  BY <1>1, TypeCorrect, FileSidecarDurable, PTL

=============================================================================
