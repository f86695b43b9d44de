------------------------ MODULE VolumeLifecycle_proofs ------------------------
(***************************************************************************)
(* Safety of the abstract node lifecycle.  IscsiNode_proofs carries it    *)
(* over to the node engine through the refinement mapping.                *)
(***************************************************************************)
EXTENDS VolumeLifecycle, TLAPS

LInv == TypeOK /\ MountedAttachable

LEMMA LInvInit == Init => LInv
BY DEF Init, LInv, TypeOK, MountedAttachable, States

\* Stage and UnstageOk require the target unmounted; Mount requires a
\* staged volume; every other step moves a volume within Attachable or
\* leaves the mounts alone.
LEMMA LInvStep == LInv /\ [Next]_vars => LInv'
<1> SUFFICES ASSUME LInv, [Next]_vars PROVE LInv'
  OBVIOUS
<1> USE DEF LInv, TypeOK, MountedAttachable, States, Attachable
<1>1. ASSUME NEW v \in Vols, Stage(v) PROVE LInv'
  BY <1>1 DEF Stage
<1>2. ASSUME NEW v \in Vols, Mount(v) \/ Unmount(v) PROVE LInv'
  BY <1>2 DEF Mount, Unmount
<1>3. ASSUME NEW v \in Vols, PublishOk(v) \/ PublishFail(v) \/ UnpublishOk(v)
      PROVE LInv'
  BY <1>3 DEF PublishOk, PublishFail, UnpublishOk
<1>4. ASSUME NEW v \in Vols, UnstageOk(v) PROVE LInv'
  BY <1>4 DEF UnstageOk
<1>5. CASE UNCHANGED vars
  BY <1>5 DEF vars
<1>6. QED
  BY <1>1, <1>2, <1>3, <1>4, <1>5 DEF Next

\* In every behaviour of the lifecycle, a mounted target belongs to a
\* volume the orchestrator holds staged, published or uncertain.
THEOREM LifecycleMountedAttachable == Spec => []MountedAttachable
<1>1. LInv => MountedAttachable
  BY DEF LInv
<1>2. QED
  BY LInvInit, LInvStep, <1>1, PTL DEF Spec

=============================================================================
