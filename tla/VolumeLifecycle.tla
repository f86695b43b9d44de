--------------------------- MODULE VolumeLifecycle ---------------------------
(***************************************************************************)
(* What the node service promises the orchestrator about one volume's     *)
(* target mount, abstracting from iscsiadm, multipath and the sidecar.    *)
(* state[v] is the orchestrator's view of v (the result of its last node  *)
(* RPC); mounted is the set of volumes whose target path carries a mount. *)
(*                                                                         *)
(*  - a target is mounted only for a volume the orchestrator has staged;  *)
(*  - a publish reports success only with the target mounted;             *)
(*  - an unpublish or unstage reports success only with it unmounted;     *)
(*  - a failed publish leaves the volume "uncertain".                     *)
(***************************************************************************)
CONSTANT Vols

VARIABLES state, mounted

vars == <<state, mounted>>

States == {"unstaged", "staged", "uncertain", "published"}

\* The volume may have a node publish attempt behind it.
Attachable == {"staged", "uncertain", "published"}

TypeOK ==
    /\ state \in [Vols -> States]
    /\ mounted \subseteq Vols

Init ==
    /\ state = [v \in Vols |-> "unstaged"]
    /\ mounted = {}

Stage(v) ==
    /\ state[v] = "unstaged"
    /\ v \notin mounted
    /\ state' = [state EXCEPT ![v] = "staged"]
    /\ UNCHANGED mounted

Mount(v) ==
    /\ state[v] \in Attachable
    /\ v \notin mounted
    /\ mounted' = mounted \cup {v}
    /\ UNCHANGED state

Unmount(v) ==
    /\ state[v] \in Attachable
    /\ v \in mounted
    /\ mounted' = mounted \ {v}
    /\ UNCHANGED state

PublishOk(v) ==
    /\ state[v] \in Attachable
    /\ v \in mounted
    /\ state' = [state EXCEPT ![v] = "published"]
    /\ UNCHANGED mounted

PublishFail(v) ==
    /\ state[v] \in Attachable
    /\ state' = [state EXCEPT ![v] = "uncertain"]
    /\ UNCHANGED mounted

UnpublishOk(v) ==
    /\ state[v] \in {"uncertain", "published"}
    /\ v \notin mounted
    /\ state' = [state EXCEPT ![v] = "staged"]
    /\ UNCHANGED mounted

UnstageOk(v) ==
    /\ state[v] = "staged"
    /\ v \notin mounted
    /\ state' = [state EXCEPT ![v] = "unstaged"]
    /\ UNCHANGED mounted

Next ==
    \E v \in Vols :
        \/ Stage(v) \/ Mount(v) \/ Unmount(v) \/ PublishOk(v)
        \/ PublishFail(v) \/ UnpublishOk(v) \/ UnstageOk(v)

Spec == Init /\ [][Next]_vars

\* A target path carries a mount only while the orchestrator holds the
\* volume staged (or past it): no mount outlives a successful unstage and
\* none is made before the stage.
MountedAttachable == \A v \in mounted : state[v] \in Attachable

=============================================================================
