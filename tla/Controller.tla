------------------------------ MODULE Controller ------------------------------
(***************************************************************************)
(* The controller front end (src/service/controller.go): CreateVolume,    *)
(* DeleteVolume, ControllerPublishVolume and ControllerUnpublishVolume.    *)
(* Each handler validates the request, builds the back end named by the   *)
(* storage protocol and dispatches to it; CreateVolume appends "$$" and   *)
(* the protocol to the id the back end returns, and the other handlers    *)
(* split the handle again to route.  The back ends are not under src/:    *)
(* they are modelled by their effect on the array (a volume created,      *)
(* deleted, attached to or detached from a node) or by a failure.  The    *)
(* orchestrator is the CSI external provisioner and attacher: it keeps    *)
(* the handles CreateVolume returned, publishes and unpublishes them, and *)
(* drops a handle once DeleteVolume on it succeeded.                       *)
(***************************************************************************)
EXTENDS VolumeHandle

CONSTANTS
    Ids,        \* volume ids the array may allocate
    Protos,     \* storage_protocol values NewStorageController has a back end for
    ProtoNames, \* storage_protocol values a StorageClass may name
    Nodes,      \* node ids validateNodeID accepts
    StaticHandles \* volumeHandle values an administrator may write into a
                  \* pre-provisioned PersistentVolume

\* An array volume id is never empty.
ASSUME IdsNonEmpty == <<>> \notin Ids

\* A VolumeCapability: whether it has an access mode, and its access type.
Capability == [access : BOOLEAN, type : {"block", "mount"}]

\* validateCapabilities: every capability has an access mode, and block and
\* mount are not both requested.
ValidateCapabilities(caps) ==
    /\ \A c \in caps : c.access
    /\ ~(\E c, d \in caps : c.type = "block" /\ d.type = "mount")

\* NewStorageController (not under src/): a back end for a known protocol.
NewStorageController(proto) == proto \in Protos

VARIABLES
    vols,     \* volumes on the array: [id, proto] of the back end that made it
    held,     \* handles the orchestrator holds, with the volume each was made for
    attached  \* [handle, node] pairs the back end has published

vars == <<vols, held, attached>>

Vol == [id : Ids, proto : ProtoNames]
\* What a pre-provisioned volume was made for: no volume of CreateVolume.
NoVolume == [id |-> <<>>, proto |-> <<>>]

Held == [handle : Seq(STRING), id : Ids, proto : ProtoNames]
          \cup [handle : StaticHandles, id : {<<>>}, proto : {<<>>}]

TypeOK ==
    /\ vols \subseteq Vol
    /\ held \subseteq Held
    /\ attached \subseteq [handle : Seq(STRING), node : Nodes]

Init == vols = {} /\ held = {} /\ attached = {}

-----------------------------------------------------------------------------
\* CreateVolume with a non-empty name, parameters and storage_protocol; an
\* empty one, no capability, or invalid capabilities return InvalidArgument,
\* and an unknown protocol Internal, before any back-end call.  The back
\* end allocates a fresh array volume, or fails with nothing created.
CreateVolume(proto, caps) ==
    /\ caps # {}
    /\ ValidateCapabilities(caps)
    /\ NewStorageController(proto)
    /\ \E id \in Ids \ {v.id : v \in vols} :
          /\ vols' = vols \cup {[id |-> id, proto |-> proto]}
          /\ held' = held \cup {[handle |-> HandleOf(id, proto),
                                 id |-> id, proto |-> proto]}
    /\ UNCHANGED attached

\* The orchestrator takes up a pre-provisioned PersistentVolume: it holds
\* its handle, which CreateVolume did not build.
StaticProvision(h) ==
    /\ held' = held \cup {[handle |-> h, id |-> NoVolume.id, proto |-> NoVolume.proto]}
    /\ UNCHANGED <<vols, attached>>

\* Mutant: the back end is handed the whole handle, as if the assignment
\* req.VolumeId = volproto.VolumeID before storageController.DeleteVolume
\* were missing.
DeleteVolumeWholeHandle(e) ==
    LET p == ValidateVolumeID(e.handle) IN
    /\ ~\E a \in attached : a.handle = e.handle
    /\ \/ ~p.ok /\ UNCHANGED vols
       \/ /\ p.ok
          /\ NewStorageController(p.StorageType)
          /\ vols' = vols \ {[id |-> e.handle, proto |-> p.StorageType]}
    /\ held' = held \ {e}
    /\ UNCHANGED attached

\* DeleteVolume of a handle the orchestrator holds and no node has
\* published.  A handle validateVolumeID rejects is reported deleted with
\* no back-end call; an unknown protocol is an Internal error; otherwise the
\* back end deletes the volume the stripped id names (a missing one counts
\* as deleted), or fails and the orchestrator retries.
DeleteVolume(e) ==
    LET p == ValidateVolumeID(e.handle) IN
    /\ ~\E a \in attached : a.handle = e.handle
    /\ \/ ~p.ok /\ UNCHANGED vols
       \/ /\ p.ok
          /\ NewStorageController(p.StorageType)
          /\ vols' = vols \ {[id |-> p.VolumeID, proto |-> p.StorageType]}
    /\ held' = held \ {e}
    /\ UNCHANGED attached

\* ControllerPublishVolume: a handle validateVolumeID rejects is NotFound,
\* an unknown protocol Internal; otherwise the back end, given the whole
\* handle, publishes the volume to the node, or fails.
ControllerPublish(e, n) ==
    LET p == ValidateVolumeID(e.handle) IN
    /\ p.ok
    /\ NewStorageController(p.StorageType)
    /\ attached' = attached \cup {[handle |-> e.handle, node |-> n]}
    /\ UNCHANGED <<vols, held>>

\* ControllerUnpublishVolume: the same checks, then the back end detaches.
ControllerUnpublish(a) ==
    LET p == ValidateVolumeID(a.handle) IN
    /\ p.ok
    /\ NewStorageController(p.StorageType)
    /\ attached' = attached \ {a}
    /\ UNCHANGED <<vols, held>>

Next ==
    \/ \E proto \in ProtoNames, caps \in SUBSET Capability : CreateVolume(proto, caps)
    \/ \E h \in StaticHandles : StaticProvision(h)
    \/ \E e \in held : DeleteVolume(e)
    \/ \E e \in held, n \in Nodes : ControllerPublish(e, n)
    \/ \E a \in attached : ControllerUnpublish(a)

Spec == Init /\ [][Next]_vars

-----------------------------------------------------------------------------
(* Properties.                                                             *)

\* Spec 6 and 8.4: once DeleteVolume reports success for a handle that
\* CreateVolume returned, the volume it was made for is gone from the
\* array.  It rests on validateVolumeID undoing CreateVolume's "$$" suffix,
\* on DeleteVolume handing the back end the stripped id and on the back end
\* chosen by the protocol being the one that created the volume.
DeleteRemovesVolume ==
    [][\A e \in held \ held' : [id |-> e.id, proto |-> e.proto] \notin vols']_vars

=============================================================================
