--------------------------- MODULE Controller_proofs ---------------------------
(***************************************************************************)
(* Proofs about the controller front end, for any ids, protocols, nodes   *)
(* and pre-provisioned handles: when every handle CreateVolume can build  *)
(* splits back into its id and protocol, as for the decimal ids of the    *)
(* array, no DeleteVolume reports deleted a volume that is still there.   *)
(***************************************************************************)
EXTENDS Controller, TLAPS

\* validateVolumeID undoes CreateVolume's suffix for every id the array may
\* allocate and every protocol with a back end.
HandlesRoundTrip ==
    \A id \in Ids, p \in Protos :
        ValidateVolumeID(HandleOf(id, p)) = [ok |-> TRUE, VolumeID |-> id, StorageType |-> p]

\* The array holds volumes of allocatable ids, and every handle the
\* orchestrator holds is either the one CreateVolume built for an
\* allocatable id and a protocol with a back end, or a pre-provisioned one
\* made for no volume.
HeldInv ==
    /\ vols \subseteq Vol
    /\ \A e \in held :
          \/ e.id \in Ids /\ e.proto \in Protos /\ e.handle = HandleOf(e.id, e.proto)
          \/ e.id = NoVolume.id /\ e.proto = NoVolume.proto

LEMMA InitHeldInv == Init => HeldInv
BY DEF Init, HeldInv

\* CreateVolume adds the handle it built and StaticProvision one made for no
\* volume; the other handlers add none.
LEMMA HeldInvStep == HeldInv /\ [Next]_vars => HeldInv'
<1> SUFFICES ASSUME HeldInv, [Next]_vars PROVE HeldInv'
  OBVIOUS
<1>1. ASSUME NEW proto \in ProtoNames, NEW caps \in SUBSET Capability,
             CreateVolume(proto, caps)
      PROVE  HeldInv'
  <2>1. PICK id \in Ids \ {v.id : v \in vols} :
          /\ vols' = vols \cup {[id |-> id, proto |-> proto]}
          /\ held' = held \cup {[handle |-> HandleOf(id, proto), id |-> id, proto |-> proto]}
    BY <1>1 DEF CreateVolume
  <2>2. proto \in Protos
    BY <1>1 DEF CreateVolume, NewStorageController
  <2>3. QED
    BY <2>1, <2>2 DEF HeldInv, Vol
<1>2. ASSUME NEW h \in StaticHandles, StaticProvision(h) PROVE HeldInv'
  BY <1>2 DEF StaticProvision, HeldInv
<1>3. ASSUME NEW e \in held, DeleteVolume(e) PROVE HeldInv'
  BY <1>3 DEF DeleteVolume, HeldInv
<1>4. ASSUME NEW e \in held, NEW n \in Nodes, ControllerPublish(e, n) PROVE HeldInv'
  BY <1>4 DEF ControllerPublish, HeldInv
<1>5. ASSUME NEW a \in attached, ControllerUnpublish(a) PROVE HeldInv'
  BY <1>5 DEF ControllerUnpublish, HeldInv
<1>6. CASE UNCHANGED vars
  BY <1>6 DEF vars, HeldInv
<1>7. QED
  BY <1>1, <1>2, <1>3, <1>4, <1>5, <1>6 DEF Next

\* Given the round trip, one step drops a handle only in DeleteVolume of
\* that handle, which deletes exactly the volume the handle was made for.
LEMMA DeleteStep ==
    HandlesRoundTrip /\ HeldInv /\ [Next]_vars
      => \A e \in held \ held' : [id |-> e.id, proto |-> e.proto] \notin vols'
<1> SUFFICES ASSUME HandlesRoundTrip, HeldInv, [Next]_vars,
                    NEW f \in held \ held'
             PROVE  [id |-> f.id, proto |-> f.proto] \notin vols'
  OBVIOUS
<1>1. PICK e \in held : DeleteVolume(e)
  \* Every other handler, and a stutter, leaves held as it is or enlarges it.
  BY DEF Next, vars, CreateVolume, StaticProvision, ControllerPublish, ControllerUnpublish
<1>2. f = e
  BY <1>1 DEF DeleteVolume
<1>3. CASE e.id \in Ids /\ e.proto \in Protos /\ e.handle = HandleOf(e.id, e.proto)
  <2>1. ValidateVolumeID(e.handle) = [ok |-> TRUE, VolumeID |-> e.id, StorageType |-> e.proto]
    BY <1>3 DEF HandlesRoundTrip
  <2>2. vols' = vols \ {[id |-> e.id, proto |-> e.proto]}
    BY <1>1, <2>1 DEF DeleteVolume
  <2>3. QED
    BY <1>2, <2>2
<1>4. CASE e.id = NoVolume.id /\ e.proto = NoVolume.proto
  <2>1. vols' \subseteq vols
    BY <1>1 DEF DeleteVolume
  <2>2. [id |-> e.id, proto |-> e.proto] \notin Vol
    BY <1>4, IdsNonEmpty DEF NoVolume, Vol
  <2>3. QED
    BY <1>2, <2>1, <2>2 DEF HeldInv
<1>5. QED
  BY <1>3, <1>4 DEF HeldInv

\* Spec 6 with spec 8.4: once DeleteVolume has reported success for a
\* handle CreateVolume returned, the array no longer holds its volume, for
\* any ids, protocols, nodes and pre-provisioned handles, provided every
\* handle splits back into (id, protocol), as a decimal id's does.
THEOREM DeleteRemovesVolumeHolds == HandlesRoundTrip => (Spec => DeleteRemovesVolume)
<1> SUFFICES ASSUME HandlesRoundTrip PROVE Spec => DeleteRemovesVolume
  OBVIOUS
<1>1. HeldInv /\ [Next]_vars
        => [\A e \in held \ held' : [id |-> e.id, proto |-> e.proto] \notin vols']_vars
  BY DeleteStep
<1>2. QED
  BY InitHeldInv, HeldInvStep, <1>1, PTL DEF Spec, DeleteRemovesVolume

=============================================================================
