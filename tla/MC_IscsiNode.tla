---------------------------- MODULE MC_IscsiNode ----------------------------
(* Model-checking instance of IscsiNode: two volumes behind one portal    *)
(* group, so that their attaches share the iface and the session.         *)
EXTENDS IscsiNode, TLC

CONSTANTS v1, v2, t1

MCVols == {v1, v2}
MCTargets == {t1}
MCVolTarget == [v \in MCVols |-> t1]

MCModesBoth  == {"file", "block"}
MCModesFile  == {"file"}
MCModesBlock == {"block"}

\* Kubelet's handling of a failed NodePublishVolume.  Every error of the
\* handler is codes.Internal, which kubelet treats as final: it records the
\* target as not mounted (not as uncertain), so it never unpublishes that
\* target and may go on to NodeUnstageVolume once no pod needs the volume.
\* The unstage_final run substitutes this for PublishErr.
MCPublishErrFinal(v) == Return(v, "staged")

\* The volumes are interchangeable: both name the same portal group.
MCSymmetry == Permutations(MCVols)
=============================================================================
