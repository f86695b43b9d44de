------------------------------ MODULE NodeStage ------------------------------
(***************************************************************************)
(* The array-side half of NodeStageVolume (src/storage/iscsinode.go): it  *)
(* registers this node's initiator as a port of its host object on the    *)
(* array and sets the host's CHAP posture to the volume's useCHAP.  Its   *)
(* view of the array is the publish context (hostPorts, securityMethod)   *)
(* that ControllerPublishVolume captured; the orchestrator passes the     *)
(* same context on every retry.  Volumes of one node share one host       *)
(* object, so their stages race on its port list and posture.             *)
(***************************************************************************)
EXTENDS Naturals

CONSTANTS
    Vols,     \* volumes staged on this node
    Configs   \* the admissible assignments of a useCHAP to every volume

UseChap == {"none", "chap", "mutual_chap"}

\* The host's securityMethod on the array, and the posture each useCHAP asks for.
Security == {"NONE", "CHAP", "MUTUAL_CHAP"}
Posture == [none |-> "NONE", chap |-> "CHAP", mutual_chap |-> "MUTUAL_CHAP"]

\* strings.ToLower of a securityMethod.
Lower == [s \in Security |-> CASE s = "NONE" -> "none"
                               [] s = "CHAP" -> "chap"
                               [] s = "MUTUAL_CHAP" -> "mutual_chap"]

\* Secret keys present: "in" for node.session.auth.username/password,
\* "out" for node.session.auth.username_in/password_in.
Creds == SUBSET {"in", "out"}

NoCtx == [ports |-> FALSE, sec |-> "none"]
Ctx == [ports : BOOLEAN, sec : Security]

ASSUME ConfigAssumption == Configs \subseteq [Vols -> UseChap] /\ Configs # {}

VARIABLES
    portReg,  \* the node's initiator is a port of its host object on the array
    sec,      \* the host object's securityMethod on the array
    useChap,  \* useChap[v]: the useCHAP of v's volume context (fixed)
    creds,    \* creds[v]: the CHAP secret pairs v's stage secrets hold (fixed)
    pctx,     \* pctx[v]: v's publish context, or NoCtx before ControllerPublishVolume
    staged,   \* staged[v]: NodeStageVolume last returned success for v
    pc        \* pc[v]: the step of v's NodeStageVolume, "idle" if none

vars == <<portReg, sec, useChap, creds, pctx, staged, pc>>

TypeOK ==
    /\ portReg \in BOOLEAN
    /\ sec \in Security
    /\ useChap \in Configs
    /\ creds \in [Vols -> Creds]
    /\ pctx \in [Vols -> Ctx \cup {NoCtx}]
    /\ staged \in [Vols -> BOOLEAN]
    /\ pc \in [Vols -> {"idle", "addPort", "chap"}]

Init ==
    /\ portReg \in BOOLEAN
    /\ sec \in Security
    /\ useChap \in Configs
    /\ creds \in [Vols -> Creds]
    /\ pctx = [v \in Vols |-> NoCtx]
    /\ staged = [v \in Vols |-> FALSE]
    /\ pc = [v \in Vols |-> "idle"]

-----------------------------------------------------------------------------
StageOk(v) == /\ pc' = [pc EXCEPT ![v] = "idle"]
              /\ staged' = [staged EXCEPT ![v] = TRUE]

StageErr(v) == pc' = [pc EXCEPT ![v] = "idle"] /\ UNCHANGED staged

\* ControllerPublishVolume (its back end is not under src/) reads the host
\* object and hands its port list and securityMethod to the node as the
\* publish context.
ControllerPublish(v) ==
    /\ pctx[v] = NoCtx
    /\ pctx' = [pctx EXCEPT ![v] = [ports |-> portReg, sec |-> sec]]
    /\ UNCHANGED <<portReg, sec, useChap, creds, staged, pc>>

\* ControllerUnpublishVolume after the node has unstaged: the context is
\* dropped and a later publish captures a new one.
ControllerUnpublish(v) ==
    /\ pctx[v] # NoCtx
    /\ pc[v] = "idle"
    /\ ~staged[v]
    /\ pctx' = [pctx EXCEPT ![v] = NoCtx]
    /\ UNCHANGED <<portReg, sec, useChap, creds, staged, pc>>

\* NodeStageVolume, up to the port check: the orchestrator calls it (again)
\* for a published volume that is not staged; a host port is added when the
\* context's port list lacks the initiator.  A hostID that does not parse or
\* is < 1, and getInitiatorName returning "" (no file, no InitiatorName=
\* line, or its recovered arr[1] panic), fail the stage before any array
\* call: a step that changes nothing here.
StageStart(v) ==
    /\ pc[v] = "idle"
    /\ pctx[v] # NoCtx
    /\ ~staged[v]
    /\ pc' = [pc EXCEPT ![v] = IF pctx[v].ports THEN "chap" ELSE "addPort"]
    /\ UNCHANGED <<portReg, sec, useChap, creds, pctx, staged>>

\* cs.AddPortForHost(hostID, "ISCSI", initiatorName).
AddPort(v) ==
    /\ pc[v] = "addPort"
    /\ \/ /\ portReg' = TRUE
          /\ pc' = [pc EXCEPT ![v] = "chap"]
          /\ UNCHANGED staged
       \/ StageErr(v) /\ UNCHANGED portReg
    /\ UNCHANGED <<sec, useChap, creds, pctx>>

\* Mutant: the comparison with the context inverted.
NeedPostureInverted(v) == ~(Lower[pctx[v].sec] # useChap[v] \/ ~pctx[v].ports)

\* The posture is revisited when the context's securityMethod differs from
\* useCHAP or the port was missing from the context.
NeedPosture(v) == Lower[pctx[v].sec] # useChap[v] \/ ~pctx[v].ports

\* The secrets hold the pairs the requested posture needs.
CredsOk(v) ==
    /\ useChap[v] \in {"chap", "mutual_chap"} => "in" \in creds[v]
    /\ useChap[v] = "mutual_chap" => "out" \in creds[v]

\* Revisiting the posture calls AddChapSecurityForHost, except for "none"
\* when the context already says NONE.
Pushes(v) == NeedPosture(v) /\ ~(useChap[v] = "none" /\ pctx[v].sec = "NONE")

\* The CHAP block: check the secrets for chap / mutual_chap, then one
\* AddChapSecurityForHost call with the requested securityMethod.
Chap(v) ==
    /\ pc[v] = "chap"
    /\ \/ ~Pushes(v) /\ StageOk(v) /\ UNCHANGED sec
       \/ Pushes(v) /\ ~CredsOk(v) /\ StageErr(v) /\ UNCHANGED sec
       \/ /\ Pushes(v) /\ CredsOk(v)
          /\ \/ sec' = Posture[useChap[v]] /\ StageOk(v)
             \/ StageErr(v) /\ UNCHANGED sec
    /\ UNCHANGED <<portReg, useChap, creds, pctx>>

\* NodeUnstageVolume leaves the array alone.
Unstage(v) ==
    /\ pc[v] = "idle"
    /\ staged[v]
    /\ staged' = [staged EXCEPT ![v] = FALSE]
    /\ UNCHANGED <<portReg, sec, useChap, creds, pctx, pc>>

Next ==
    \E v \in Vols :
        \/ ControllerPublish(v) \/ ControllerUnpublish(v)
        \/ StageStart(v) \/ AddPort(v) \/ Chap(v)
        \/ Unstage(v)

Spec == Init /\ [][Next]_vars

-----------------------------------------------------------------------------
(* Properties.                                                             *)

\* Spec 4.6 Stage step 4: when NodeStageVolume reports success, the host's
\* posture on the array is the one the volume's useCHAP asks for; the code
\* decides from the securityMethod in the publish context, which another
\* volume's stage may have made stale.
StagePosture ==
    [][\A v \in Vols : (~staged[v] /\ staged'[v]) => sec' = Posture[useChap[v]]]_vars

=============================================================================
