--------------------------- MODULE NodeStage_proofs ---------------------------
(***************************************************************************)
(* When every volume of the node asks for the same useCHAP, a successful  *)
(* NodeStageVolume always leaves the host in that posture, for any number *)
(* of volumes: a stale publish context is then harmless, because the only *)
(* posture any stage pushes is the one all contexts agree on.             *)
(***************************************************************************)
EXTENDS NodeStage, TLAPS

\* One StorageClass: every admissible configuration gives all volumes the
\* same useCHAP.
Uniform == \A c \in Configs : \A v, w \in Vols : c[v] = c[w]

\* A volume's context either still shows the host's posture, or the host is
\* already in the posture the volume asks for; a stage in flight has a context.
CtxInv ==
    \A v \in Vols :
        /\ pctx[v] # NoCtx => pctx[v].sec = sec \/ sec = Posture[useChap[v]]
        /\ pc[v] # "idle" => pctx[v] # NoCtx

IInv == TypeOK /\ CtxInv

USE ConfigAssumption

LEMMA InitIInv == Init => IInv
BY DEF Init, IInv, TypeOK, CtxInv, Ctx, NoCtx

LEMMA TypeStep == TypeOK /\ [Next]_vars => TypeOK'
<1> SUFFICES ASSUME TypeOK, [Next]_vars PROVE TypeOK'
  OBVIOUS
<1>1. CASE UNCHANGED vars
  BY <1>1 DEF vars, TypeOK
<1>2. ASSUME NEW v \in Vols, ControllerPublish(v) PROVE TypeOK'
  BY <1>2 DEF TypeOK, ControllerPublish, Ctx
<1>3. ASSUME NEW v \in Vols, ControllerUnpublish(v) PROVE TypeOK'
  BY <1>3 DEF TypeOK, ControllerUnpublish
<1>4. ASSUME NEW v \in Vols, StageStart(v) PROVE TypeOK'
  BY <1>4 DEF TypeOK, StageStart
<1>5. ASSUME NEW v \in Vols, AddPort(v) PROVE TypeOK'
  BY <1>5 DEF TypeOK, AddPort, StageErr
<1>6. ASSUME NEW v \in Vols, Chap(v) PROVE TypeOK'
  <2>1. Posture[useChap[v]] \in Security
    BY DEF TypeOK, Posture, UseChap, Security
  <2> QED BY <1>6, <2>1 DEF TypeOK, Chap, StageOk, StageErr
<1>7. ASSUME NEW v \in Vols, Unstage(v) PROVE TypeOK'
  BY <1>7 DEF TypeOK, Unstage
<1> QED BY <1>1, <1>2, <1>3, <1>4, <1>5, <1>6, <1>7 DEF Next

\* The posture a context already matching useCHAP shows is useCHAP's posture.
LEMMA LowerPosture ==
    ASSUME NEW s \in Security, NEW m \in UseChap, Lower[s] = m
    PROVE  s = Posture[m]
BY DEF Lower, Posture, Security, UseChap

LEMMA IInvStep == Uniform /\ IInv /\ [Next]_vars => IInv'
<1> SUFFICES ASSUME Uniform, IInv, [Next]_vars PROVE IInv'
  OBVIOUS
<1>0. TypeOK'
  BY TypeStep DEF IInv
<1>u. \A v, w \in Vols : useChap[v] = useChap[w]
  BY DEF Uniform, IInv, TypeOK
<1>1. CASE UNCHANGED vars
  BY <1>1, <1>0 DEF vars, IInv, CtxInv
<1>2. ASSUME NEW v \in Vols, ControllerPublish(v) PROVE IInv'
  BY <1>2, <1>0 DEF ControllerPublish, IInv, CtxInv, TypeOK, NoCtx
<1>3. ASSUME NEW v \in Vols, ControllerUnpublish(v) PROVE IInv'
  BY <1>3, <1>0 DEF ControllerUnpublish, IInv, CtxInv, TypeOK
<1>4. ASSUME NEW v \in Vols, StageStart(v) PROVE IInv'
  BY <1>4, <1>0 DEF StageStart, IInv, CtxInv, TypeOK
<1>5. ASSUME NEW v \in Vols, AddPort(v) PROVE IInv'
  BY <1>5, <1>0 DEF AddPort, StageErr, IInv, CtxInv, TypeOK
<1>6. ASSUME NEW v \in Vols, Chap(v) PROVE IInv'
  <2>1. CASE sec' = sec
    BY <1>6, <2>1, <1>0 DEF Chap, StageOk, StageErr, IInv, CtxInv, TypeOK
  <2>2. CASE sec' = Posture[useChap[v]]
    BY <1>6, <2>2, <1>0, <1>u DEF Chap, StageOk, StageErr, IInv, CtxInv, TypeOK
  <2> QED BY <1>6, <2>1, <2>2 DEF Chap
<1>7. ASSUME NEW v \in Vols, Unstage(v) PROVE IInv'
  BY <1>7, <1>0 DEF Unstage, IInv, CtxInv, TypeOK
<1> QED BY <1>1, <1>2, <1>3, <1>4, <1>5, <1>6, <1>7 DEF Next

\* A step that reports a stage successful leaves the requested posture.
LEMMA PostureStep ==
    IInv /\ [Next]_vars =>
        \A v \in Vols : (~staged[v] /\ staged'[v]) => sec' = Posture[useChap[v]]
<1> SUFFICES ASSUME IInv, [Next]_vars, NEW v \in Vols, ~staged[v], staged'[v]
             PROVE sec' = Posture[useChap[v]]
  OBVIOUS
<1>1. Chap(v)
  BY DEF Next, vars, ControllerPublish, ControllerUnpublish, StageStart,
         AddPort, Chap, Unstage, StageOk, StageErr, IInv, TypeOK
<1>2. pctx[v] \in Ctx /\ useChap[v] \in UseChap
  BY <1>1 DEF Chap, IInv, CtxInv, TypeOK, NoCtx
<1>3. CASE ~Pushes(v)
  <2>1. pctx[v].sec = Posture[useChap[v]]
    <3>1. CASE ~NeedPosture(v)
      BY <1>2, <3>1, LowerPosture DEF NeedPosture, Ctx
    <3>2. CASE NeedPosture(v)
      BY <1>3, <3>2 DEF Pushes, Posture
    <3> QED BY <3>1, <3>2
  <2>2. sec' = sec
    BY <1>1, <1>3 DEF Chap, StageErr
  <2> QED BY <1>1, <2>1, <2>2 DEF IInv, CtxInv, NoCtx, Chap
<1>4. CASE Pushes(v)
  BY <1>1, <1>4 DEF Chap, StageErr
<1> QED BY <1>3, <1>4

\* A uniform useCHAP makes StagePosture hold: every successful stage leaves
\* the host in the posture the volumes ask for, however contexts go stale.
THEOREM SameChapPosture == Uniform => (Spec => StagePosture)
<1> SUFFICES ASSUME Uniform PROVE Spec => StagePosture
  OBVIOUS
<1>1. Spec => []IInv
  BY InitIInv, IInvStep, PTL DEF Spec
<1> QED BY <1>1, PostureStep, PTL DEF Spec, StagePosture
=============================================================================
