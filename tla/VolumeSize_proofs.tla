-------------------------- MODULE VolumeSize_proofs --------------------------
(***************************************************************************)
(* Proofs about verifyVolumeSize for every int64 width and GiB size.      *)
(***************************************************************************)
EXTENDS VolumeSize, TLAPS

USE SizeAssumption

\* Wrap is the identity on the int64 range.
LEMMA WrapId ==
    ASSUME NEW x \in Int64
    PROVE  Wrap(x) = x
BY DEF Wrap, Int64, MinInt

\* Rounding a positive request down to whole GiB, and to at least one GiB,
\* gives a positive multiple of a GiB that fits in int64.
LEMMA RoundDown ==
    ASSUME NEW req \in 1..MaxInt
    PROVE  LET gb0 == req \div BytesOfGiB
               gb == IF gb0 = 0 THEN 1 ELSE gb0
           IN  /\ gb * BytesOfGiB \in 1..MaxInt
               /\ (gb * BytesOfGiB) % BytesOfGiB = 0
<1> DEFINE gb0 == req \div BytesOfGiB
           gb == IF gb0 = 0 THEN 1 ELSE gb0
<1>1. gb0 \in Nat /\ gb0 * BytesOfGiB <= req
  BY SMT
<1>2. gb \in Nat \ {0}
  BY <1>1
<1>3. gb * BytesOfGiB \in 1..MaxInt
  <2>1. CASE gb0 = 0
    BY <2>1
  <2>2. CASE gb0 # 0
    BY <1>1, <2>2, SMT
  <2> QED BY <2>1, <2>2
<1>4. (gb * BytesOfGiB) % BytesOfGiB = 0
  BY <1>2, SMT
<1> QED BY <1>3, <1>4

\* What verifyVolumeSize accepts, for every range of int64 bounds.
LEMMA VerifyVolumeSizeSafe ==
    ASSUME NEW r \in Int64, NEW l \in Int64,
           VerifyVolumeSize(r, l).ok
    PROVE  /\ VerifyVolumeSize(r, l).size \in 1..MaxInt
           /\ VerifyVolumeSize(r, l).size % BytesOfGiB = 0
           /\ l # 0 => VerifyVolumeSize(r, l).size <= l
<1> DEFINE req == IF r = 0 THEN MinVolumeSize ELSE r
           gb0 == req \div BytesOfGiB
           gb == IF gb0 = 0 THEN 1 ELSE gb0
<1>1. r >= 0 /\ l >= 0
  BY DEF VerifyVolumeSize, Err, Int64, MinInt
<1>2. req \in 1..MaxInt
  BY <1>1 DEF MinVolumeSize, Int64, MinInt
<1>3. gb * BytesOfGiB \in 1..MaxInt /\ (gb * BytesOfGiB) % BytesOfGiB = 0
  BY <1>2, RoundDown
<1>4. Wrap(gb * BytesOfGiB) = gb * BytesOfGiB
  BY <1>3, WrapId DEF Int64, MinInt
<1>5. VerifyVolumeSize(r, l)
        = IF l # 0 /\ Wrap(gb * BytesOfGiB) > l THEN Err
          ELSE [ok |-> TRUE, size |-> Wrap(gb * BytesOfGiB)]
  <2>1. ~(r < 0 \/ l < 0)
    BY <1>1 DEF Int64, MinInt
  <2> QED BY <2>1, Zenon DEF VerifyVolumeSize
<1>6. ~(l # 0 /\ gb * BytesOfGiB > l)
  BY <1>4, <1>5 DEF Err
<1>8. l # 0 => gb * BytesOfGiB <= l
  BY <1>3, <1>6 DEF Int64, MinInt
<1>7. VerifyVolumeSize(r, l) = [ok |-> TRUE, size |-> gb * BytesOfGiB]
  BY <1>4, <1>5, <1>6
<1>9. VerifyVolumeSize(r, l).size = gb * BytesOfGiB
  BY <1>7
<1> QED BY <1>3, <1>8, <1>9, Zenon

\* The bounds and the result stay consistent along every run.
Inv == /\ required \in Int64 /\ limit \in Int64
       /\ result = VerifyVolumeSize(required, limit)

LEMMA InvInductive == Spec => []Inv
<1>1. Init => Inv
  BY DEF Init, Inv, Int64, MinInt
<1>2. Inv /\ [Next]_vars => Inv'
  BY DEF Inv, Next, SetRequired, SetLimit, vars
<1> QED BY <1>1, <1>2, PTL DEF Spec

\* Every size verifyVolumeSize returns is positive, whole GiB, within a
\* non-zero LimitBytes and free of int64 overflow, whatever the width.
THEOREM SizeWithinLimitHolds == Spec => []SizeWithinLimit
<1>1. Inv => SizeWithinLimit
  BY VerifyVolumeSizeSafe DEF Inv, SizeWithinLimit
<1> QED BY <1>1, InvInductive, PTL
=============================================================================
