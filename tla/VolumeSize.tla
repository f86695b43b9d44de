----------------------------- MODULE VolumeSize -----------------------------
(***************************************************************************)
(* verifyVolumeSize (src/storage/storagehelper.go): the size in bytes a   *)
(* volume is created with, from a CSI CapacityRange.  Sizes are int64:    *)
(* the width is a constant, MaxInt = 2^63 - 1 in the code, and products   *)
(* wrap around as Go's do.  BytesOfGiB is 2^30 in the code.               *)
(***************************************************************************)
EXTENDS Integers

CONSTANTS
    MaxInt,      \* the largest int64
    BytesOfGiB   \* bytesofGiB = kiBytesofGiB * bytesofKiB

ASSUME SizeAssumption ==
    /\ MaxInt \in Nat \ {0}
    /\ BytesOfGiB \in 1..MaxInt

MinInt == -MaxInt - 1
Int64 == MinInt..MaxInt

\* Two's-complement wrap-around of an int64 result.
Wrap(x) == ((x - MinInt) % (2 * (MaxInt + 1))) + MinInt

\* MinVolumeSize = 1 * bytesofGiB.
MinVolumeSize == BytesOfGiB

Err == [ok |-> FALSE, size |-> 0]

\* Mutant: rounding the request up to whole GiB instead of down.
VerifyVolumeSizeRoundUp(required, limit) ==
    IF required < 0 \/ limit < 0 THEN Err
    ELSE LET req == IF required = 0 THEN MinVolumeSize ELSE required
             gb0 == Wrap(req + BytesOfGiB - 1) \div BytesOfGiB
             gb == IF gb0 = 0 THEN 1 ELSE gb0
             bytes == Wrap(gb * BytesOfGiB)
         IN IF limit # 0 /\ bytes > limit THEN Err ELSE [ok |-> TRUE, size |-> bytes]

\* Negative sizes are rejected, 0 means MinVolumeSize, the request is cut
\* to whole GiB (at least one), and a non-zero limit below that is an error.
VerifyVolumeSize(required, limit) ==
    IF required < 0 \/ limit < 0 THEN Err
    ELSE LET req == IF required = 0 THEN MinVolumeSize ELSE required
             gb0 == req \div BytesOfGiB
             gb == IF gb0 = 0 THEN 1 ELSE gb0
             bytes == Wrap(gb * BytesOfGiB)
         IN IF limit # 0 /\ bytes > limit THEN Err ELSE [ok |-> TRUE, size |-> bytes]

VARIABLES
    required,  \* CapacityRange.RequiredBytes of the request
    limit,     \* CapacityRange.LimitBytes of the request
    result     \* what verifyVolumeSize returns for them

vars == <<required, limit, result>>

Init ==
    /\ required = 0
    /\ limit = 0
    /\ result = VerifyVolumeSize(0, 0)

\* A request that differs from the last in one bound of its range.
SetRequired(r) ==
    /\ required' = r
    /\ result' = VerifyVolumeSize(r, limit)
    /\ UNCHANGED limit

SetLimit(l) ==
    /\ limit' = l
    /\ result' = VerifyVolumeSize(required, l)
    /\ UNCHANGED required

Next == \E n \in Int64 : SetRequired(n) \/ SetLimit(n)

Spec == Init /\ [][Next]_vars

-----------------------------------------------------------------------------
\* A size verifyVolumeSize accepts is positive, whole GiB, no larger than a
\* non-zero LimitBytes, and was computed without int64 overflow (a wrapped
\* product would be negative or would break one of the other clauses).
SizeWithinLimit ==
    result.ok =>
        /\ result.size \in 1..MaxInt
        /\ result.size % BytesOfGiB = 0
        /\ limit # 0 => result.size <= limit

=============================================================================
