---------------------------- MODULE MC_VolumeSize ----------------------------
(* verifyVolumeSize at a 6-bit width with a 4-byte "GiB": every range of   *)
(* two such integers, the overflow boundary included.                     *)
EXTENDS VolumeSize

MCMaxInt == 31
MCBytesOfGiB == 4
=============================================================================
