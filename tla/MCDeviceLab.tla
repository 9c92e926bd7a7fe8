----------------------------- MODULE MCDeviceLab -----------------------------
(* A small instance of DeviceLab.  Its run checks liveness, hence no         *)
(* symmetry.                                                                 *)
EXTENDS DeviceLab, TLC
=============================================================================
