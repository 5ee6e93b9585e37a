----------------------------- MODULE MCHandover -----------------------------
(***************************************************************************)
(* An instance of Handover for TLC.                                        *)
(***************************************************************************)
EXTENDS Handover, TLC

HandoverSymmetry == Permutations(Supervisors)
=============================================================================
