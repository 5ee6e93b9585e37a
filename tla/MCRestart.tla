------------------------------ MODULE MCRestart ------------------------------
(***************************************************************************)
(* Instances of Restart for TLC.                                           *)
(***************************************************************************)
EXTENDS Restart

\* One configuration, in which every source of a restart exists.
WithTimer ==
  {[checked |-> FALSE, pidFile |-> TRUE, statusFile |-> TRUE, autoRestart |-> TRUE]}
=============================================================================
