---------------------------- MODULE MCSupervisor ----------------------------
(***************************************************************************)
(* Instances of Supervisor, with its refinement mapping, for TLC.          *)
(***************************************************************************)
EXTENDS SupervisorRefinement, TLC

\* Pids are interchangeable: nothing but equality is asked of them.
PidSymmetry == Permutations(Pids)

\* Both files configured, with every combination of startup check and
\* auto-restart, and the bare configuration.
MainConfigs ==
  [checked : BOOLEAN, pidFile : {TRUE}, statusFile : {TRUE},
   autoRestart : BOOLEAN]
    \cup [checked : {FALSE}, pidFile : {FALSE}, statusFile : {FALSE},
          autoRestart : {FALSE}]
=============================================================================
