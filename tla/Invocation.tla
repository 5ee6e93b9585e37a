----------------------------- MODULE Invocation -----------------------------
(***************************************************************************)
(* One invocation of start_server, from its command line to the files that *)
(* it names: Settings decides what is to be done; a supervisor then looks  *)
(* for the worker's command and starts it (CommandPath), and --stop and    *)
(* --restart look for the pid file (ControlPath).                          *)
(***************************************************************************)
EXTENDS Settings, CommandPath, ControlPath

invocationVars == <<vars, commandVars, controlVars>>

InvocationInit == Init /\ CommandInit /\ ControlInit

\* The part of run before NewStarter.
Configure ==
  /\ Validate \/ Resolve
  /\ UNCHANGED <<commandVars, controlVars>>

\* NewStarter, which fails if it does not find the command; the log file may fail
\* the command line before.
CreateStarter ==
  /\ NewStarter /\ Create
  /\ cpc' = "rejected" => pc' = "failed"
  /\ UNCHANGED controlVars

\* The supervisor starts the worker, and inspects a command that cannot be executed.
StartWorker ==
  /\ pc = "supervise" /\ (Start \/ Inspect)
  /\ UNCHANGED <<vars, controlVars>>

\* control.Stop and control.Restart open the directory of the pid file.
OpenControlDirectory ==
  /\ pc = "control" /\ ControlNext
  /\ UNCHANGED <<vars, commandVars>>

Over ==
  /\ pc = "failed" \/ cpc \in {"inspected", "unstarted"}
  /\ UNCHANGED invocationVars

InvocationNext ==
  Configure \/ CreateStarter \/ StartWorker \/ OpenControlDirectory \/ Over

InvocationSpec == InvocationInit /\ [][InvocationNext]_invocationVars
=============================================================================
