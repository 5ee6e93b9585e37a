----------------------------- MODULE MCWorkerEnv -----------------------------
(* An envdir of three names: a variable of the protocol, which an outer      *)
(* start_server has set too, the readiness descriptor, which stands for any  *)
(* ordinary variable as well, and a file that begins with a dot.             *)
EXTENDS WorkerEnv
CONSTANTS GENERATION, READY_FD, dot
MCNames == {GENERATION, READY_FD, dot}
MCDotFiles == {dot}
MCProtocol == {GENERATION}
MCAmbient == {GENERATION, READY_FD}
=============================================================================
