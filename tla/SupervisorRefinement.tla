------------------------ MODULE SupervisorRefinement ------------------------
(***************************************************************************)
(* Supervisor implements GracefulRestart.  A worker of the abstract        *)
(* specification is a running process, under the generation it was given   *)
(* in its environment; an exit is the process's own, long before its       *)
(* waiter reaps it and loop hears of it.                                   *)
(***************************************************************************)
EXTENDS Supervisor

\* The run serves from the launch of loop until it decides to shut down.
Life ==
  IF pc \in Released THEN "closed"
  ELSE IF pc \in {"shutdown", "drain", "reap"} THEN "stopping"
  ELSE IF phase = "setup" THEN "new" ELSE "open"

\* The generations of the running processes among ws.
Generations(ws) == {genOf[w] : w \in {v \in ws : Running(v)}}

\* The generation of process w, 0 if it is nil or no longer runs.
GenerationOf(w) == IF w # NoPid /\ Running(w) THEN genOf[w] ELSE 0

Current == IF Life = "open" THEN GenerationOf(p) ELSE 0
Candidate == GenerationOf(probing)

\* Once the run is over, or about to be, all its workers are old.
Draining == Generations(IF Life = "open" THEN Entries(oldWorkers) ELSE Pids)

Told == Generations({w \in Pids : signals[w] # {}})
Killed == Generations({w \in Pids : "KILL" \in signals[w]})

\* A restart is in progress from the moment the current worker has become an
\* old one until the old ones are signalled.
InRestart ==
  IF pc = "kill" THEN "up"
  ELSE IF pc \in Starting /\ phase = "restart" THEN "begun" ELSE "none"

\* A request waits in the hangup channel or in hangupPending.
Owed == Life = "open" /\ (hangup \/ hangupPending)

GR == INSTANCE GracefulRestart WITH
  life <- Life, cancelled <- ctxDone, latest <- generation,
  current <- Current, candidate <- Candidate, draining <- Draining,
  told <- Told, killed <- Killed, restart <- InRestart, owed <- Owed

\* Every step of a run, seen through this mapping, is a step of the abstract
\* specification or changes nothing it speaks of.
ImplementsGracefulRestart == GR!Spec

\* What the abstract specification gives of the processes: one that serves or
\* is being brought up is never signalled, nor is an old one in a restart before
\* its successor is up, and old workers have older generations than both.
OrderlyWorkers == GR!Orderly
=============================================================================
