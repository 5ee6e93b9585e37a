--------------------------- MODULE GracefulRestart ---------------------------
(***************************************************************************)
(* What a run of the supervisor promises, seen from outside: which worker  *)
(* processes are running, named by their SERVER_STARTER_GENERATION, and    *)
(* which of them have been signalled.  README.md puts it in a sentence:    *)
(* the superdaemon spawns a new server program and, if it starts up        *)
(* successfully, signals the old one.  Module Supervisor implements this   *)
(* specification (see SupervisorRefinement).                               *)
(***************************************************************************)
EXTENDS Naturals

VARIABLES
  life,       \* "new", "open" (the run serves), "stopping", "closed"
  cancelled,  \* the caller has asked the run to end
  latest,     \* the last generation given out
  current,    \* the generation that serves, 0 if it has died or none is up
  candidate,  \* the generation that is being brought up, 0 for none
  draining,   \* the running workers that have been replaced
  told,       \* the running workers that have been signalled
  killed,     \* the running workers that have been sent SIGKILL
  restart,    \* the restart in progress: "none", "begun", "up"
  owed        \* a restart has been requested and not yet taken up

workers == <<current, candidate, draining>>
vars == <<life, cancelled, latest, workers, told, killed, restart, owed>>

Alive == (draining \cup {current, candidate}) \ {0}

Init ==
  /\ life = "new" /\ cancelled = FALSE /\ latest = 0
  /\ current = 0 /\ candidate = 0 /\ draining = {}
  /\ told = {} /\ killed = {}
  /\ restart = "none" /\ owed = FALSE

\* The listeners are bound and the pid file is held.
Open ==
  /\ life = "new" /\ life' = "open"
  /\ UNCHANGED <<cancelled, latest, workers, told, killed, restart, owed>>

\* With no worker serving, one is started under a generation of its own, or the
\* attempt fails and the generation is used up.
Attempt ==
  /\ life = "open" /\ current = 0 /\ candidate = 0 /\ restart # "up"
  /\ latest' = latest + 1
  /\ candidate' \in {0, latest'}
  /\ UNCHANGED <<life, cancelled, current, draining, told, killed, restart, owed>>

\* The new worker has passed its probe and serves.  After the end of a worker
\* this is all, and it answers a request that came meanwhile; in a restart the
\* old worker is still to be told.
Ready ==
  /\ life = "open" /\ current = 0 /\ (candidate # 0 \/ cancelled)
  /\ current' = candidate /\ candidate' = 0
  /\ restart' = IF restart = "begun" THEN "up" ELSE restart
  /\ owed' \in {owed, owed /\ restart # "none"}
  /\ UNCHANGED <<life, cancelled, latest, draining, told, killed>>

\* A restart begins, once the old worker of the previous one is gone.
Retire ==
  /\ life = "open" /\ restart = "none"
  /\ candidate = 0 /\ draining = {}
  /\ draining' = {current} \ {0} /\ current' = 0
  /\ restart' = "begun"
  /\ owed' \in {owed, FALSE}
  /\ UNCHANGED <<life, cancelled, latest, candidate, told, killed>>

\* The restart ends: its successor is up and the old worker is told to go.
Tell ==
  /\ life = "open" /\ restart = "up"
  /\ told' = told \cup draining
  /\ restart' = "none"
  /\ owed' \in {owed, FALSE}
  /\ UNCHANGED <<life, cancelled, latest, workers, killed>>

\* A graceful restart is requested.
Request ==
  /\ life = "open" /\ owed' = TRUE
  /\ UNCHANGED <<life, cancelled, latest, workers, told, killed, restart>>

Cancel ==
  /\ cancelled' = TRUE
  /\ UNCHANGED <<life, latest, workers, told, killed, restart, owed>>

\* The run stops, on cancellation or after a failure, perhaps of one more
\* attempt to start a worker: every worker it has is an old one now.
Stop ==
  /\ life = "open" /\ candidate = 0
  /\ life' = "stopping"
  /\ draining' = Alive /\ current' = 0
  /\ latest' \in {latest, latest + 1}
  /\ restart' = "none" /\ owed' = FALSE
  /\ UNCHANGED <<cancelled, candidate, told, killed>>

\* The workers are asked to terminate, and later killed.
Terminate ==
  /\ life = "stopping"
  /\ told' = draining
  /\ killed' \in {killed, draining}
  /\ UNCHANGED <<life, cancelled, latest, workers, restart, owed>>

\* Pid file, status file and listeners are given up: no worker is left, but for
\* those that survive SIGKILL.
Close ==
  /\ life # "closed" /\ Alive \subseteq killed
  /\ life' = "closed"
  /\ latest' \in {latest, latest + 1}
  /\ restart' = "none" /\ owed' = FALSE
  /\ UNCHANGED <<cancelled, workers, told, killed>>

\* A worker exits, for whatever reason.
Exit(g) ==
  /\ g \in Alive
  /\ current' = IF g = current THEN 0 ELSE current
  /\ candidate' = IF g = candidate THEN 0 ELSE candidate
  /\ draining' = draining \ {g}
  /\ told' = told \ {g} /\ killed' = killed \ {g}
  /\ UNCHANGED <<life, cancelled, latest, restart, owed>>

Next ==
  \/ Open \/ Attempt \/ Ready \/ Retire \/ Tell \/ Request \/ Cancel
  \/ Stop \/ Terminate \/ Close
  \/ \E g \in Alive : Exit(g)

Spec == Init /\ [][Next]_vars
-----------------------------------------------------------------------------
(* What follows from the specification.                                     *)

TypeOK ==
  /\ life \in {"new", "open", "stopping", "closed"}
  /\ latest \in Nat /\ current \in 0..latest /\ candidate \in 0..latest
  /\ draining \subseteq 1..latest
  /\ restart \in {"none", "begun", "up"}

\* Only workers that have been replaced are ever signalled, and in a restart
\* none is before its successor is up; replaced workers are older than the one
\* that serves or comes up, and while the run serves there is at most one.
Orderly ==
  /\ killed \subseteq told /\ told \subseteq draining
  /\ restart # "none" => told = {}
  /\ \A g \in draining : current # 0 => g < current
  /\ \A g \in draining : candidate # 0 => g < candidate
  /\ life = "open" => /\ \A g, h \in draining : g = h
                       /\ killed = {}

\* There is one worker at most beside the old one, none before the run has
\* opened and, with the run stopping, none that is not an old one.
StageInv ==
  /\ current = 0 \/ candidate = 0
  /\ restart = "up" => candidate = 0
  /\ life # "open" => current = 0 /\ candidate = 0 /\ restart = "none"
  /\ life = "new" => draining = {}
=============================================================================
