------------------------------ MODULE Handover ------------------------------
(***************************************************************************)
(* Several supervisors over one pid file and one status file: one serves,  *)
(* others are started beside it and are refused, or take over when it has  *)
(* stopped or crashed.  Each counts its generations from 1.  A caller of   *)
(* control.Restart, which knows the status file only by its path, looks on.*)
(*                                                                         *)
(* A supervisor is reduced to what it does with the two files and with its *)
(* workers; module Supervisor has its loop in full and module PIDFile the  *)
(* lock, which here has one owner at a time.  A worker's pid is the pair   *)
(* of its supervisor and its generation.                                   *)
(***************************************************************************)
EXTENDS Naturals

CONSTANTS
  Supervisors,    \* processes that run the supervisor, once each
  NoOne,          \* the pid file has no owner
  NoFile,         \* the status path names no file
  MaxGeneration,  \* bound on the workers each supervisor starts
  MaxCrashes      \* bound on supervisors killed by SIGKILL or the like

ASSUME NoOneAssumption == NoOne \notin Supervisors
ASSUME HandoverBounds == MaxGeneration \in Nat \ {0} /\ MaxCrashes \in Nat

VARIABLES
  spc,         \* where each supervisor stands
  owner,       \* the supervisor that holds the pid file, or NoOne
  generation,  \* rs.generation of each
  oldWorkers,  \* the generations in rs.oldWorkers of each
  worker,      \* "none", "running" or "dead", by supervisor and generation
  status,      \* NoFile, or generation -> supervisor of the worker listed
  writer,      \* who wrote the status file last
  crashes,     \* crashes so far
  rpc,         \* the caller of Restart: "idle", "read", "signal", "poll", ...
  target,      \* the supervisor whose pid it found in the pid file
  previous     \* the status it read before it signalled

runVars == <<generation, oldWorkers, worker>>
fileVars == <<status, writer>>
callerVars == <<rpc, target, previous>>
vars == <<spc, owner, runVars, fileVars, crashes, callerVars>>

Generations == 1..MaxGeneration

Init ==
  /\ spc = [s \in Supervisors |-> "idle"]
  /\ owner = NoOne
  /\ generation = [s \in Supervisors |-> 0]
  /\ oldWorkers = [s \in Supervisors |-> {}]
  /\ worker = [s \in Supervisors |-> [g \in Generations |-> "none"]]
  /\ status = NoFile /\ writer = NoOne
  /\ crashes = 0
  /\ rpc = "idle" /\ target = NoOne /\ previous = NoFile

Goto(s, state) == spc' = [spc EXCEPT ![s] = state]

-----------------------------------------------------------------------------
(* The supervisors.                                                         *)

\* Acquire.  A supervisor that is refused leaves run by the cleanup defer, which
\* has no pid file to close and goes straight to teardown.
Acquire(s) ==
  /\ spc[s] = "idle"
  /\ \/ owner = NoOne /\ owner' = s /\ Goto(s, "setup")
     \/ owner # NoOne /\ owner' = owner /\ Goto(s, "teardown")
  /\ UNCHANGED <<runVars, fileVars, crashes, callerVars>>

\* A listener cannot be bound, the envdir not be read or the first worker not
\* be started: the pid file is released and teardown follows.
SetupFails(s) ==
  /\ spc[s] = "setup"
  /\ owner' = NoOne /\ Goto(s, "teardown")
  /\ UNCHANGED <<runVars, fileVars, crashes, callerVars>>

\* startWorker: every attempt, also a failed one, uses up a generation.
StartWorker(s, old) ==
  /\ \E g \in Generations :
       /\ g > generation[s]
       /\ generation' = [generation EXCEPT ![s] = g]
       /\ worker' = [worker EXCEPT ![s][g] = "running"]
  /\ oldWorkers' = [oldWorkers EXCEPT ![s] = old]

StartFirst(s) ==
  /\ spc[s] = "setup"
  /\ StartWorker(s, {})
  /\ Goto(s, "write")
  /\ UNCHANGED <<owner, fileVars, crashes, callerVars>>

\* WriteStatus(StatusMap(...)), which may fail.
WriteStatus(s, listed) ==
  \/ status' = [g \in listed |-> s] /\ writer' = s
  \/ UNCHANGED fileVars

Write(s) ==
  /\ spc[s] = "write"
  /\ WriteStatus(s, oldWorkers[s] \cup {generation[s]})
  /\ Goto(s, "select")
  /\ UNCHANGED <<owner, runVars, crashes, callerVars>>

\* The current worker has exited: it is replaced.
ReplaceWorker(s) ==
  /\ spc[s] = "select" /\ worker[s][generation[s]] = "dead"
  /\ StartWorker(s, oldWorkers[s])
  /\ Goto(s, "write")
  /\ UNCHANGED <<owner, fileVars, crashes, callerVars>>

\* A restart begins once no old worker is left: for the hangup of the caller or of
\* anybody else, or because the timer is due, which it may be at any time.
BeginRestart(s) ==
  /\ spc[s] = "select" /\ oldWorkers[s] = {}
  /\ StartWorker(s, {generation[s]})
  /\ Goto(s, "write")
  /\ UNCHANGED <<owner, fileVars, crashes, callerVars>>

\* An old worker's exit is received.
OldWorkerExit(s, g) ==
  /\ spc[s] = "select" /\ g \in oldWorkers[s] /\ worker[s][g] = "dead"
  /\ oldWorkers' = [oldWorkers EXCEPT ![s] = @ \ {g}]
  /\ Goto(s, "write")
  /\ UNCHANGED <<owner, generation, worker, fileVars, crashes, callerVars>>

\* TERM, or a failure of the loop: shutdownWorkers signals every worker.
Shutdown(s) ==
  /\ spc[s] = "select"
  /\ oldWorkers' = [oldWorkers EXCEPT ![s] = @ \cup {generation[s]}]
  /\ Goto(s, "drain")
  /\ UNCHANGED <<owner, generation, worker, fileVars, crashes, callerVars>>

\* Mutant of DrainExit: the first exit releases the pid file.
DrainExitReleases(s, g) ==
  /\ spc[s] \in {"drain", "reap"} /\ g \in oldWorkers[s] /\ worker[s][g] = "dead"
  /\ oldWorkers' = [oldWorkers EXCEPT ![s] = @ \ {g}]
  /\ WriteStatus(s, oldWorkers'[s])
  /\ owner' = IF owner = s THEN NoOne ELSE owner
  /\ UNCHANGED <<spc, generation, worker, crashes, callerVars>>

\* waitForWorkers receives an exit and rewrites the status file.
DrainExit(s, g) ==
  /\ spc[s] \in {"drain", "reap"} /\ g \in oldWorkers[s] /\ worker[s][g] = "dead"
  /\ oldWorkers' = [oldWorkers EXCEPT ![s] = @ \ {g}]
  /\ WriteStatus(s, oldWorkers'[s])
  /\ UNCHANGED <<spc, owner, generation, worker, crashes, callerVars>>

\* The first grace period is over: the workers left are killed, which SIGKILL is
\* taken to do at once.
KillRemaining(s) ==
  /\ spc[s] = "drain" /\ oldWorkers[s] # {}
  /\ worker' = [worker EXCEPT ![s] =
                  [g \in Generations |-> IF g \in oldWorkers[s] THEN "dead" ELSE @[g]]]
  /\ Goto(s, "reap")
  /\ UNCHANGED <<owner, generation, oldWorkers, fileVars, crashes, callerVars>>

\* Mutant of Drained: shutdownWorkers waits for nobody.
NotWaited(s) == spc[s] = "drain"

\* No worker is left, or the second grace period is over too.
Drained(s) == spc[s] = "reap" \/ (spc[s] = "drain" /\ oldWorkers[s] = {})

\* The deferred pidFile.Close runs before teardown.
ReleasePIDFile(s) ==
  /\ Drained(s)
  /\ owner' = NoOne /\ Goto(s, "teardown")
  /\ UNCHANGED <<runVars, fileVars, crashes, callerVars>>

\* The process is gone, and what it had in memory.
Forget(s) ==
  /\ generation' = [generation EXCEPT ![s] = 0]
  /\ oldWorkers' = [oldWorkers EXCEPT ![s] = {}]

\* teardown removes the status file by its path, and the process exits.
Teardown(s) ==
  /\ spc[s] = "teardown"
  /\ status' = NoFile /\ writer' = NoOne
  /\ Goto(s, "exited") /\ Forget(s)
  /\ UNCHANGED <<owner, worker, crashes, callerVars>>

\* The supervisor is killed: the kernel drops its lock, its workers and both
\* files stay.  Its TCP listeners live on in the workers and make a successor's
\* setup fail; one with UDP sockets, with other ports or without any gets on.
Crash(s) ==
  /\ spc[s] \notin {"idle", "exited", "crashed"} /\ crashes < MaxCrashes
  /\ crashes' = crashes + 1
  /\ Goto(s, "crashed") /\ Forget(s)
  /\ owner' = IF owner = s THEN NoOne ELSE owner
  /\ UNCHANGED <<worker, fileVars, callerVars>>

\* A worker exits by itself or after a signal.
WorkerExits(s, g) ==
  /\ worker[s][g] = "running"
  /\ worker' = [worker EXCEPT ![s][g] = "dead"]
  /\ UNCHANGED <<spc, owner, generation, oldWorkers, fileVars, crashes, callerVars>>

-----------------------------------------------------------------------------
(* control.Restart.                                                         *)

\* OpenRunningPID finds the owner of the pid file, or fails.
Open ==
  /\ rpc = "idle"
  /\ target' = owner
  /\ rpc' = IF owner = NoOne THEN "failed" ELSE "read"
  /\ UNCHANGED <<spc, owner, runVars, fileVars, crashes, previous>>

ReadPrevious ==
  /\ rpc = "read"
  /\ previous' = status
  /\ rpc' = IF status = NoFile THEN "failed" ELSE "signal"
  /\ UNCHANGED <<spc, owner, runVars, fileVars, crashes, target>>

SendHangup ==
  /\ rpc = "signal"
  /\ rpc' = IF spc[target] \in {"exited", "crashed"} THEN "failed" ELSE "poll"
  /\ UNCHANGED <<spc, owner, runVars, fileVars, crashes, target, previous>>

GenerationAdvanced == DOMAIN status \ DOMAIN previous # {}

OldWorkersGone ==
  \A g \in DOMAIN previous : g \in DOMAIN status => status[g] # previous[g]

\* One round of the loop that returns; the caller's timeout is always possible.
Poll ==
  /\ rpc = "poll"
  /\ \/ status = NoFile /\ rpc' = "failed"
     \/ /\ status # NoFile /\ GenerationAdvanced /\ OldWorkersGone
        /\ rpc' = "done"
     \/ rpc' = "timeout"
  /\ UNCHANGED <<spc, owner, runVars, fileVars, crashes, target, previous>>

-----------------------------------------------------------------------------
SupervisorStep(s) ==
  \/ Acquire(s) \/ SetupFails(s) \/ StartFirst(s) \/ Write(s)
  \/ ReplaceWorker(s) \/ BeginRestart(s) \/ Shutdown(s) \/ KillRemaining(s)
  \/ ReleasePIDFile(s) \/ Teardown(s) \/ Crash(s)
  \/ \E g \in Generations :
       OldWorkerExit(s, g) \/ DrainExit(s, g) \/ WorkerExits(s, g)

Next ==
  \/ \E s \in Supervisors : SupervisorStep(s)
  \/ Open \/ ReadPrevious \/ SendHangup \/ Poll

Spec == Init /\ [][Next]_vars

-----------------------------------------------------------------------------
(* Properties.                                                              *)

Serving == {"write", "select", "drain", "reap"}

\* The status file is never another supervisor's behind the back of the one
\* that serves: once a supervisor has written it, it is that supervisor's until
\* it gives up the pid file, or it is missing.  A predecessor that still drains
\* or a crashed one never writes over it.
StatusOwn ==
  [][\A s \in Supervisors :
       spc[s] \in Serving /\ writer = s => writer' \in {s, NoOne} \/ spc'[s] \notin Serving]_vars

\* A Restart that returns nil leaves no worker running that it found in the
\* status file, also when the supervisor it signalled stopped and a successor,
\* which counts its generations from 1 again, answered in its place; workers of
\* a supervisor that crashed are nobody's.
HandoverSound ==
  rpc = "done" =>
    \A g \in DOMAIN previous :
      spc[previous[g]] # "crashed" => worker[previous[g]][g] # "running"

\* "this defer is responsible for releasing whatever was already acquired": the
\* supervisor that serves keeps the status file it has written.
StatusKept ==
  [][\A s \in Supervisors :
       spc[s] = "select" /\ writer = s => writer' # NoOne]_vars

\* Restart "waits until the server(s) of the older generation(s) die", which it
\* does not for a worker that a crash of its supervisor has orphaned.
OldServersDead ==
  rpc = "done" =>
    \A g \in DOMAIN previous : worker[previous[g]][g] # "running"

-----------------------------------------------------------------------------
(* The inductive invariant behind StatusOwn and HandoverSound.              *)

HandoverTypes ==
  /\ spc \in [Supervisors ->
                 Serving \cup {"idle", "setup", "teardown", "exited", "crashed"}]
  /\ generation \in [Supervisors -> Nat]
  /\ oldWorkers \in [Supervisors -> SUBSET Nat]
  /\ worker \in [Supervisors ->
                    [Generations -> {"none", "running", "dead"}]]

\* A supervisor has the pid file from its setup until shutdownWorkers is done.
OwnerInv ==
  \A s \in Supervisors : spc[s] \in Serving \cup {"setup"} => owner = s

\* While it serves, its old workers are of generations it has given out.
CountInv ==
  \A s \in Supervisors : spc[s] \in Serving =>
    /\ generation[s] \in Generations
    /\ \A g \in oldWorkers[s] : g \in Generations /\ g <= generation[s]

\* A worker that runs is on the books of a supervisor that serves, or was orphaned
\* by a crash.
WorkersInv ==
  \A s \in Supervisors, g \in Generations : worker[s][g] = "running" =>
    /\ spc[s] \in {"write", "select", "drain", "crashed"}
    /\ spc[s] \in {"write", "select"} => g \in oldWorkers[s] \cup {generation[s]}
    /\ spc[s] = "drain" => g \in oldWorkers[s]

\* A status lists workers that supervisors have started, and will not again.
Known(m) ==
  \A g \in DOMAIN m :
    /\ g \in Generations /\ m[g] \in Supervisors
    /\ spc[m[g]] \notin {"idle", "setup"}
    /\ spc[m[g]] \in Serving => g <= generation[m[g]]

\* Unless the file is still the one that the caller has read, the workers it
\* found there that run, with their supervisor serving, are listed.
CallerInv ==
  /\ rpc \in {"signal", "poll", "done"} => Known(previous)
  /\ rpc \in {"signal", "poll"} =>
       \/ status \in {NoFile, previous}
       \/ \A g \in DOMAIN previous :
            spc[previous[g]] \in Serving /\ worker[previous[g]][g] = "running"
              => g \in DOMAIN status /\ status[g] = previous[g]

HandoverInv ==
  /\ HandoverTypes /\ OwnerInv /\ CountInv /\ WorkersInv
  /\ status # NoFile => Known(status)
  /\ CallerInv /\ HandoverSound
=============================================================================
