------------------------------ MODULE Supervisor ------------------------------
(***************************************************************************)
(* One Run of the supervisor (internal/supervisor): the setup that run     *)
(* performs, the loop goroutine that owns the workers, startWorker and the *)
(* waiter goroutine it leaves behind for each worker, shutdownWorkers, and *)
(* the worker processes, the caller and the clock around them.             *)
(*                                                                         *)
(* The loop goroutine is one thread: pc says where it stands, and a step   *)
(* reaches from one point at which it blocks (or at which another party    *)
(* can observe it) to the next.  Worker exits, reaping, Hangup, the        *)
(* cancellation of ctx and the auto-restart timer interleave with it.      *)
(*                                                                         *)
(* Time is not modelled: a timeout (probe interval, retry delay, kill-old  *)
(* delay, grace period) is a step that may be taken whenever the code is   *)
(* waiting for it, before or after anything else that can happen then.     *)
(***************************************************************************)
EXTENDS Naturals, FiniteSets

CONSTANTS
  Pids,          \* process ids the kernel may give to workers
  NoPid,         \* a nil *os.Process
  NoFile,        \* the status path names no file
  Configs,       \* the Starter configurations considered
  NumListeners,  \* listeners to bind
  MaxEvents      \* bound on the environment's events in one behaviour

ASSUME NoPidAssumption == NoPid \notin Pids
ASSUME ConfigsAssumption ==
  Configs \subseteq [checked : BOOLEAN, pidFile : BOOLEAN,
                     statusFile : BOOLEAN, autoRestart : BOOLEAN]
ASSUME BoundsAssumption == NumListeners \in Nat /\ MaxEvents \in Nat

VARIABLES
  cfg,           \* rs.cfg, immutable during a run
  pc,            \* where the goroutine of run and then of loop stands
  phase,         \* "setup", then which call of startWorker is the latest
  p,             \* the current worker, NoPid for nil
  probing,       \* the process startWorker has started and not yet returned
  oldWorkers,    \* rs.oldWorkers: pid -> generation, 0 for no entry
  generation,    \* rs.generation
  hangupPending, \* loop's hangupPending
  sigToSend,     \* loop's sigToSend
  timer,         \* rs.restartTimer: "off", "armed", "fired", "received"
  pidFile,       \* TRUE while rs.pidFile is held
  listeners,     \* how many of rs.listeners are open
  status,        \* contents of the status file: generation -> pid
  statusStale,   \* TRUE after a WriteStatus that failed
  stateDone,     \* TRUE once workerStateDone is closed
  ctxDone,       \* TRUE once ctx is cancelled
  hangup,        \* TRUE while the hangup channel (capacity 1) is full
  err,           \* ctrl.err: "nil", "closed" (ErrServerClosed) or "failure"
  startup,       \* what was sent on startup: "nothing", "ok", "failure"
  ret,           \* what Run returned: "nothing", "controller", "error"
  proc,          \* the life of each worker process, see ProcStates
  genOf,         \* SERVER_STARTER_GENERATION in each process's environment
  signals,       \* the signals each process has been sent
  events         \* environment events so far, bounded by MaxEvents

trackVars == <<p, probing, oldWorkers, generation>>
flagVars  == <<hangupPending, sigToSend, timer>>
heldVars  == <<pidFile, listeners, stateDone>>
fileVars  == <<status, statusStale>>
ctlVars   == <<ctxDone, hangup, err>>
runVars   == <<startup, ret>>
procVars  == <<proc, genOf, signals>>
vars      == <<cfg, pc, phase, trackVars, flagVars, heldVars, fileVars,
               ctlVars, runVars, procVars, events>>

\* A pid is free; its process is starting (it has not passed the probe of
\* startWorker), live or a zombie; or the process has been reaped by its
\* waiter goroutine, which is blocked sending the exit on workerCh.
ProcStates == {"free", "starting", "live", "zombie", "reaped"}

Running(w) == proc[w] \in {"starting", "live"}

\* The keys of a pid -> generation map.
Entries(m) == {w \in Pids : m[w] # 0}

\* Points of the program counter after shutdownWorkers has returned.
Released == {"release", "remove", "close", "finish", "exited"}

\* Points inside run, inside startWorker and inside the body of loop.
InSetup == {"validate", "acquire", "bind"}
Starting == {"start", "retry", "probe"}
InLoop == {"top", "select", "kill"}

Init ==
  /\ cfg \in Configs
  /\ pc = "validate" /\ phase = "setup"
  /\ p = NoPid /\ probing = NoPid
  /\ oldWorkers = [w \in Pids |-> 0]
  /\ generation = 0
  /\ hangupPending = FALSE /\ sigToSend = "nil" /\ timer = "off"
  /\ pidFile = FALSE /\ listeners = 0
  /\ status = NoFile /\ statusStale = FALSE /\ stateDone = FALSE
  /\ ctxDone = FALSE /\ hangup = FALSE /\ err = "nil"
  /\ startup = "nothing" /\ ret = "nothing"
  /\ proc = [w \in Pids |-> "free"]
  /\ genOf = [w \in Pids |-> 0]
  /\ signals = [w \in Pids |-> {}]
  /\ events = 0

\* Nothing is left of the process that had pid w.
Bury(w) ==
  /\ proc' = [proc EXCEPT ![w] = "free"]
  /\ genOf' = [genOf EXCEPT ![w] = 0]
  /\ signals' = [signals EXCEPT ![w] = {}]

-----------------------------------------------------------------------------
(* run: validation, the pid file, the listeners, the first envdir load.     *)

\* Port specs are parsed, descriptors assigned and the wire format validated
\* before the cleanup defer exists: a failure returns at once.
Validate ==
  /\ pc = "validate"
  /\ \/ pc' = "acquire" /\ ret' = ret
     \/ pc' = "exited" /\ ret' = "error"
  /\ UNCHANGED <<cfg, phase, trackVars, flagVars, heldVars, fileVars, ctlVars,
                 startup, procVars, events>>

\* statefile.Acquire, skipped without a pid file.  On failure the defer runs
\* the same release, in the same order, as the end of loop.
Acquire ==
  /\ pc = "acquire"
  /\ \/ pc' = "bind" /\ pidFile' = cfg.pidFile
     \/ cfg.pidFile /\ pc' = "release" /\ pidFile' = FALSE
  /\ UNCHANGED <<cfg, phase, trackVars, flagVars, listeners, stateDone,
                 fileVars, ctlVars, runVars, procVars, events>>

\* One listener is bound, or fails to.
Bind ==
  /\ pc = "bind" /\ listeners < NumListeners
  /\ \/ listeners' = listeners + 1 /\ pc' = pc
     \/ listeners' = listeners /\ pc' = "release"
  /\ UNCHANGED <<cfg, phase, trackVars, flagVars, pidFile, stateDone, fileVars,
                 ctlVars, runVars, procVars, events>>

\* The paths the kernel chose are validated, the envdir is loaded and the loop
\* goroutine is launched; Run returns now unless it waits for the startup check.
Launch ==
  /\ pc = "bind" /\ listeners = NumListeners
  /\ \/ /\ pc' = "start" /\ phase' = "initial"
        /\ ret' = IF cfg.checked THEN ret ELSE "controller"
     \/ pc' = "release" /\ UNCHANGED <<phase, ret>>
  /\ UNCHANGED <<cfg, trackVars, flagVars, heldVars, fileVars, ctlVars,
                 startup, procVars, events>>

\* RunWithStartupCheck receives the startup result; on a failure it waits for
\* the loop goroutine to finish before it returns the error.
RunReturn ==
  /\ ret = "nothing"
  /\ \/ startup = "ok" /\ ret' = "controller"
     \/ startup = "failure" /\ pc = "exited" /\ ret' = "error"
  /\ UNCHANGED <<cfg, pc, phase, trackVars, flagVars, heldVars, fileVars,
                 ctlVars, startup, procVars, events>>

-----------------------------------------------------------------------------
(* startWorker.  phase says which call it is: the initial one, the one that *)
(* replaces a worker that died ("respawn") or the one of a restart.         *)

\* Mutant of ResetTimer: no Reset.
KeepTimer == timer' = timer

\* rs.restartTimer.Reset: an expiry not yet received is discarded.
ResetTimer == timer' = IF cfg.autoRestart THEN "armed" ELSE timer

\* The result of the initial start is sent on startup, if Run waits for it.
ReportStartup(ok) ==
  IF cfg.checked THEN startup' = IF ok THEN "ok" ELSE "failure"
                 ELSE startup' = startup

\* startWorker returns e.  A failed initial start leaves loop before the
\* deferred shutdownWorkers is installed; a later one goes through it.
StartReturnsError(e) ==
  /\ err' = e
  /\ IF phase = "initial"
     THEN /\ pc' = "release"
          /\ ReportStartup(FALSE)
          /\ sigToSend' = sigToSend
     ELSE /\ pc' = "shutdown"
          /\ startup' = startup
          /\ sigToSend' = "TERM"
  /\ UNCHANGED <<cfg, phase, p, oldWorkers, hangupPending, timer, heldVars,
                 fileVars, ctxDone, hangup, ret>>

\* startWorker returns the process it has been probing, whose waiter goroutine
\* is now running.  The initial call reports its result; a respawn drains the
\* hangup channel; a restart goes on to signal the old workers.
StartReturnsWorker ==
  /\ p' = probing /\ probing' = NoPid
  /\ ResetTimer
  /\ \/ /\ phase = "initial"
        /\ pc' = "top" /\ hangup' = hangup /\ ReportStartup(~ctxDone)
     \/ /\ phase = "respawn"
        /\ pc' = "top" /\ hangup' = FALSE /\ startup' = startup
     \/ /\ phase = "restart"
        /\ pc' = "kill" /\ hangup' = hangup /\ startup' = startup
  /\ UNCHANGED <<cfg, phase, oldWorkers, generation, hangupPending, sigToSend,
                 heldVars, fileVars, ctxDone, err, ret, genOf, signals, events>>

\* The ctx.Err check at the head of the retry loop.
StartCancelled ==
  /\ pc = "start" /\ ctxDone
  /\ StartReturnsError("closed")
  /\ UNCHANGED <<probing, generation, procVars, events>>

\* Descriptor set-up or formatting fails, before rs.generation is incremented,
\* or cmd.Start fails with a terminal error, after it.
StartFails ==
  /\ pc = "start" /\ ~ctxDone
  /\ generation' \in {generation, generation + 1}
  /\ StartReturnsError("failure")
  /\ UNCHANGED <<probing, procVars, events>>

\* cmd.Start fails with a transient error and startWorker waits to retry.
StartTransient ==
  /\ pc = "start" /\ ~ctxDone
  /\ events < MaxEvents /\ events' = events + 1
  /\ generation' = generation + 1
  /\ pc' = "retry"
  /\ UNCHANGED <<cfg, phase, p, probing, oldWorkers, flagVars, heldVars,
                 fileVars, ctlVars, runVars, procVars>>

\* waitForWorkerStartRetry: the delay elapses, or ctx ends it.
Retry ==
  /\ pc = "retry"
  /\ pc' = "start"
  /\ UNCHANGED <<cfg, phase, trackVars, flagVars, heldVars, fileVars, ctlVars,
                 runVars, procVars, events>>

RetryCancelled ==
  /\ pc = "retry" /\ ctxDone
  /\ StartReturnsError("closed")
  /\ UNCHANGED <<probing, generation, procVars, events>>

\* cmd.Start succeeds: a process with the next generation exists.  The kernel
\* is assumed not to reuse a pid whose exit the loop has yet to receive.
Spawn(w) ==
  /\ pc = "start" /\ ~ctxDone
  /\ proc[w] = "free"
  /\ generation' = generation + 1
  /\ proc' = [proc EXCEPT ![w] = "starting"]
  /\ genOf' = [genOf EXCEPT ![w] = generation + 1]
  /\ signals' = [signals EXCEPT ![w] = {}]
  /\ probing' = w
  /\ pc' = "probe"
  /\ UNCHANGED <<cfg, phase, p, oldWorkers, flagVars, heldVars, fileVars,
                 ctlVars, runVars, events>>

\* waitForProbe ends by its timer and findWorker finds the process alive.
ProbePasses ==
  /\ pc = "probe" /\ proc[probing] = "starting"
  /\ proc' = [proc EXCEPT ![probing] = "live"]
  /\ StartReturnsWorker

\* Mutant of ProbeCancelled: no process is returned after a cancelled probe.
ProbeCancelledReturnsNil ==
  /\ pc = "probe" /\ ctxDone
  /\ StartReturnsError("closed")
  /\ probing' = NoPid
  /\ UNCHANGED <<generation, procVars, events>>

\* Mutant of ProbeCancelled: the process is returned without any probe.
ProbeSkipped ==
  /\ pc = "probe"
  /\ proc' = proc
  /\ StartReturnsWorker

\* waitForProbe ends by cancellation: the process is returned, dead or alive,
\* so that its shutdown stays with the supervisor.
ProbeCancelled ==
  /\ pc = "probe" /\ ctxDone
  /\ proc' = proc
  /\ StartReturnsWorker

\* findWorker reaps a process that has already died: the checked initial start
\* fails, any other start is tried again.
ProbeFails ==
  /\ pc = "probe" /\ proc[probing] = "zombie"
  /\ Bury(probing)
  /\ probing' = NoPid
  /\ IF phase = "initial" /\ cfg.checked
     THEN StartReturnsError("failure")
     ELSE /\ pc' = "start"
          /\ UNCHANGED <<cfg, phase, p, oldWorkers, flagVars, heldVars,
                         fileVars, ctlVars, runVars>>
  /\ UNCHANGED <<generation, events>>

-----------------------------------------------------------------------------
(* loop: the status file, the select and the restart.                       *)

\* statefile.StatusMap: old workers by generation, then the current worker,
\* whose entry replaces an old one of the same generation.
StatusMap(old, current, gen) ==
  LET currentGen == IF current = NoPid THEN {} ELSE {gen}
  IN  [g \in {old[w] : w \in Entries(old)} \cup currentGen |->
         IF g \in currentGen THEN current
                             ELSE CHOOSE w \in Entries(old) : old[w] = g]

\* statefile.WriteStatus replaces the file by a rename, or fails and leaves the
\* old one; without a status file it does nothing.
WriteStatus(m) ==
  IF cfg.statusFile
  THEN \/ status' = m /\ statusStale' = FALSE
       \/ status' = status /\ statusStale' = TRUE
  ELSE UNCHANGED fileVars

\* The head of the loop.
Top ==
  /\ pc = "top"
  /\ WriteStatus(StatusMap(oldWorkers, p, generation))
  /\ pc' = "select"
  /\ UNCHANGED <<cfg, phase, trackVars, flagVars, heldVars, ctlVars, runVars,
                 procVars, events>>

\* rs.reloadEnvdir and the startWorker call for the given phase, or the return
\* from loop when the envdir cannot be read.
ReloadAndStart(next, sig) ==
  \/ /\ pc' = "start" /\ phase' = next
     /\ sigToSend' = sig /\ err' = err
  \/ /\ pc' = "shutdown" /\ phase' = phase
     /\ sigToSend' = "TERM" /\ err' = "failure"

\* The current worker exited: it is replaced.
RecvCurrentExit(w) ==
  /\ pc = "select" /\ proc[w] = "reaped" /\ w = p
  /\ Bury(w)
  /\ p' = NoPid
  /\ ReloadAndStart("respawn", sigToSend)
  /\ UNCHANGED <<cfg, probing, oldWorkers, generation, hangupPending, timer,
                 heldVars, fileVars, ctxDone, hangup, runVars, events>>

\* Mutant of BeginRestart: the old worker is filed under the next generation.
BeginRestartLate(old, sig) ==
  /\ oldWorkers' = IF p = NoPid THEN old ELSE [old EXCEPT ![p] = generation + 1]
  /\ p' = NoPid
  /\ ReloadAndStart("restart", sig)

\* The restart block up to startWorker: the current worker becomes an old one.
BeginRestart(old, sig) ==
  /\ oldWorkers' = IF p = NoPid THEN old ELSE [old EXCEPT ![p] = generation]
  /\ p' = NoPid
  /\ ReloadAndStart("restart", sig)

\* Mutant of PendingDue: a pending hangup is forgotten.
NeverDue(old) == FALSE

\* A pending hangup is due once no old worker is left.
PendingDue(old) == Entries(old) = {} /\ hangupPending

\* An old worker exited; the last one releases a pending hangup, together with
\* one that is buffered in the channel.
RecvOldExit(w) ==
  /\ pc = "select" /\ proc[w] = "reaped" /\ w # p
  /\ Bury(w)
  /\ LET old == [oldWorkers EXCEPT ![w] = 0]
     IN  IF PendingDue(old)
         THEN /\ hangup' = FALSE /\ hangupPending' = FALSE
              /\ BeginRestart(old, "HUP")
         ELSE /\ oldWorkers' = old /\ pc' = "top"
              /\ UNCHANGED <<p, phase, sigToSend, err, hangup, hangupPending>>
  /\ UNCHANGED <<cfg, probing, generation, timer, heldVars, fileVars, ctxDone,
                 runVars, events>>

\* ctx is cancelled: loop returns.
CtxDone ==
  /\ pc = "select" /\ ctxDone
  /\ sigToSend' = "TERM" /\ err' = "closed"
  /\ pc' = "shutdown"
  /\ UNCHANGED <<cfg, phase, trackVars, hangupPending, timer, heldVars,
                 fileVars, ctxDone, hangup, runVars, procVars, events>>

\* A restart needs the old workers of the previous one to be gone.
MayRestart == Entries(oldWorkers) = {}

\* A hangup restarts the worker, or waits until the old workers have exited.
RecvHangup ==
  /\ pc = "select" /\ hangup
  /\ hangup' = FALSE
  /\ IF MayRestart
     THEN BeginRestart(oldWorkers, "HUP") /\ hangupPending' = hangupPending
     ELSE /\ hangupPending' = TRUE /\ pc' = "top"
          /\ UNCHANGED <<p, phase, oldWorkers, sigToSend, err>>
  /\ UNCHANGED <<cfg, probing, generation, timer, heldVars, fileVars, ctxDone,
                 runVars, procVars, events>>

\* The auto-restart timer restarts the worker, or is re-armed.
RecvTimer ==
  /\ pc = "select" /\ timer = "fired"
  /\ IF MayRestart
     THEN BeginRestart(oldWorkers, sigToSend) /\ timer' = "received"
     ELSE /\ ResetTimer /\ pc' = "top"
          /\ UNCHANGED <<p, phase, oldWorkers, sigToSend, err>>
  /\ UNCHANGED <<cfg, probing, generation, hangupPending, heldVars, fileVars,
                 ctxDone, hangup, runVars, procVars, events>>

\* Mutant of Signal: a process that has been signalled is left alone.
SignalOnce(sig, ws) ==
  signals' = [w \in Pids |-> IF w \in ws /\ signals[w] = {} THEN {sig}
                                                           ELSE signals[w]]

\* A process that has not been reaped receives a signal.
Signal(sig, ws) ==
  signals' = [w \in Pids |->
                IF w \in ws /\ proc[w] \in {"starting", "live", "zombie"}
                THEN signals[w] \cup {sig} ELSE signals[w]]

\* The end of the restart block: the kill-old delay elapses or ctx cuts it
\* short, old workers get signalOnHUP, and a hangup that arrived meanwhile is
\* taken as part of this restart.
KillOld ==
  /\ pc = "kill"
  /\ Signal("HUP", Entries(oldWorkers))
  /\ hangup' = FALSE
  /\ pc' = "top"
  /\ UNCHANGED <<cfg, phase, trackVars, flagVars, heldVars, fileVars, ctxDone,
                 err, runVars, proc, genOf, events>>

-----------------------------------------------------------------------------
(* The deferred functions of loop, in the order they run.                   *)

\* The current worker joins the old ones and all get the shutdown signal.
Shutdown ==
  /\ pc = "shutdown"
  /\ LET old == IF p = NoPid THEN oldWorkers
                             ELSE [oldWorkers EXCEPT ![p] = generation]
     IN  oldWorkers' = old /\ Signal(sigToSend, Entries(old))
  /\ pc' = "drain"
  /\ UNCHANGED <<cfg, phase, p, probing, generation, flagVars, heldVars,
                 fileVars, ctlVars, runVars, proc, genOf, events>>

\* waitForWorkers receives an exit and rewrites the status file.
WaitExit(w) ==
  /\ pc \in {"drain", "reap"} /\ Entries(oldWorkers) # {}
  /\ proc[w] = "reaped"
  /\ Bury(w)
  /\ oldWorkers' = [oldWorkers EXCEPT ![w] = 0]
  /\ WriteStatus(StatusMap(oldWorkers', NoPid, generation))
  /\ UNCHANGED <<cfg, pc, phase, p, probing, generation, flagVars, heldVars,
                 ctlVars, runVars, events>>

\* The first grace period ends with workers left: they are killed.
WaitTimeout ==
  /\ pc = "drain" /\ Entries(oldWorkers) # {}
  /\ Signal("KILL", Entries(oldWorkers))
  /\ pc' = "reap"
  /\ UNCHANGED <<cfg, phase, trackVars, flagVars, heldVars, fileVars, ctlVars,
                 runVars, proc, genOf, events>>

\* Mutant of WaitOver: the second wait has no deadline.
AllGone == Entries(oldWorkers) = {}

\* waitForWorkers ends when no worker is left; the second time also by timeout.
WaitOver == Entries(oldWorkers) = {} \/ pc = "reap"

\* shutdownWorkers returns, with every worker gone or after the second grace
\* period; workerStateDone is closed and the restart timer stopped.
ShutdownReturns ==
  /\ pc \in {"drain", "reap"} /\ WaitOver
  /\ stateDone' = TRUE
  /\ timer' = "off"
  /\ pc' = "release"
  /\ UNCHANGED <<cfg, phase, trackVars, hangupPending, sigToSend, pidFile,
                 listeners, fileVars, ctlVars, runVars, procVars, events>>

\* Mutant of ReleasePIDFile: only the path through shutdownWorkers releases it.
ReleaseAfterShutdownOnly ==
  /\ pc = "release"
  /\ pidFile' = (pidFile /\ ~stateDone) /\ pc' = "remove"
  /\ UNCHANGED <<cfg, phase, trackVars, flagVars, listeners, stateDone,
                 fileVars, ctlVars, runVars, procVars, events>>

\* rs.pidFile.Close.
ReleasePIDFile ==
  /\ pc = "release"
  /\ pidFile' = FALSE /\ pc' = "remove"
  /\ UNCHANGED <<cfg, phase, trackVars, flagVars, listeners, stateDone,
                 fileVars, ctlVars, runVars, procVars, events>>

\* teardown: the status file is removed, then the listeners are closed.
RemoveStatus ==
  /\ pc = "remove"
  /\ status' = IF cfg.statusFile THEN NoFile ELSE status
  /\ pc' = "close"
  /\ UNCHANGED <<cfg, phase, trackVars, flagVars, heldVars, statusStale,
                 ctlVars, runVars, procVars, events>>

CloseListeners ==
  /\ pc = "close"
  /\ listeners' = 0 /\ pc' = "finish"
  /\ UNCHANGED <<cfg, phase, trackVars, flagVars, pidFile, stateDone, fileVars,
                 ctlVars, runVars, procVars, events>>

\* close(ctrl.done) at the end of loop; a failed setup returns its error.
Finish ==
  /\ pc = "finish"
  /\ pc' = "exited"
  /\ ret' = IF phase = "setup" THEN "error" ELSE ret
  /\ UNCHANGED <<cfg, phase, trackVars, flagVars, heldVars, fileVars, ctlVars,
                 startup, procVars, events>>

-----------------------------------------------------------------------------
(* Waiter goroutines, worker processes, the caller and the clock.           *)

\* cmd.Wait in the waiter goroutine startWorker leaves for a worker.
Reap(w) ==
  /\ proc[w] = "zombie" /\ w # probing
  /\ proc' = [proc EXCEPT ![w] = "reaped"]
  /\ UNCHANGED <<cfg, pc, phase, trackVars, flagVars, heldVars, fileVars,
                 ctlVars, runVars, genOf, signals, events>>

\* A waiter gives up sending once workerStateDone is closed.
WaiterAbandons(w) ==
  /\ stateDone /\ proc[w] = "reaped"
  /\ Bury(w)
  /\ UNCHANGED <<cfg, pc, phase, trackVars, flagVars, heldVars, fileVars,
                 ctlVars, runVars, events>>

\* A worker exits: after a signal, or by itself, which is an event.
WorkerExits(w) ==
  /\ Running(w)
  /\ IF signals[w] # {} THEN events' = events
                        ELSE events < MaxEvents /\ events' = events + 1
  /\ proc' = [proc EXCEPT ![w] = "zombie"]
  /\ UNCHANGED <<cfg, pc, phase, trackVars, flagVars, heldVars, fileVars,
                 ctlVars, runVars, genOf, signals>>

\* Controller.Hangup fills the channel; on a full channel it does nothing.
Hangup ==
  /\ ret = "controller" /\ ~hangup
  /\ events < MaxEvents /\ events' = events + 1
  /\ hangup' = TRUE
  /\ UNCHANGED <<cfg, pc, phase, trackVars, flagVars, heldVars, fileVars,
                 ctxDone, err, runVars, procVars>>

\* The caller cancels ctx.
Cancel ==
  /\ ~ctxDone
  /\ ctxDone' = TRUE
  /\ UNCHANGED <<cfg, pc, phase, trackVars, flagVars, heldVars, fileVars,
                 hangup, err, runVars, procVars, events>>

\* The auto-restart timer expires.
TimerFires ==
  /\ timer = "armed"
  /\ events < MaxEvents /\ events' = events + 1
  /\ timer' = "fired"
  /\ UNCHANGED <<cfg, pc, phase, trackVars, hangupPending, sigToSend, heldVars,
                 fileVars, ctlVars, runVars, procVars>>

\* After the run nothing is left to do but what workers left behind do.
Exited ==
  /\ pc = "exited" /\ ret # "nothing"
  /\ UNCHANGED vars

SetupStep == Validate \/ Acquire \/ Bind \/ Launch
StartStep ==
  \/ StartCancelled \/ StartFails \/ StartTransient
  \/ Retry \/ RetryCancelled
  \/ \E w \in Pids : Spawn(w)
  \/ ProbePasses \/ ProbeCancelled \/ ProbeFails
SelectStep ==
  \/ \E w \in Pids : RecvCurrentExit(w) \/ RecvOldExit(w)
  \/ CtxDone \/ RecvHangup \/ RecvTimer
ShutdownStep ==
  \/ Shutdown \/ (\E w \in Pids : WaitExit(w)) \/ WaitTimeout
  \/ ShutdownReturns
ReleaseStep == ReleasePIDFile \/ RemoveStatus \/ CloseListeners \/ Finish
LoopStep ==
  \/ SetupStep \/ StartStep \/ Top \/ SelectStep \/ KillOld \/ ShutdownStep
  \/ ReleaseStep
Waiter(w) == Reap(w) \/ WaiterAbandons(w)
Environment ==
  \/ \E w \in Pids : WorkerExits(w)
  \/ Hangup \/ Cancel \/ TimerFires

Next ==
  \/ LoopStep \/ RunReturn \/ Environment \/ Exited
  \/ \E w \in Pids : Waiter(w)

Spec == Init /\ [][Next]_vars

-----------------------------------------------------------------------------
(* Safety.                                                                  *)

TypeLoop ==
  /\ pc \in InSetup \cup Starting \cup InLoop
             \cup {"shutdown", "drain", "reap"} \cup Released
  /\ phase \in {"setup", "initial", "respawn", "restart"}
  /\ p \in Pids \cup {NoPid} /\ probing \in Pids \cup {NoPid}
  /\ oldWorkers \in [Pids -> Nat] /\ generation \in Nat
  /\ hangupPending \in BOOLEAN /\ sigToSend \in {"nil", "HUP", "TERM"}
  /\ timer \in {"off", "armed", "fired", "received"}

TypeRun ==
  /\ cfg \in Configs
  /\ pidFile \in BOOLEAN /\ listeners \in 0..NumListeners
  /\ stateDone \in BOOLEAN /\ statusStale \in BOOLEAN
  /\ ctxDone \in BOOLEAN /\ hangup \in BOOLEAN
  /\ err \in {"nil", "closed", "failure"}
  /\ startup \in {"nothing", "ok", "failure"}
  /\ ret \in {"nothing", "controller", "error"}
  /\ events \in 0..MaxEvents

TypeProc ==
  /\ proc \in [Pids -> ProcStates] /\ genOf \in [Pids -> Nat]
  /\ signals \in [Pids -> SUBSET {"nil", "HUP", "TERM", "KILL"}]

\* Every variable stays in its range; in particular no more listeners are
\* opened than were asked for.
TypeOK == TypeLoop /\ TypeRun /\ TypeProc

\* The workers the supervisor has on its books.
Tracked == Entries(oldWorkers) \cup ({p, probing} \cap Pids)

\* Every worker process that exists, and every exit not yet received, is the
\* current worker, an old worker or the one under probe: no failure, restart or
\* cancellation of loop and startWorker loses a process they started.
NoWorkerLost == \A w \in Pids : proc[w] # "free" => w \in Tracked

\* Restarts and respawns never overlap so far that a third worker runs.
AtMostTwoWorkers == Cardinality({w \in Pids : Running(w)}) <= 2

\* While loop runs at most one old worker is draining, because a restart waits
\* for the previous one's old worker.
OneDraining ==
  pc \in InLoop \cup Starting =>
    \A v, w \in Entries(oldWorkers) : v = w

\* A hangup coalesced "until old workers exit" is still owed: some old worker's
\* exit is yet to come and will trigger it.
PendingHangupKept ==
  hangupPending /\ pc \in InLoop \cup Starting =>
    Entries(oldWorkers) # {}

\* When loop waits in select after a successful WriteStatus, the status file
\* lists exactly the tracked workers, each under the generation it was given
\* in its environment; no two collapse into one line.
StatusExact ==
  pc = "select" /\ cfg.statusFile /\ ~statusStale =>
    {<<g, status[g]>> : g \in DOMAIN status} = {<<genOf[w], w>> : w \in Tracked}

\* Shutdown asks every worker it waits for to terminate: whichever way loop
\* was left, sigToSend is the TERM signal.
ShutdownSignalled ==
  pc \in {"drain", "reap"} =>
    \A w \in Entries(oldWorkers) : Running(w) => "TERM" \in signals[w]

\* A worker still running when the pid file and the listeners are released has
\* been sent SIGKILL.
KilledBeforeRelease ==
  pc \in Released => \A w \in Pids : Running(w) => "KILL" \in signals[w]

\* "Done returns a channel that is closed when the run's loop goroutine has
\* fully exited (listeners closed, pid file released)": also the status file is
\* gone and the terminal error is set.
ExitReleasesAll ==
  pc = "exited" =>
    /\ ~pidFile /\ listeners = 0 /\ status = NoFile
    /\ phase # "setup" => err # "nil"

\* What Run reports: an error only after everything is released, a controller
\* after a startup check only if the initial worker passed it; ErrServerClosed
\* only if ctx was cancelled.
RunResult ==
  /\ ret = "error" => pc = "exited" /\ ~pidFile /\ listeners = 0
  /\ ret = "controller" /\ cfg.checked => startup = "ok"
  /\ err = "closed" => ctxDone

\* With auto-restart enabled loop never waits in select with a timer that has
\* been spent: one restart that was put off does not end the series.
TimerKeepsRunning ==
  pc = "select" /\ cfg.autoRestart => timer \in {"armed", "fired"}

\* An old worker gets signalOnHUP only from a restart that has a successor of a
\* later generation, which passed its probe unless ctx was cancelled.
SuccessorFirst ==
  [][\A w \in Pids : "HUP" \in signals'[w] \ signals[w] =>
       /\ p \in Pids /\ p # w /\ genOf[p] > genOf[w]
       /\ proc[p] = "starting" => ctxDone]_vars

\* "The loop goroutine calls this at most once": a terminal error is never
\* replaced by another one.
ErrSetOnce == [][err # "nil" => err' = err]_vars

\* Controller.Err is documented to be "nil before the run exits", which it is
\* not: loop sets the error before shutdownWorkers waits for the workers.
ErrNilBeforeExit == err # "nil" => pc \in Released

-----------------------------------------------------------------------------
(* The inductive invariant behind the safety properties.                    *)

\* The process under probe is the one startWorker has just started.
ProbeInv ==
  /\ pc = "probe" <=> probing # NoPid
  /\ pc = "probe" => /\ proc[probing] \in {"starting", "zombie"}
                     /\ oldWorkers[probing] = 0
                     /\ genOf[probing] = generation

\* In its body loop always has a current worker, of the latest generation and
\* not among the old ones (so its tests for p = nil are never true); before
\* and inside startWorker it has none.
CurrentInv ==
  /\ pc \in InLoop => p # NoPid
  /\ pc \in InSetup \cup Starting => p = NoPid
  /\ pc \in InLoop \cup {"shutdown"} /\ p # NoPid =>
       /\ proc[p] # "free" /\ oldWorkers[p] = 0 /\ genOf[p] = generation
       /\ proc[p] = "starting" => ctxDone

\* The books: old workers are processes, or exits not yet received, under the
\* generation they were given; generations are given once.
BooksInv ==
  \A w \in Pids :
    /\ pc \notin Released /\ oldWorkers[w] # 0 =>
         proc[w] # "free" /\ oldWorkers[w] = genOf[w]
    /\ proc[w] # "free" => genOf[w] # 0
    /\ genOf[w] <= generation
    /\ \A v \in Pids : genOf[w] # 0 /\ genOf[v] = genOf[w] => v = w

\* There are no old workers, and no pending hangup, before the first restart.
EarlyInv ==
  /\ pc \in InSetup => phase = "setup"
  /\ pc \in Starting \cup InLoop \cup {"shutdown"} => phase # "setup"
  /\ phase \in {"setup", "initial"} /\ pc \in InSetup \cup Starting \cup InLoop
       => Entries(oldWorkers) = {} /\ ~hangupPending

\* Once shutdownWorkers has begun the map of old workers is the whole truth,
\* and TERM and KILL have gone to all that it lists.
ShutdownInv ==
  /\ pc \in {"shutdown", "drain", "reap"} => sigToSend = "TERM"
  /\ pc \in {"drain", "reap"} =>
       \A w \in Pids : proc[w] # "free" => oldWorkers[w] # 0
  /\ pc = "reap" =>
       \A w \in Pids : oldWorkers[w] # 0 /\ Running(w) => "KILL" \in signals[w]
  /\ stateDone => pc \in Released

\* The old and the current worker are all there are.
TwoInv ==
  \E a, b \in Pids \cup {NoPid} :
    \A w \in Pids : proc[w] # "free" => w \in {a, b}

\* What is held at each point, what has been reported, and the timer.
ResourceInv ==
  /\ pc \in {"validate", "acquire", "remove", "close", "finish", "exited"} =>
       ~pidFile
  /\ pc \in {"validate", "acquire", "finish", "exited"} => listeners = 0
  /\ pc \in InSetup \cup {"close", "finish", "exited"} => status = NoFile
  /\ ~cfg.statusFile => status = NoFile
  /\ err = "nil" <=> phase = "setup" \/ pc \in Starting \cup InLoop
  /\ phase \in {"setup", "initial"} /\ pc \in InSetup \cup Starting =>
       startup = "nothing"
  /\ pc \in InLoop /\ cfg.autoRestart => timer \in {"armed", "fired"}

\* The invariant that proves the safety properties.
SafetyInv ==
  /\ TypeOK /\ NoWorkerLost /\ OneDraining /\ PendingHangupKept
  /\ ProbeInv /\ CurrentInv /\ BooksInv /\ EarlyInv
  /\ ShutdownSignalled /\ ShutdownInv /\ KilledBeforeRelease /\ TwoInv
  /\ ResourceInv /\ RunResult /\ StatusExact

-----------------------------------------------------------------------------
(* Liveness.                                                                *)

\* The goroutines run, timers expire, select chooses among ready cases at
\* random (so a case ready again and again is eventually taken) and cmd.Wait
\* returns for a process that has exited.  Of several waiters, some one makes
\* progress.  Nothing is assumed of the workers.
Fairness ==
  /\ WF_vars(LoopStep) /\ WF_vars(RunReturn)
  /\ SF_vars(CtxDone) /\ SF_vars(RecvHangup)
  /\ SF_vars(\E w \in Pids : RecvCurrentExit(w) \/ RecvOldExit(w))
  /\ WF_vars(\E w \in Pids : Waiter(w))

FairSpec == Spec /\ Fairness

\* Workers that exit some time after they have been signalled.
WorkersObey == WF_vars(\E w \in Pids : signals[w] # {} /\ WorkerExits(w))

Stopping == pc \in {"shutdown", "drain", "reap"} \cup Released

\* A run that is cancelled, or fails, comes to an end, whatever the workers do and
\* even if they survive SIGKILL, and no waiter goroutine is left blocked on
\* workerCh, from which nobody receives any more.
ShutdownCompletes ==
  (ctxDone \/ Stopping) ~> (pc = "exited" /\ \A w \in Pids : proc[w] # "reaped")

Lists(n) == status # NoFile /\ n \in DOMAIN status
ListsLaterThan(n) == status # NoFile /\ \E g \in DOMAIN status : g > n

\* With workers that obey, a hangup leads to a status file that lists a generation
\* later than all it listed when the request was made, unless the run ends or the
\* file cannot be written: the drains of the hangup channel drop no request that a
\* new worker does not answer.
HangupServed ==
  WorkersObey =>
    \A n \in 1..MaxEvents + 1 :
      (hangup /\ Lists(n) /\ ~ListsLaterThan(n))
        ~> (ListsLaterThan(n) \/ Stopping \/ statusStale)
=============================================================================
