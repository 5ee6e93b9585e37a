-------------------------------- MODULE Daemon --------------------------------
(***************************************************************************)
(* The start_server command (internal/cli): the launcher that --daemonize  *)
(* leaves waiting on the readiness pipe, the process that runs the         *)
(* supervisor and reports on that pipe, its watchSignals goroutine, and    *)
(* the signals sent to it.  Without --daemonize there is no launcher.      *)
(*                                                                         *)
(* The supervisor appears as what Run and RunWithStartupCheck promise the  *)
(* command: starting, up once a worker has passed its check, and down with *)
(* the terminal error of the controller; module Supervisor models it.      *)
(***************************************************************************)
EXTENDS Naturals

CONSTANT MaxSignals  \* bound on the signals sent to the process

ASSUME MaxSignalsAssumption == MaxSignals \in Nat

VARIABLES
  daemon,      \* was --daemonize given?
  lpc,         \* where the launcher stands
  pipe,        \* what is in the readiness pipe
  wopen,       \* is its write end open in the child?
  cpc,         \* where the run function of the process stands
  code,        \* its exit code: "none" before the exit, "0", "1"
  sigCh,       \* the channel of signal.Notify (capacity 1)
  ready,       \* does controllerReady hold the controller?
  wpc,         \* where watchSignals stands
  wctrl,       \* has watchSignals got the controller?
  pendingHUP,  \* its pendingHUP
  ctx,         \* is the context cancelled?
  hangupCh,    \* is a hangup request waiting in the controller?
  sup,         \* the supervisor: "idle", "starting", "up", "down"
  supErr,      \* the terminal error: "nil", "closed", "failure"
  startup,     \* result of the startup check: "none", "ok", "failure"
  sent,        \* signals sent so far
  termSent     \* history: a TERM was sent to the running command

launcherVars == <<daemon, lpc>>
pipeVars == <<pipe, wopen>>
runVars == <<cpc, code>>
watchVars == <<sigCh, ready, wpc, wctrl, pendingHUP>>
supVars == <<sup, supErr, startup>>
sendVars == <<sent, termSent>>
daemonVars == <<launcherVars, pipeVars, runVars, watchVars, ctx, hangupCh,
                supVars, sendVars>>

DaemonInit ==
  /\ daemon \in BOOLEAN
  /\ lpc = IF daemon THEN "launch" ELSE "none"
  /\ cpc = IF daemon THEN "none" ELSE "setup"
  /\ pipe = "empty" /\ wopen = FALSE /\ code = "none"
  /\ sigCh = "none" /\ ready = FALSE
  /\ wpc = "none" /\ wctrl = FALSE /\ pendingHUP = FALSE
  /\ ctx = FALSE /\ hangupCh = FALSE
  /\ sup = "idle" /\ supErr = "nil" /\ startup = "none"
  /\ sent = 0 /\ termSent = FALSE

\* The process is no more; the kernel closes what it had open.
Ended == cpc \in {"exited", "killed"}

\* The process exits with the given code, after the deferred cancel.
ExitWith(c) ==
  /\ cpc' = "exited" /\ code' = c
  /\ wopen' = FALSE /\ ctx' = TRUE

-----------------------------------------------------------------------------
(* The launcher.                                                            *)

\* daemonize starts the child, or fails to, or cannot close its own write end.
Launch ==
  /\ lpc = "launch"
  /\ \/ lpc' = "error" /\ UNCHANGED <<cpc, wopen>>
     \/ lpc' \in {"read", "closeError"} /\ cpc' = "setup" /\ wopen' = TRUE
  /\ UNCHANGED <<daemon, pipe, code, watchVars, ctx, hangupCh, supVars, sendVars>>

\* readDaemonStatus: a complete frame followed by the end of the pipe.
ReadStatus ==
  /\ lpc = "read" /\ ~wopen
  /\ lpc' = IF pipe = "ready" THEN "ok"
            ELSE IF pipe = "failed" THEN "failed" ELSE "noStatus"
  /\ UNCHANGED <<daemon, pipeVars, runVars, watchVars, ctx, hangupCh, supVars,
                 sendVars>>

\* The launcher is killed while it waits.
LauncherKilled ==
  /\ lpc = "read"
  /\ lpc' = "killed"
  /\ UNCHANGED <<daemon, pipeVars, runVars, watchVars, ctx, hangupCh, supVars,
                 sendVars>>

-----------------------------------------------------------------------------
(* run, in the process that becomes the supervisor.                         *)

\* Settings, the log file and NewStarter succeed; or one of them fails and is
\* reported; or the arguments or the readiness descriptor are unusable.  The
\* actions --help, --version, --stop and --restart never come here.
Setup ==
  /\ cpc = "setup"
  /\ \/ cpc' \in {"notify", "fail"} /\ UNCHANGED <<code, wopen, ctx>>
     \/ ExitWith("1")
  /\ UNCHANGED <<launcherVars, pipe, watchVars, hangupCh, supVars, sendVars>>

\* signal.Notify, the watchSignals goroutine and the call of Run.
StartRun ==
  /\ cpc = "notify"
  /\ cpc' = "run" /\ wpc' = "select"
  /\ UNCHANGED <<launcherVars, pipeVars, code, sigCh, ready, wctrl, pendingHUP,
                 ctx, hangupCh, supVars, sendVars>>

\* The setup of Run succeeds and its loop goroutine starts.
LaunchLoop ==
  /\ cpc = "run" /\ sup = "idle"
  /\ sup' = "starting"
  /\ UNCHANGED <<launcherVars, pipeVars, runVars, watchVars, ctx, hangupCh, supErr,
                 startup, sendVars>>

\* Mutant of Reported: Run is used where RunWithStartupCheck should be.
NotChecked == sup # "idle"

\* What Run waits for before it returns a controller: with readiness to report
\* the startup check, otherwise only the loop goroutine.
Reported == IF daemon THEN startup = "ok" ELSE sup # "idle"

RunReturnsController ==
  /\ cpc = "run" /\ Reported
  /\ cpc' = "ready" /\ ready' = TRUE
  /\ UNCHANGED <<launcherVars, pipeVars, code, sigCh, wpc, wctrl, pendingHUP, ctx,
                 hangupCh, supVars, sendVars>>

\* Run fails in its setup, or returns the result of a failed startup check once
\* the supervisor has gone.
RunReturnsError ==
  /\ cpc = "run"
  /\ sup = "idle" \/ (daemon /\ startup = "failure" /\ sup = "down")
  /\ cpc' = "fail"
  /\ UNCHANGED <<launcherVars, pipeVars, code, watchVars, ctx, hangupCh, supVars,
                 sendVars>>

\* failStartup: the header of a failure goes out, if there is a pipe and
\* somebody reads it.
ReportFailure ==
  /\ cpc = "fail"
  /\ cpc' = "failBody"
  /\ pipe' = IF wopen /\ lpc = "read" THEN "header" ELSE pipe
  /\ UNCHANGED <<launcherVars, wopen, code, watchVars, ctx, hangupCh, supVars,
                 sendVars>>

\* The body follows, and the pipe is closed.
ReportFailureBody ==
  /\ cpc = "failBody"
  /\ cpc' = "failExit"
  /\ pipe' = IF pipe = "header" /\ lpc = "read" THEN "failed" ELSE pipe
  /\ wopen' = FALSE
  /\ UNCHANGED <<launcherVars, code, watchVars, ctx, hangupCh, supVars, sendVars>>

ExitFailed ==
  /\ cpc = "failExit"
  /\ ExitWith("1")
  /\ UNCHANGED <<launcherVars, pipe, watchVars, hangupCh, supVars, sendVars>>

\* Mutant of ReportReady: the pipe stays open after the report.
ReadyKeepsPipe ==
  /\ cpc = "ready"
  /\ pipe' = IF daemon /\ lpc = "read" THEN "ready" ELSE pipe
  /\ wopen' = wopen /\ cpc' = "wait"
  /\ UNCHANGED <<launcherVars, code, watchVars, ctx, hangupCh, supVars, sendVars>>

\* readiness.ready: the report is written and the pipe closed.  The run is
\* cancelled when nobody reads the pipe any more, or the close fails.
ReportReady ==
  /\ cpc = "ready"
  /\ \/ /\ ~daemon
        /\ cpc' = "wait" /\ UNCHANGED <<pipeVars, ctx>>
     \/ /\ daemon /\ lpc = "read"
        /\ cpc' \in {"wait", "abort"} /\ ctx' = (ctx \/ cpc' = "abort")
        /\ pipe' = "ready" /\ wopen' = FALSE
     \/ /\ daemon /\ lpc # "read"
        /\ cpc' = "abort" /\ pipe' = pipe /\ wopen' = FALSE /\ ctx' = TRUE
  /\ UNCHANGED <<launcherVars, code, watchVars, hangupCh, supVars, sendVars>>

\* Mutant of CleanEnd: the terminal error is not looked at.
AnyEnd == TRUE

\* ErrServerClosed, the terminal error of a run ended by its context, counts as
\* a success.
CleanEnd == supErr \in {"nil", "closed"}

\* ctrl.Wait returns.
WaitReturns ==
  /\ cpc \in {"wait", "abort"} /\ sup = "down"
  /\ ExitWith(IF cpc = "wait" /\ CleanEnd THEN "0" ELSE "1")
  /\ UNCHANGED <<launcherVars, pipe, watchVars, hangupCh, supVars, sendVars>>

-----------------------------------------------------------------------------
(* watchSignals.                                                            *)

WatchEnds ==
  /\ wpc = "select" /\ (ctx \/ Ended)
  /\ wpc' = "done"
  /\ UNCHANGED <<launcherVars, pipeVars, runVars, sigCh, ready, wctrl,
                 pendingHUP, ctx, hangupCh, supVars, sendVars>>

\* Mutant of WatchController: the hangup that came first is forgotten.
WatchForgets ==
  /\ wpc = "select" /\ ready
  /\ ready' = FALSE /\ wctrl' = TRUE /\ pendingHUP' = FALSE
  /\ UNCHANGED <<launcherVars, pipeVars, runVars, sigCh, wpc, ctx, hangupCh,
                 supVars, sendVars>>

\* The controller arrives; a hangup received before it is passed on.
WatchController ==
  /\ wpc = "select" /\ ready
  /\ ready' = FALSE /\ wctrl' = TRUE /\ pendingHUP' = FALSE
  /\ hangupCh' = (hangupCh \/ pendingHUP)
  /\ UNCHANGED <<launcherVars, pipeVars, runVars, sigCh, wpc, ctx, supVars,
                 sendVars>>

WatchHUP ==
  /\ wpc = "select" /\ sigCh = "HUP"
  /\ sigCh' = "none"
  /\ IF wctrl THEN hangupCh' = TRUE /\ pendingHUP' = pendingHUP
              ELSE hangupCh' = hangupCh /\ pendingHUP' = TRUE
  /\ UNCHANGED <<launcherVars, pipeVars, runVars, ready, wpc, wctrl, ctx,
                 supVars, sendVars>>

\* Mutant of WatchTERM: a shutdown waits for the controller.
WatchTERMLate ==
  /\ wpc = "select" /\ sigCh = "TERM" /\ wctrl
  /\ sigCh' = "none" /\ ctx' = TRUE /\ wpc' = "done"
  /\ UNCHANGED <<launcherVars, pipeVars, runVars, ready, wctrl, pendingHUP,
                 hangupCh, supVars, sendVars>>

\* TERM, and INT and QUIT with it, cancel the context.
WatchTERM ==
  /\ wpc = "select" /\ sigCh = "TERM"
  /\ sigCh' = "none" /\ ctx' = TRUE /\ wpc' = "done"
  /\ UNCHANGED <<launcherVars, pipeVars, runVars, ready, wctrl, pendingHUP,
                 hangupCh, supVars, sendVars>>

-----------------------------------------------------------------------------
(* The supervisor as the command sees it.                                   *)

\* The first worker passes its check; loop reports ctx.Err if ctx has ended.
WorkerUp ==
  /\ sup = "starting" /\ ~Ended
  /\ sup' = "up"
  /\ startup' = IF ctx THEN "failure" ELSE "ok"
  /\ UNCHANGED <<launcherVars, pipeVars, runVars, watchVars, ctx, hangupCh, supErr,
                 sendVars>>

\* The run ends by its context or by a failure.
SupEnds ==
  /\ sup \in {"starting", "up"} /\ ~Ended
  /\ sup' = "down"
  /\ supErr' \in IF ctx THEN {"closed", "failure"} ELSE {"failure"}
  /\ startup' = IF sup = "starting" THEN "failure" ELSE startup
  /\ UNCHANGED <<launcherVars, pipeVars, runVars, watchVars, ctx, hangupCh,
                 sendVars>>

\* loop takes a hangup request.
ServeHangup ==
  /\ sup = "up" /\ hangupCh /\ ~Ended
  /\ hangupCh' = FALSE
  /\ UNCHANGED <<launcherVars, pipeVars, runVars, watchVars, ctx, supVars,
                 sendVars>>

-----------------------------------------------------------------------------
(* Signals.                                                                 *)

\* A signal reaches the process after signal.Notify: it goes into the channel,
\* and is dropped when the channel is full.
SendSignal(sig) ==
  /\ wpc # "none" /\ ~Ended
  /\ sent < MaxSignals /\ sent' = sent + 1
  /\ sigCh' = IF sigCh = "none" THEN sig ELSE sigCh
  /\ termSent' = (termSent \/ sig = "TERM")
  /\ UNCHANGED <<launcherVars, pipeVars, runVars, ready, wpc, wctrl, pendingHUP,
                 ctx, hangupCh, supVars>>

\* SIGKILL, or any signal before signal.Notify: the process is gone.
Killed ==
  /\ cpc # "none" /\ ~Ended
  /\ sent < MaxSignals /\ sent' = sent + 1
  /\ cpc' = "killed" /\ wopen' = FALSE
  /\ UNCHANGED <<launcherVars, pipe, code, watchVars, ctx, hangupCh, supVars,
                 termSent>>

-----------------------------------------------------------------------------

RunStep ==
  \/ Setup \/ StartRun \/ LaunchLoop \/ RunReturnsController \/ RunReturnsError
  \/ ReportFailure \/ ReportFailureBody \/ ExitFailed
  \/ ReportReady \/ WaitReturns

\* The command is over, with its launcher: nothing more happens.
AllOver ==
  /\ lpc \notin {"launch", "read"}
  /\ cpc = "none" \/ Ended
  /\ UNCHANGED daemonVars

DaemonNext ==
  \/ Launch \/ ReadStatus \/ LauncherKilled
  \/ RunStep
  \/ WatchEnds \/ WatchController \/ WatchHUP \/ WatchTERM
  \/ WorkerUp \/ SupEnds \/ ServeHangup
  \/ (\E sig \in {"HUP", "TERM"} : SendSignal(sig)) \/ Killed
  \/ AllOver

DaemonSpec == DaemonInit /\ [][DaemonNext]_daemonVars

\* Goroutines and processes run, and a cancelled supervisor ends.  A start may
\* go on for ever: startWorker retries transient errors without a limit.
Fairness ==
  /\ WF_daemonVars(Launch) /\ WF_daemonVars(ReadStatus)
  /\ WF_daemonVars(RunStep)
  /\ WF_daemonVars(WatchEnds) /\ WF_daemonVars(WatchController)
  /\ WF_daemonVars(WatchHUP) /\ WF_daemonVars(WatchTERM)
  /\ WF_daemonVars(ctx /\ SupEnds)

FairDaemonSpec == DaemonSpec /\ Fairness

-----------------------------------------------------------------------------
(* Properties.                                                              *)

\* What the launcher is told is so: it exits with success only if the first worker
\* passed its startup check, and a failure, or the end of the pipe without a report,
\* leaves no supervisor running behind.
LauncherTruthful ==
  /\ lpc = "ok" => startup = "ok"
  /\ lpc \in {"failed", "noStatus", "error"} => Ended \/ sup \in {"idle", "down"}

\* The exit code 0 of run stands for a run that a shutdown signal ended, and that
\* the launcher, if there is one, was told of before: a run that ends by a failure,
\* or is cancelled because its report could not be written, is not a success.
CleanExit ==
  code = "0" => termSent /\ supErr = "closed" /\ (daemon => pipe = "ready")

\* The launcher returns once the startup check has a result or the child is
\* gone: the pipe is closed on every path of run.
LauncherReturns ==
  (lpc = "read" /\ (startup # "none" \/ Ended)) ~> lpc # "read"

\* A shutdown signal that watchSignals can receive is obeyed, also while the
\* supervisor is still trying to start its first worker.
TermHandled == sigCh = "TERM" ~> (ctx \/ Ended)

\* A hangup signal received before or after the controller exists reaches the
\* supervisor, unless the run ends.
HupServed ==
  ((sigCh = "HUP" \/ pendingHUP) /\ startup = "ok") ~> (hangupCh \/ ctx \/ Ended)

\* What the comment in watchSignals says, "INT, TERM, or QUIT requests
\* shutdown", of every such signal sent to the running command.
TermNeverLost == termSent ~> (ctx \/ Ended)

-----------------------------------------------------------------------------
(* The inductive invariant behind LauncherTruthful and CleanExit.           *)

\* The startup check has its result when the first worker is up or all is over.
StartupInv ==
  /\ sup \in {"idle", "starting", "up", "down"}
  /\ startup = "ok" => sup \in {"up", "down"}
  /\ sup = "down" => supErr # "nil"

\* run goes on to report readiness after the check only, and to report a failure
\* when no supervisor runs; the pipe says what run knows.
ReportInv ==
  /\ daemon /\ cpc \in {"ready", "wait", "abort"} => startup = "ok"
  /\ daemon /\ cpc = "wait" => pipe = "ready"
  /\ pipe = "ready" => startup = "ok"
  /\ cpc \in {"none", "setup", "notify", "fail", "failBody", "failExit"} =>
       sup \in {"idle", "down"}

\* The pipe is closed under the eyes of the launcher after a whole report, or by
\* the end of the process.
LauncherInv ==
  /\ daemon \in BOOLEAN
  /\ ~daemon => lpc = "none"
  /\ lpc \in {"launch", "error"} <=> daemon /\ cpc = "none"
  /\ lpc = "read" /\ ~wopen =>
       \/ Ended
       \/ cpc \in {"wait", "abort"} /\ pipe = "ready"
       \/ cpc = "failExit" /\ pipe = "failed"
  /\ lpc = "read" /\ cpc = "failBody" => pipe = "header"
  /\ lpc \in {"failed", "noStatus"} => Ended \/ cpc = "failExit"

\* The context is cancelled by a shutdown signal, or by run itself on its way to
\* a failure or after its exit.
ContextInv ==
  /\ sigCh = "TERM" => termSent
  /\ ctx => termSent \/ Ended \/ cpc = "abort"
  /\ supErr = "closed" => termSent \/ Ended \/ cpc = "abort"

DaemonInv ==
  /\ StartupInv /\ ReportInv /\ LauncherInv /\ ContextInv
  /\ code # "none" => cpc = "exited"
  /\ LauncherTruthful /\ CleanExit
=============================================================================
