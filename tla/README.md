# A TLA+ model of server-starter

server-starter supervises a server that is restarted without closing its
listening sockets: the supervisor binds them, starts a *worker* that inherits
them, and on a hangup starts the next worker before it asks the old one to
leave. This directory models the parts of it that are hard to test (goroutines,
processes, signals, locks and files that change under each other), checks them
with TLC on small instances, and proves the main safety properties with TLAPS
for instances of every size.

## The system

| Part | Source | State | Operations |
|---|---|---|---|
| Supervisor | `internal/supervisor/supervisor.go` | current worker, old workers with their generations, pending hangup, auto-restart timer, pid file, listeners | `run`, `loop`, `shutdownWorkers`, `waitForWorkers`, `teardown` |
| Worker start | `internal/supervisor/worker.go`, `worker_unix.go` | the process under probe, one waiter goroutine per worker | `startWorker`, `waitForProbe`, `waitForWorkerStartRetry`, `findWorker` |
| Controller | `internal/supervisor/controller.go` | hangup channel (capacity 1), terminal error, done channel | `Hangup`, `Err`, `Wait`, `Done` |
| Status file | `internal/statefile/status.go` | generation to pid | `WriteStatus`, `ReadStatus` |
| Pid file | `internal/statefile/pidfile*.go` | a name, an inode, its text, a flock and a record lock | `Acquire`, `Close`, `OpenRunningPID`, `Exited` |
| Control | `internal/control/control.go` | none of its own | `Stop`, `Restart` |
| Command | `internal/cli/cli.go` | signal channel (capacity 1), context, controller | `run`, `watchSignals` |
| Launcher | `internal/cli/daemon.go` | the readiness pipe | `daemonize`, `ready`, `failed`, `readDaemonStatus` |
| Hand-off | `internal/supervisor/portspec.go`, `ports.go`, `listener.go` | descriptor layout, two environment variables | `assignListenerDescriptors`, `FormatPorts`, `Ports`, `ListenAll`, `ListenPacketAll` |
| Configuration | `internal/cli/settings.go`, `options.go`, `internal/supervisor/starter.go` | none after start | `resolveSettings`, `NewStarter` |
| Envdir | `internal/supervisor/env.go`, `worker.go` | the values read last | `reloadEnv`, `buildWorkerEnv` |

The launcher starts the command as a daemon and waits on the pipe. The command
takes the pid file, binds the listeners and starts the loop. The loop starts
workers through the hand-off, and writes the status file. `Stop` and `Restart`
find the process through the pid file, signal it, and watch the pid file lock
or the status file. The signals go through `watchSignals` to the controller or
the context.

What makes this hard: the loop receives exits, hangups, timer and cancellation
in any order, and blocks in `startWorker` and in the kill delay while they pile
up; a worker may die at any time, and may ignore signals; every setup step,
start and file operation may fail with earlier ones done; supervisors that
start, stop and crash race for one file name; the launcher and the daemon may
each die while the other reports; files and directories are edited while they
are read.

## Modules

**Supervisor** is one `Run`. `pc` is where the goroutine of `run`, later of
`loop`, stands; a step goes from one point where it blocks, or can be observed,
to the next. `p`, `oldWorkers`, `generation`, `hangupPending`, `sigToSend`,
`timer` are the variables of the code; `proc`, `genOf` and `signals` are the
worker processes, `hangup`, `ctxDone`, `err`, `startup`, `ret` what the caller
shares with the run. `Validate`, `Acquire`, `Bind`, `Launch` are the setup;
`StartCancelled` to `ProbeFails` are `startWorker`; `Top` is the head of the
loop with `WriteStatus`; `RecvCurrentExit`, `RecvOldExit`, `CtxDone`,
`RecvHangup`, `RecvTimer` are the cases of its select; `KillOld` is the rest of
a restart; `Shutdown` to `ShutdownReturns` are `shutdownWorkers`;
`ReleasePIDFile` to `Finish` are the deferred calls, in their order. `Reap` and
`WaiterAbandons` are the waiter goroutine. Workers exit, and the caller hangs up
and cancels, at any time.

**PIDFile** has one step per system call of `acquire`, `closePIDFile`,
`OpenRunningPID`, `Stop` and `Exited`, for any number of supervisors and
clients. An inode has text, an exclusive flock holder, shared holders and a
record lock holder. A supervisor can crash at every point.

**Daemon** is the command: launcher, pipe, `run`, `watchSignals`, the signal
channel. The supervisor appears as what `Run` promises.

**Handoff** is the way of the listeners to the worker: the layout loop by loop,
the `ExtraFiles` slot by slot with a failure possible at each, the wire format
as operators (`Formats`, `ParsePorts`, `ApplySocketTypes`), and the worker.
A name is a *spelling*: port, host and port, the same with the UDP marker,
plain, reserved characters, empty, each with or without a slash. The parser
distinguishes no more than that.

**GracefulRestart** is what a run promises, seen from outside: which generations
run, which of them is current, which drain, and which have been signalled. A
candidate is brought up while the old worker still runs, and only then is the old
one told. **SupervisorRefinement** maps the state of `Supervisor` to it; a worker
of the abstract specification is a running process.

**Restart** composes callers of `control.Restart` with the whole of `Supervisor`:
`Open`, the read of the status file, the signal, and the polls with
`generationAdvanced` and `oldWorkersGone`. SIGHUP takes its way through the
signal channel.

**Handover** is several supervisors over one pid file and one status path, with
crashes, refused starts, and a caller of Restart that knows the file only by its
path. Each supervisor is reduced to what it does with the files and its workers,
and restarts whenever no old worker is left, as anybody may ask it to and the
timer does. A worker that is sent KILL is gone at once. The pid file has one owner
at a time, as **Ownership** says, which `PIDFile` and `PIDFileWindows` are shown to
implement.

**PIDFileWindows** has one step per call of the Windows variant, where a file
that is open cannot be removed and locks are mandatory: the exchange of the
exclusive lock for a shared one, supervisors of older versions that keep the
exclusive lock, the owner's pid that a refused supervisor reads or fails to read,
the late `os.Remove`, the clients' probe.

**ControlPath** is the walk of the control commands to the directory of the pid
file, with its checks of owner, mode and links: both implementations, one after
the other on the same tree, with a failure possible at every call.

**Settings** goes from flags and environment to the fields of the Starter, with
integers that wrap. **CommandPath** asks which file the command names to
`NewStarter`, to `execve` and to the inspection after an error, in trees with
symbolic links, from a directory that may be missing. **Invocation** composes one
command line: Settings decides; a supervisor goes on with CommandPath, `--stop` and
`--restart` with ControlPath.

**WorkerEnv** reads the envdir entry by entry beside edits of it and says when
`loop` does so. **Launch** is one `startWorker` seen from the process: whether its
descriptors can be had, what `cmd.Start` answers for the directory, the command,
its interpreter, the arguments and the environment, which errors are final, the
startup probe, and who reaps the process.

Modules named **MC...** hold the sets that the configurations use; `Daemon`,
`Launch` and `PIDFile` need none and are checked directly. Modules named
**...Proofs** hold the theorems.
Definitions whose comment begins with "Mutant of" are altered forms of the
definition they name: put in its place, each makes the property it was written
for fail.

## Runs

| Run | Configuration | Properties | Result |
|---|---|---|---|
| `supervisor` | `MCSupervisor.cfg` | no worker lost, pending hangup kept, exact status file, KILL before release, everything released, timer kept, GracefulRestart implemented | pass, 1.0 million states |
| `restart` | `MCRestart.cfg` | nil from Restart: the workers seen are gone, a later generation has taken over; Restart returns; hangups are answered; a run that stops ends, with its waiters | pass, 118 thousand states |
| `pidfile` | `MCPIDFile.cfg` | no stale pid signalled, Stop sound, Stop returns, Ownership implemented | pass, 57 thousand states |
| `windows` | `MCPIDFileWindows.cfg` | the name is the owner's, refusals name the holder, Ownership implemented | pass, 18 thousand states |
| `daemon` | `MCDaemon.cfg` | launcher truthful, exit code 0 only for a reported run that a signal ended, launcher returns, TERM and HUP obeyed | pass, 9 thousand states |
| `handoff` | `MCHandoff.cfg` | no leak, faithful hand-off, accepted means servable, all or nothing | pass, 36 thousand states |
| `handover` | `MCHandover.cfg` | nil from Restart across a handover; no supervisor writes over the status of the one that serves | pass, 2.9 million states |
| `invocation` | `MCInvocation.cfg` | usable interval, the validated file is the executed one if any is, the walk to the pid file is exact, both walkers agree, descriptors balanced | pass, 3.1 million states |
| `env` | `MCWorkerEnv.cfg` | a load of the envdir ends the run only for cause; a worker has the edits made before a hangup that is not folded into a restart under way | pass, 4.2 million states |
| `launch` | `MCLaunch.cfg` | given up only for cause, reaped once and by who can tell the status, a start ends but for three named causes | pass, 2.3 million states |
| `handover_refused` | `MCHandover_refused.cfg` | "releasing whatever was already acquired" | violated |
| `daemon_term` | `MCDaemon_term.cfg` | "INT, TERM, or QUIT requests shutdown" | violated |

The two violated properties state what comments of the code say:

- A start that fails releases what it had acquired. A supervisor that is refused
  the pid file removes the status file too, which is that of the one that serves;
  until that one writes it again, `Restart` fails (`StatusKept`).
- A shutdown signal requests shutdown. The signal channel has room for one; while
  a HUP is in it a TERM is dropped (`TermNeverLost`).

The models show eight more such disagreements. Each has a definition, whose
comment quotes the statement; add it to the configuration named here, as an
INVARIANT (`FreshOnEverySpawn` as a PROPERTY), and TLC prints the behaviour.

- `ErrNilBeforeExit`, `MCSupervisor.cfg`: `Controller.Err` is documented as "nil
  before the run exits". `loop` stores the error before its deferred
  `shutdownWorkers`, which may take two grace periods.
- `StopWaitsForExit`, `MCPIDFile.cfg`: `Stop` is documented to wait for the exit.
  It waits for the lock, which is released before the status file is removed and
  the listeners are closed.
- `LockedMeansLive`, `MCPIDFile.cfg`: `ErrPIDFileLocked` is documented to mean a
  live supervisor. A `Stop` in its last poll holds a shared lock and has the same
  effect on a new supervisor.
- `OldServersDead`, `MCHandover.cfg`: `Restart` is documented to wait until the
  old servers die. It waits until they are out of the status file, and after a
  crash the successor's file does not list the orphaned worker. In the other
  direction, a successor whose first worker has the generation that was listed
  makes Restart wait until its timeout.
- `KillOldDelayHonoured`, `MCInvocation.cfg`: `--kill-old-delay` is documented to
  be honoured. Beyond the range of a duration it wraps; the variable, and the
  other settings, are checked.
- `EnvironmentOverwrites`, `MCInvocation.cfg`: the help text says that variables
  overwrite flags. Flags win.
- `FreshOnEverySpawn`, `MCWorkerEnv.cfg`: the environment is documented to be
  built on every spawn from the contents of the envdir. Attempts of one start
  share one reading of it.
- `InspectedIsExecuted`, `MCInvocation.cfg`: the inspection after an EIO is to
  prove that the command cannot be executed. It joins directory and command
  lexically, so that after a symbolic link `..` leads it to another file.

Three properties have exceptions that the code has:

- `HangupFresh` leaves out requests that come after the listing of a respawn or
  restart. The comments in `loop` want them folded into it ("belongs to the restart
  already in progress"), and the buffer is emptied, so that edits made between the
  listing and the request wait for the next restart. With `askedAt' = now` for
  these too TLC prints such a behaviour.
- `StartEnds` leaves out workers that keep exiting early; a command that cannot be
  read with an interpreter that is too short, where the inspection after EIO has
  nothing to go by; and a NUL byte in the environment, for which os/exec has an
  error that neither list of terminal errors names. The last two are retried for
  ever. When descriptors run out it depends on the call: in opening those of the
  worker it ends the start at once, in `cmd.Start` it is retried.
- `ValidatedIsExecuted` allows that nothing is executed when the directory is
  missing. An absolute or bare command is validated without a look at the
  directory; any other is looked up in it, and refused.

### Bounds

- *Supervisor*: three pids, because at most two workers run and a third must be
  there for a mistake to show; `MaxEvents` = 4 environment events (worker exits,
  hangups, timer, failures), enough for a restart, a hangup during its drain, a
  death of the successor and one more; one listener beside the pid file, so that
  `Bind` can fail with something held. The proofs have no such bounds.
- *Restart*: two pids, one caller and, beside its SIGHUP and the timer, one event,
  so that the hangup can be coalesced with a respawn or meet the end of the run.
- *PIDFile*: two supervisors, three inodes (one left by a crash, one unlinked, one
  new) and one client. Three supervisors are covered by the proofs.
- *PIDFileWindows*: two supervisors, one of an older version, one client, three
  files.
- *Daemon*: `MaxSignals` = 3: two fill the channel, one more is lost or kills.
- *Handoff*: `MaxFD` = 7 for 1024 and `MaxSparse` = 2 for 256; requests of
  descriptors at, below and above each limit. All pairs of listeners, as
  entries are formatted one by one; all layouts of three ports.
- *Handover*: three supervisors, so that one can be refused while another takes
  over from a third; two generations each and one crash.
- *Invocation*: a machine word that holds 409 seconds (`MaxInt` = 4095, `Second` =
  10), with every flag and variable absent, malformed or at an edge of its range;
  paths of two components over three directories for the command, of four over
  four nodes for the pid file. The three parts vary one at a time, as nothing
  passes between them but the decision which of them runs.
- *WorkerEnv*: a variable of the protocol, an ordinary one and a dot file; two
  edits, so that one can come before a listing and one between listing and read;
  three generations.
- *Launch*: `MaxChanges` = 3 changes of directory, files or faults in one start,
  which has its arguments from the beginning; `PathErrors` are the five that the
  common list of terminal errors names.

Symmetry is used for safety only. Deadlock is checked where a model has an action
for being over; `Handover`, `PIDFileWindows` and `WorkerEnv` stop when their
bounds are used up or all their processes are gone.

### Fairness

`Supervisor`: goroutines run and timers expire (weak fairness of the loop, and of
the waiters together), and select picks among ready cases at random (strong
fairness of the cases of cancellation, hangup and exits). Nothing is assumed of
workers in `ShutdownCompletes`. `HangupServed` and `RestartReturns` have
`WorkersObey` as a hypothesis, that workers exit some time after a signal: without
it the drain that a pending hangup waits for need not end, in the code either.
Failures of the start are environment events and so finitely many; with endless
transient errors `startWorker` retries for ever. `Restart` adds that callers run
until they return and that the signal arrives; that their context expires is not
assumed.
`PIDFile`: processes run and a supervisor sent SIGTERM ends its run. No context
is assumed to expire. `Daemon`: goroutines and processes run and a cancelled
supervisor ends (`ShutdownCompletes` of `Supervisor`). It is not assumed that a
start ends. `Launch`: `startWorker` runs and faults of the file system pass;
nothing is assumed of the worker or of who edits the files.

## Proofs

Every invariant, action property and refinement that the passing runs check is
also proved, without bounds on pids, configurations, listeners, events,
supervisors, callers, clients, files, variables, words, units, trees and paths.
The name of the property is in parentheses where it is another:

- *SupervisorProofs*, the run by itself: `TypeCorrect`, `WorkersAccountedFor`
  (NoWorkerLost), `TwoWorkers` (AtMostTwoWorkers), `RestartsInTurn` (OneDraining),
  `HangupsAreKept` (PendingHangupKept), `StatusIsExact`, `ShutdownAsksAll`
  (ShutdownSignalled), `ShutdownEscalates` (KilledBeforeRelease), `ExitReleases`
  (ExitReleasesAll), `RunReports` (RunResult), `TimerIsArmed`
  (TimerKeepsRunning), `ErrIsFinal` (ErrSetOnce), `SuccessorIsFirst`;
- *RestartProofs*, the run, its abstract specification and the callers of Restart:
  `SupervisorImplements` (ImplementsGracefulRestart); `OrderlyRestarts`, that the
  abstract specification signals only workers that a later generation has
  replaced, or in a run that ends; `WorkersOrderly`, which the supervisor inherits
  by the refinement; `RestartIsSound` (RestartSound), `RestartFindsSuccessor`
  (RestartHasSuccessor); `RestartsDisturbNothing` and `RestartImplements`, that all
  this holds with callers beside the run;
- *PIDFileProofs*, the pid file on Linux: `TypeCorrect`, `NameIsOwners`,
  `MutualExclusion`, `NoStaleSignal` (StaleNeverSignalled), `StopIsSound`
  (StopSound), `RemovesOnlyOwn`, `PIDFileImplementsOwnership`
  (ImplementsOwnership);
- *PIDFileWindowsProofs*, on Windows: `WindowsMutualExclusion`, `OwnerKeepsName`
  (OwnerNamed), `RefusalIsTruthful` (RefusalNamesHolder),
  `WindowsImplementsOwnership` (ImplementsOwnership);
- *HandoverProofs*: `HandoverIsSound` (HandoverSound), `StatusStaysOwn`
  (StatusOwn);
- *HandoffProofs*: `LayoutIsSafe`, `NothingLeaks`, `HandoffIsFaithful`,
  `AcceptedStaysServable`, `ListenAllOrNothing`;
- *WorkerProofs*, the envdir, one start, and the command: `LoadIsExact`,
  `StopHasCause` (StopsOnlyForCause), `ProtocolIsOwn`, `HangupIsFresh`;
  `GivenUpOnlyForCause` (GivenUpForCause), `AlwaysReapedOnce` (ReapedOnce);
  `LauncherIsTruthful`, `ExitIsClean` (CleanExit);
- *InvocationProofs*: `IntervalAlwaysUsable` (IntervalUsable) of Settings;
  `ValidatedIsAlwaysExecuted` (ValidatedIsExecuted) of CommandPath;
  `WalkIsAlwaysExact` (WalkIsExact), `WalkersAlwaysAgree` (WalkersAgree) and
  `FDsAlwaysBalanced` (FDsBalanced) of ControlPath; `InvocationComposes`, that
  an invocation is a behaviour of Settings, of CommandPath and of ControlPath;
  and what it inherits from them, `InvocationIntervalUsable`,
  `InvocationValidates`, `InvocationWalkIsExact`, `InvocationWalkersAgree`,
  `InvocationFDsBalanced`.

They rest on the named assumptions of the modules: `NoPid` is not a pid and
`None` neither a supervisor nor a file, older supervisors are supervisors, the
configurations are records of Booleans, requests are sequences of listeners, paths
are sequences of names, errors of a path are among the five named ones, the bounds
are natural numbers, the readiness variable is not one of the protocol's, the
default interval is a duration, and flags and variables that are numbers are
integers.

The supervisor's invariant is `SafetyInv`. NoWorkerLost is not inductive:
that the exit of an old worker takes nothing else off the books needs
`BooksInv` (an entry is a process under the generation it was given, and
generations are given once), that a restart moves the current worker needs
`CurrentInv` (in the body of `loop` there always is one, of the latest
generation), and that a cancelled probe hands over the right process needs
`ProbeInv`. `EarlyInv` says that nothing drains before the first restart, from
which OneDraining follows by the guard `MayRestart`; `TwoInv` names the at most
two processes and gives the bound on the cardinality. `ShutdownInv` carries the
signals through the two waits, `ResourceInv` what is held at each point. Each
has a lemma that a step preserves it: most first state a frame condition under
which the conjunct survives, show it for the actions that leave the conjunct
alone, and argue each remaining action by itself. The theorems follow from
`AlwaysSafetyInv`. `CurrentInv` also shows that the tests of `loop`
for a nil worker never succeed: its comment that `startWorker` "can return nil"
describes an earlier version.

The refinement uses `SafetyInv` and `SetupInv` (nothing has been returned or asked
for before the loop starts). Most steps are *quiet*: no process starts, exits or
is signalled, and if the stage of the run is the same they map to a stutter. The
others have a lemma each that names the abstract step. `Orderly` of the abstract
specification is made inductive by `StageInv`, which says who is current and who
is a candidate at each stage.

`RestartInv` adds the callers. RestartSound speaks of the moment when a caller
returns, long after it read the file, and the file may have been rewritten, or not
for a while, by every path of the run in between. `FileInv` says what even an old
file tells: a worker that it does not list is younger than all it lists.
`CallerInv` compares the file with the one the caller has read: it is the same,
or it lists every worker seen there that has not gone, and otherwise younger ones.
So a file in which none of the old generations is left means that they are gone.
`ProbedInv` is for the successor: only the worker under probe is not yet through.

The pid file's invariant `IInv` says that locks are held exactly between the
call that takes them and the close (`LockInv`), that an owner's inode is the
one the path names (`PathInv`, from the link count read under the lock), and
that a pid in the text, or read from it, is that of the lock holder or of a
supervisor that is over (`TextInv`, `ClientInv`). Mutual exclusion follows from
the first two: two owners would have one inode locked. On Windows an open file
keeps its name (`OpenNamed`), so all who have a file open have the same one, and
the lock on its first byte decides (`Locks`, `Locked`); `Texts` says whose pid is
in it. Both then implement `Ownership`, in which the set of owners has at most one
member and only its own step takes it out.

`HandoverInv` has the same idea as `RestartInv`, with generations that start again
with each supervisor: the file maps a generation to the supervisor that gave it
out (`Known`), and `CallerInv` again compares the file with the one read before.
StatusOwn follows from `OwnerInv`, as only the owner writes.

`IInv` of the hand-off follows the listeners: `Layout` (the descriptors assigned so
far are distinct, within the limits and leave few gaps), `Formatted` (the text is
that of the listeners that were bound), `Transfer` (the worker's descriptor *k* is
the supervisor's listener). That a name survives formatting and parsing is the
lemmas `ReadsBack` and `TypesRestore`, a case distinction over spellings.

`EnvInv` stamps reads and requests with the number of edits before them: `LoadInv`
compares what has been read with the directory at the listing, `TouchInv` says that
an entry still to be read is a regular file or has been edited since the listing,
and `FreshInv` that a request which was not folded has been answered or will be by
the next load. `IntervalInv` carries the
interval from `resolveSettings` to the Starter; that the product does not wrap is
`SecondsFit` and `SecondsExact`.

`LaunchInv` stamps what startWorker knows of directory and files with the attempt
(`CauseInv`: it was so at some moment of it) and says whose the process is
(`ReapInv`). `DaemonInv` ties together what the pipe says, where run is and what the supervisor
does: `ReportInv` that readiness is written only after the check, `LauncherInv`
that the launcher sees the pipe closed only after a whole report or the end of the
process, `ContextInv` who may have cancelled the run.

`ControlInv` says that both walkers have come as far as the kernel would have
(`FirstInv`, `SecondInv`): the directory at hand is where the kernel is after the
components taken, and what was passed was allowed. Their results then depend on
tree and path alone (`Verdict`), which is why they agree. For `..` the first walker
goes back on its stack while the kernel follows the tree; `StackInv` says that the
stack is the way from the root. `FDInv` and `OpenInv` count descriptors.
`CommandInv` says that what was validated is what `commandForValidation` names;
that execve finds the same file is the lemma `WalkTwice`: to walk along two paths
one after the other is to walk along their concatenation. That it finds one, unless
the directory is missing, needs `WalkNowhere`: a walk that has left the tree does
not come back.

Both need to know what a fold along a path computes, for paths of every length.
The library's induction theorems cannot be used, so the module begins with
`SetInduction`, which follows from the well-foundedness of the natural numbers and
takes a set in place of a predicate. `IterExists` and `WalkTrace` go from the fold
to its *trace*, the sequence of directories it comes through; `TraceUnique` and
`WalkEnds` say that there is one trace and that the walk ends where it does
(`LookupIterExists`, `LookupTrace`, `LookupUnique` and `LookupEnds` for commands).
The other lemmas only use traces.

Only model-checked: liveness, which is out of the prover's reach. That is
`RestartReturns`, `HangupServed` and `ShutdownCompletes` of the run and its
callers, `StopReturns`, `LauncherReturns`, `TermHandled`, `HupServed` and
`StartEnds`.

## Assumptions and limits

- Time is abstract: a timeout may happen whenever the code waits for it.
- The kernel does not reuse the pid of a process whose exit the loop has not
  received. The code looks pids up by number and relies on this as well.
- `HUP` and `TERM` on workers stand for `signalOnHUP` and `signalOnTERM`.
- In `Supervisor` no status file is left from an earlier run, and `os.Remove` of
  it succeeds; `Handover` is about the files that others leave.
- The pid file is a regular file with one link that only supervisors touch;
  closing it releases both locks at once; supervisors are distinct processes.
- `LauncherTruthful` does not speak of a launcher that cannot close its own end of
  the pipe: it returns an error and leaves the daemon running.
- `Launch` takes the inspected file for the executed one; `CommandPath` says when
  that is so. Volumes of Windows paths are left out there, and read permissions of
  directories in `ControlPath`.
- Handoff follows the Linux build, where the kernel names an empty Unix path;
  a worker of this supervisor always has `LSS2_SOCKET_TYPES`.

### Not modelled

- Formats character by character: status lines, frames of the readiness pipe, the
  first line of an envdir file, host names. The models have what the code
  distinguishes.
- The table of signal names, help and version texts, log files: no state.
- Socket options and the length check of socket paths: one call each, whose
  failure is a failure of `Bind`.
- Pid files locked by older versions on Linux, with flock only, and hard links that
  others make to a pid file.
- The other Windows and Darwin variants, which are stubs or the Linux code with
  fewer cases, and the samples.
- The helpers of `listener.go` and `environment.go` that return a field or a
  variable.
