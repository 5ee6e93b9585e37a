------------------------------- MODULE Launch -------------------------------
(***************************************************************************)
(* One call of startWorker on Linux, seen from the process it launches:    *)
(* what the kernel makes of the directory, the arguments and the files on  *)
(* disk, which errors end the start and which are retried, the startup     *)
(* probe, and who reaps a worker that exits early.  Meanwhile the files    *)
(* may be replaced or rewritten, the file system may fail or descriptors   *)
(* run out for a while, and the context may end.                           *)
(*                                                                         *)
(* The command is a dynamically linked ELF file, one that cannot be read,  *)
(* a static one or a file of no known format, or its path leads to none,   *)
(* and it then stands for the error that this gives; so does the           *)
(* configured directory.  The interpreter that the command names is good,  *)
(* too short to be ELF, of another machine, a directory or absent.         *)
(***************************************************************************)
EXTENDS Naturals

CONSTANTS
  PathErrors,  \* what a path may be answered with that leads to no file
  MaxChanges   \* changes of the files and faults considered

ASSUME PathErrorsAssumption ==
  PathErrors \subseteq {"ENOENT", "EACCES", "ENOTDIR", "ELOOP", "ENAMETOOLONG"}

VARIABLES
  checked,  \* startWorker is asked to check the startup
  spc,      \* where startWorker stands
  errno,    \* cmd.Start's error
  opened,   \* the inspected interpreter: "live" while it is the file on disk
  told,     \* the exit status that startWorker reports, or "none"
  result,   \* how startWorker has returned
  proc,     \* the process: "none", "running", "zombie" or "reaped"
  exit,     \* its exit status, "none" while it runs
  args,     \* the arguments and the environment, which no attempt changes
  workDir, command, interp, fault,   \* the files, and the fault there is
  had,      \* history: the directories, commands and interpreters of this attempt
  ctxDone,
  changes

attemptVars == <<checked, spc, errno, opened, told, result>>
procVars == <<proc, exit>>
diskVars == <<args, workDir, command, interp, fault, changes>>
launchVars == <<attemptVars, procVars, diskVars, had, ctxDone>>

\* They fit, are too long for execve, or have a NUL byte: in an argument, which
\* os.StartProcess refuses, or in the environment, which os/exec refuses.
Args     == {"fit", "E2BIG", "EINVAL", "NUL"}
WorkDirs == {"good"} \cup PathErrors
Lookups  == {"ErrNotFound", "ErrDot"}   \* exec.LookPath does not find a bare command
Commands == {"dynamic", "unreadable", "static", "unknown"} \cup PathErrors \cup Lookups
Interps  == {"good", "short", "foreign", "directory", "absent"}
Faults   == {"none", "io", "busy", "files"}

LaunchInit ==
  /\ checked \in BOOLEAN /\ spc = "top" /\ errno = "none" /\ opened = "none"
  /\ told = "none" /\ result = "none" /\ proc = "none" /\ exit = "none"
  /\ args \in Args /\ workDir = "good" /\ command = "dynamic" /\ interp = "good"
  /\ fault = "none" /\ had = [dirs |-> {}, commands |-> {}, interps |-> {}]
  /\ ctxDone = FALSE /\ changes = 0

-----------------------------------------------------------------------------
(* os/exec and the kernel.                                                  *)

\* What execve answers for these files when nothing fails.
Execve(c, i) ==
  IF c = "unknown" THEN "ENOEXEC"
  ELSE IF c = "static" \/ i = "good" THEN "ok"
  ELSE IF i = "absent" THEN "ENOENT"
  ELSE IF i = "directory" THEN "EISDIR"
  ELSE IF i = "foreign" THEN "ELIBBAD" ELSE "EIO"

\* What cmd.Start answers then: the lookup of the command, os/exec's look at the
\* environment, the directory, the arguments, and execve, in this order.
CmdStart(a, d, c, i) ==
  IF c \in Lookups THEN c
  ELSE IF a = "NUL" THEN a
  ELSE IF d # "good" THEN d
  ELSE IF a = "EINVAL" THEN a
  ELSE IF c \in PathErrors THEN c
  ELSE IF a = "E2BIG" THEN a ELSE Execve(c, i)

\* The answer, a fault of the moment included.  EIO in looking for the directory,
\* before the fork, can be told from EIO after it.
StartErrors ==
  IF fault = "io" THEN {"EIO", "EIO before fork"}
  ELSE IF fault = "busy" THEN {"ETXTBSY"}
  ELSE IF fault = "files" THEN {"EMFILE"}
  ELSE {CmdStart(args, workDir, command, interp)}

-----------------------------------------------------------------------------
(* startWorker.                                                             *)

Return(how) == spc' = "done" /\ result' = how

\* The top of the loop: the context is done.
Cancelled ==
  /\ spc = "top" /\ ctxDone
  /\ Return("cancelled")
  /\ UNCHANGED <<checked, errno, opened, told, procVars, diskVars, had, ctxDone>>

\* The descriptors that the worker inherits are opened and duplicated: a failure
\* ends the start at once.
Prepare ==
  /\ spc = "top" /\ ~ctxDone
  /\ \/ spc' = "start" /\ result' = result
     \/ fault = "files" /\ Return("unprepared")
  /\ had' = [dirs |-> {workDir}, commands |-> {command}, interps |-> {interp}]
  /\ UNCHANGED <<checked, errno, opened, told, procVars, diskVars, ctxDone>>

\* cmd.Start.
StartProcess ==
  /\ spc = "start"
  /\ errno' \in StartErrors
  /\ \/ /\ errno' = "ok"
        /\ spc' = "probe" /\ proc' = "running" /\ exit' = "none"
     \/ /\ errno' # "ok"
        /\ spc' = "failed" /\ UNCHANGED procVars
  /\ UNCHANGED <<checked, opened, told, result, diskVars, had, ctxDone>>

\* Mutant of TerminalErrors: the platform's list is not consulted.
CommonErrors ==
  {"ErrNotFound", "ErrDot", "ENOENT", "EACCES", "EINVAL", "ENOEXEC", "ENOTDIR", "ELOOP",
   "ENAMETOOLONG", "E2BIG"}

\* The lists of commonWorkerStartErrorPolicy, with EACCES for os.ErrPermission and
\* ENOENT for os.ErrNotExist, and of platformWorkerStartErrorPolicy.
TerminalErrors ==
  {"ErrNotFound", "ErrDot", "ENOENT", "EACCES", "EINVAL", "ENOEXEC", "ENOTDIR", "ELOOP",
   "ENAMETOOLONG", "E2BIG"} \cup {"EISDIR", "ELIBBAD"}

\* isTerminal: the lists first, then a closer look at EIO.
Classify ==
  /\ spc = "failed"
  /\ \/ errno \in TerminalErrors /\ Return("terminal")
     \/ errno = "EIO" /\ spc' = "inspect" /\ result' = result
     \/ errno \notin TerminalErrors \cup {"EIO"} /\ spc' = "retry" /\ result' = result
  /\ UNCHANGED <<checked, errno, opened, told, procVars, diskVars, had, ctxDone>>

\* workerELFInterpreter: the command must be a readable ELF file that names an
\* interpreter; it may be one in the directory.
InspectCommand ==
  /\ spc = "inspect"
  /\ \/ command = "dynamic" /\ fault \notin {"io", "files"} /\ spc' = "open"
     \/ /\ command # "dynamic" \/ fault \in {"io", "files"} \/ workDir # "good"
        /\ spc' = "retry"
  /\ UNCHANGED <<checked, errno, opened, told, result, procVars, diskVars, had, ctxDone>>

\* terminalLinuxEIOWorkerStartError opens the interpreter.
OpenInterp ==
  /\ spc = "open"
  /\ IF interp = "absent" \/ fault \in {"io", "files"} THEN spc' = "retry" /\ opened' = opened
     ELSE spc' = "parse" /\ opened' = "live"
  /\ UNCHANGED <<checked, errno, told, result, procVars, diskVars, had, ctxDone>>

Content == IF opened = "live" THEN interp ELSE opened

\* Mutant of MalformedELF: a failed read counts as a malformed file.
AnyReadError(content, failing) == content \in {"short", "directory"} \/ failing

\* malformedELF: the file is read to an end that comes too early; a read that
\* fails, and reading a directory does, proves nothing.
MalformedELF(content, failing) == content = "short" /\ ~failing

ParseInterp ==
  /\ spc = "parse"
  /\ opened' = "none"
  /\ \/ MalformedELF(Content, fault = "io") /\ Return("terminal")
     \/ ~MalformedELF(Content, fault = "io") /\ spc' = "retry" /\ result' = result
  /\ UNCHANGED <<checked, errno, told, procVars, diskVars, had, ctxDone>>

\* waitForWorkerStartRetry: the timer, or the context.
RetryDue ==
  /\ spc = "retry" /\ spc' = "top"
  /\ UNCHANGED <<checked, errno, opened, told, result, procVars, diskVars, had, ctxDone>>

RetryCancelled ==
  /\ spc = "retry" /\ ctxDone
  /\ Return("cancelled")
  /\ UNCHANGED <<checked, errno, opened, told, procVars, diskVars, had, ctxDone>>

\* waitForProbe ends by its timer, which the context may overtake.
ProbeDue ==
  /\ spc = "probe" /\ spc' = "find"
  /\ UNCHANGED <<checked, errno, opened, told, result, procVars, diskVars, had, ctxDone>>

\* The probe ends by the context: the process is returned unseen.
ProbeCancelled ==
  /\ spc = "probe" /\ ctxDone
  /\ Return("worker")
  /\ UNCHANGED <<checked, errno, opened, told, procVars, diskVars, had, ctxDone>>

\* Mutant of FindWorker: a worker that wait4 has reaped is returned as found.
FindReaped ==
  /\ spc = "find"
  /\ proc' = IF proc = "zombie" THEN "reaped" ELSE proc
  /\ Return("worker")
  /\ UNCHANGED <<checked, errno, opened, told, exit, diskVars, had, ctxDone>>

\* findWorker: wait4 reaps a worker that has exited, and its status is kept; any
\* other is returned, with a waiter goroutine.
FindWorker ==
  /\ spc = "find"
  /\ \/ proc # "zombie" /\ Return("worker") /\ UNCHANGED <<proc, told>>
     \/ /\ proc = "zombie" /\ proc' = "reaped"
        /\ told' = exit /\ spc' = "report" /\ result' = result
  /\ UNCHANGED <<checked, errno, opened, exit, diskVars, had, ctxDone>>

\* cmd.Wait, which finds nothing, and reportFailedStart.
ReportFailedStart ==
  /\ spc = "report"
  /\ \/ checked /\ Return("exited") /\ told' = told
     \/ ~checked /\ ctxDone /\ Return("cancelled") /\ told' = told
     \/ ~checked /\ ~ctxDone /\ spc' = "top" /\ result' = result /\ told' = "none"
  /\ UNCHANGED <<checked, errno, opened, procVars, diskVars, had, ctxDone>>

\* cmd.Wait in the waiter goroutine of a returned worker.
WaiterReaps ==
  /\ result = "worker" /\ proc = "zombie" /\ told = "none"
  /\ proc' = "reaped" /\ told' = exit
  /\ UNCHANGED <<checked, spc, errno, opened, result, exit, diskVars, had, ctxDone>>

-----------------------------------------------------------------------------
(* The environment.                                                         *)

ProcessExits ==
  /\ proc = "running"
  /\ proc' = "zombie" /\ exit' \in {"success", "failure"}
  /\ UNCHANGED <<attemptVars, diskVars, had, ctxDone>>

Cancel ==
  /\ ~ctxDone /\ ctxDone' = TRUE
  /\ UNCHANGED <<attemptVars, procVars, diskVars, had>>

Change == changes < MaxChanges /\ changes' = changes + 1

\* The command is replaced.
ReplaceCommand ==
  /\ Change
  /\ command' \in Commands \ {command}
  /\ had' = [had EXCEPT !.commands = @ \cup {command'}]
  /\ UNCHANGED <<attemptVars, procVars, args, workDir, interp, fault, ctxDone>>

\* The directory is moved, or comes back.
ChangeDir ==
  /\ Change
  /\ workDir' \in WorkDirs \ {workDir}
  /\ had' = [had EXCEPT !.dirs = @ \cup {workDir'}]
  /\ UNCHANGED <<attemptVars, procVars, args, command, interp, fault, ctxDone>>

\* The interpreter is replaced, and who has the old one open keeps it; or it is
\* written over.
ChangeInterp ==
  /\ Change
  /\ interp' \in Interps \ {interp}
  /\ opened' \in {opened} \cup (IF opened = "live" THEN {interp} ELSE {})
  /\ had' = [had EXCEPT !.interps = @ \cup {interp'}]
  /\ UNCHANGED <<checked, spc, errno, told, result, procVars, args, workDir, command,
                 fault, ctxDone>>

\* Reads fail, or resources are short, for a while; the end of it is no new edit.
FaultBegins ==
  /\ Change /\ fault = "none"
  /\ fault' \in Faults \ {"none"}
  /\ UNCHANGED <<attemptVars, procVars, args, workDir, command, interp, had, ctxDone>>

FaultEnds ==
  /\ fault # "none" /\ fault' = "none"
  /\ UNCHANGED <<attemptVars, procVars, args, workDir, command, interp, changes, had,
                 ctxDone>>

-----------------------------------------------------------------------------

StartStep ==
  \/ Cancelled \/ Prepare \/ StartProcess \/ Classify
  \/ InspectCommand \/ OpenInterp \/ ParseInterp
  \/ RetryDue \/ RetryCancelled \/ ProbeDue \/ ProbeCancelled \/ FindWorker
  \/ ReportFailedStart

\* startWorker has returned and its process is reaped, or there is none.
Returned == spc = "done" /\ UNCHANGED launchVars

LaunchNext ==
  \/ StartStep \/ WaiterReaps \/ ProcessExits \/ Cancel
  \/ ReplaceCommand \/ ChangeDir \/ ChangeInterp \/ FaultBegins \/ FaultEnds \/ Returned

LaunchSpec == LaunchInit /\ [][LaunchNext]_launchVars

\* startWorker runs and its timers fire, and faults pass.
FairLaunchSpec ==
  LaunchSpec /\ WF_launchVars(StartStep) /\ WF_launchVars(FaultEnds)

-----------------------------------------------------------------------------
(* Properties.                                                              *)

\* No process can be started from some directory, command and interpreter, each of
\* them there at some moment of the attempt, with the arguments and environment.
Cause ==
  \E d \in had.dirs, c \in had.commands, i \in had.interps : CmdStart(args, d, c, i) # "ok"

\* An error of cmd.Start ends the run only for a cause that lies in the directory,
\* the files, the arguments or the environment, and was there in this attempt: not
\* for a fault of the moment, nor for a read that fails while an EIO is inspected.
GivenUpForCause == result = "terminal" => Cause

\* A worker is reaped once, by who can tell its status: the one that startWorker
\* returns is not reaped by its own probe, so that its pid is still its own when loop
\* signals it, and the one that findWorker reaps in a checked start is reported with
\* the status it exited with, whenever it exits.
ReapedOnce ==
  /\ result = "worker" /\ told = "none" => proc \in {"running", "zombie"}
  /\ result = "exited" => told = exit /\ told # "none"

\* A start ends: with a worker, by an error or by cancellation.  It goes on for
\* ever only while workers keep exiting early; over a command that cannot be read
\* with an interpreter that is too short, where EIO proves nothing; or with a NUL
\* byte in the environment, for which os/exec has an error that no list names.
StartEnds ==
  \/ <>(spc = "done")
  \/ []<>(spc = "report")
  \/ <>[](command = "unreadable" /\ interp = "short")
  \/ args = "NUL"

-----------------------------------------------------------------------------
(* The inductive invariant behind GivenUpForCause and ReapedOnce.           *)

\* What startWorker knows of the files was so at some moment of the attempt.
CauseInv ==
  /\ args \in Args /\ workDir \in WorkDirs /\ command \in Commands /\ interp \in Interps
  /\ had \in [dirs : SUBSET WorkDirs, commands : SUBSET Commands, interps : SUBSET Interps]
  /\ spc \notin {"top", "done"} =>
       workDir \in had.dirs /\ command \in had.commands /\ interp \in had.interps
  /\ spc = "failed" /\ errno \in TerminalErrors => Cause
  /\ spc \in {"open", "parse"} => "dynamic" \in had.commands
  /\ spc = "parse" => opened = "live" \/ opened \in had.interps

\* The process is startWorker's from cmd.Start until findWorker, its waiter's
\* after that.
ReapInv ==
  /\ result # "none" => spc = "done"
  /\ proc \in {"none", "running", "zombie", "reaped"}
  /\ proc \in {"zombie", "reaped"} => exit # "none"
  /\ spc \in {"probe", "find"} => proc \in {"running", "zombie"} /\ told = "none"
  /\ spc = "report" \/ result = "exited" =>
       proc = "reaped" /\ told = exit
  /\ spc \notin {"report", "done"} => told = "none"

LaunchInv == CauseInv /\ ReapInv /\ GivenUpForCause /\ ReapedOnce
=============================================================================
