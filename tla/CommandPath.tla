---------------------------- MODULE CommandPath ----------------------------
(***************************************************************************)
(* Which file the worker's command names, on Unix: to NewStarter, which    *)
(* looks it up from the supervisor's own directory; to execve, after the   *)
(* child has changed to the configured directory; and to startWorker,      *)
(* which inspects it when execve has answered EIO.  All three start from   *)
(* the same two strings.                                                   *)
(*                                                                         *)
(* A path is a list of components and a flag for a leading "/".  The tree  *)
(* has a file "w" in every directory and an entry "x" that leads to some   *)
(* directory or to nothing; where the directory it leads to has another    *)
(* parent, "x" is a symbolic link, and ".." after it does not lead back.   *)
(***************************************************************************)
EXTENDS Sequences, SequencesExt, Naturals

CONSTANTS
  Dirs, Root,
  Above,         \* the parent of each directory
  CommandPaths,  \* the paths considered, for the directory and for the command
  None

\* Paths have been split into components.
ASSUME CommandPathsAssumption ==
  CommandPaths \subseteq [abs : BOOLEAN, parts : Seq(STRING)]

VARIABLES
  entry,      \* where "x" leads, in each directory
  cwd,        \* the supervisor's working directory
  dir,        \* the configured directory; no components for none
  command,
  cpc,        \* "new", "start", "started", "inspected", "rejected" or "unstarted"
  validated, executed, inspected   \* the files found, each named by its directory

commandVars == <<entry, cwd, dir, command, cpc, validated, executed, inspected>>

PATH == [abs |-> TRUE, parts |-> <<"w">>]   \* what a bare command is found as

CommandInit ==
  /\ entry \in [Dirs -> Dirs \cup {None}] /\ cwd \in Dirs
  /\ dir \in CommandPaths
  /\ command \in {[p EXCEPT !.parts = Append(@, "w")] : p \in CommandPaths}
  /\ cpc = "new" /\ validated = None /\ executed = None /\ inspected = None

-----------------------------------------------------------------------------
(* The kernel's walk.                                                       *)

Enter(d, name) ==
  IF d = None THEN None ELSE IF name = ".." THEN Above[d] ELSE entry[d]

\* The directory that parts lead to from d.
Walk(d, parts) == FoldLeft(Enter, d, parts)

\* The file that path names for a process whose working directory is d.
FileAt(d, file) == Walk(IF file.abs THEN Root ELSE d, Front(file.parts))

-----------------------------------------------------------------------------
(* The three lookups.                                                       *)

Bare(c) == ~c.abs /\ Len(c.parts) = 1
NoDir(d) == ~d.abs /\ d.parts = <<>>

\* Mutant of commandForValidation: filepath.Join, which cleans the path.
commandJoined(c, d) ==
  IF NoDir(d) \/ c.abs \/ Bare(c) THEN c
  ELSE LET Add(p, name) ==
             IF name = ".." /\ p # <<>> /\ Last(p) # ".." THEN Front(p)
             ELSE IF name = ".." /\ p = <<>> /\ d.abs THEN p
             ELSE Append(p, name)
       IN  [abs |-> d.abs, parts |-> FoldLeft(Add, <<>>, d.parts \o c.parts)]

\* The directory, a separator, and the command as it stands.
commandForValidation(c, d) ==
  IF NoDir(d) \/ c.abs \/ Bare(c) THEN c
  ELSE [abs |-> d.abs, parts |-> d.parts \o c.parts]

\* exec.LookPath, from the supervisor's directory.
LookPath(c) == FileAt(cwd, IF Bare(c) THEN PATH ELSE c)

\* resolveCommandPath; NewStarter fails if there is no file.
NewStarter ==
  /\ cpc = "new"
  /\ validated' = LookPath(commandForValidation(command, dir))
  /\ cpc' = IF validated' = None THEN "rejected" ELSE "start"
  /\ UNCHANGED <<entry, cwd, dir, command, executed, inspected>>

\* The configured directory, None if it is missing.
WorkDir == Walk(IF dir.abs THEN Root ELSE cwd, dir.parts)

\* cmd.Start: the child changes to cmd.Dir and executes cmd.Path, and fails if
\* either is missing.
Start ==
  /\ cpc = "start"
  /\ executed' = IF WorkDir = None THEN None
                 ELSE FileAt(WorkDir, IF Bare(command) THEN PATH ELSE command)
  /\ cpc' = IF executed' = None THEN "unstarted" ELSE "started"
  /\ UNCHANGED <<entry, cwd, dir, command, validated, inspected>>

\* filepath.Join and its Clean: ".." takes away the name before it.
Clean(file) ==
  LET Add(p, name) ==
        IF name # ".." THEN Append(p, name)
        ELSE IF p # <<>> /\ Last(p) # ".." THEN Front(p)
        ELSE IF file.abs THEN p ELSE Append(p, name)
  IN  [file EXCEPT !.parts = FoldLeft(Add, <<>>, @)]

\* workerELFInterpreter opens the command, after an EIO.
Inspect ==
  /\ cpc = "started"
  /\ LET file == IF Bare(command) THEN PATH ELSE command
     IN  inspected' =
           FileAt(cwd, IF file.abs \/ NoDir(dir) THEN file
                       ELSE Clean([abs |-> dir.abs, parts |-> dir.parts \o file.parts]))
  /\ cpc' = "inspected"
  /\ UNCHANGED <<entry, cwd, dir, command, validated, executed>>

CommandDone == cpc \in {"rejected", "inspected", "unstarted"} /\ UNCHANGED commandVars

CommandNext == NewStarter \/ Start \/ Inspect \/ CommandDone

CommandSpec == CommandInit /\ [][CommandNext]_commandVars

-----------------------------------------------------------------------------
(* Properties.                                                              *)

\* The file that NewStarter has found is the file that the worker executes,
\* through symbolic links, "..", and relative directories too.  A command that it
\* has accepted can fail to start for one cause alone, a configured directory that
\* is missing, and only when the command is not looked up in that directory.
ValidatedIsExecuted ==
  /\ cpc \in {"started", "inspected"} => executed = validated
  /\ cpc = "unstarted" => WorkDir = None /\ (command.abs \/ Bare(command))

\* "Stop only when both files are readable and the ELF interpreter is demonstrably
\* malformed": the executable that is inspected is the one that could not be
\* executed.  Where ".." follows a symbolic link, it is not.
InspectedIsExecuted == cpc = "inspected" => inspected = executed

-----------------------------------------------------------------------------
(* The inductive invariant behind ValidatedIsExecuted: what was validated is  *)
(* what commandForValidation names, and there is such a file.               *)

CommandInv ==
  /\ dir \in CommandPaths
  /\ \E p \in CommandPaths : command = [p EXCEPT !.parts = Append(@, "w")]
  /\ cpc \in {"start", "started", "inspected"} =>
       validated = LookPath(commandForValidation(command, dir)) /\ validated # None
  /\ ValidatedIsExecuted
=============================================================================
