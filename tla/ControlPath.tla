---------------------------- MODULE ControlPath ----------------------------
(***************************************************************************)
(* How the control commands reach the directory of the pid file on Unix:   *)
(* component by component from "/", refusing symbolic links and            *)
(* directories in which somebody else could replace the entry.  There are  *)
(* two walkers, and a platform is built with one of them:                  *)
(* openDirectoryPath keeps a stack of open directories, of which it        *)
(* returns the top, and openRootAnchoredDirectoryPath keeps only "/" open  *)
(* and a list of names.  The model runs the first and then the second on   *)
(* the same tree and path.  Any stat or open may fail.                     *)
(*                                                                         *)
(* A node is the list of names that leads to it.  Its class is, for a      *)
(* directory, what the metadata checks tell apart: "tight" (ours, writable *)
(* by nobody else), "sticky" and "loose" (ours, writable by others, with   *)
(* and without the sticky bit) and "foreign" (somebody else's); for the    *)
(* rest "link", "foreignlink", "file" and "absent".                        *)
(***************************************************************************)
EXTENDS Naturals, Sequences, SequencesExt, FiniteSets

CONSTANTS
  Trees,      \* functions from nodes to classes
  PIDPaths    \* sequences of names and ".."

\* pathComponents has split them.
ASSUME PIDPathsAssumption == PIDPaths \subseteq Seq(STRING)

VARIABLES
  class, path,
  wpc,          \* where the walkers stand
  rest,         \* the components not yet walked
  directories,  \* the stack, each with its descriptor
  current, next,
  open,         \* the descriptors open in this process
  resolved,     \* the names of the second walker
  first, second \* what the walkers have returned

controlVars == <<class, path, wpc, rest, directories, current, next, open, resolved,
                 first, second>>
walk1 == <<directories, current, next>>

Nothing == [fd |-> 0, node |-> <<"nothing">>]
Unknown == [ok |-> FALSE, done |-> FALSE, faulty |-> FALSE, node |-> <<>>]
Failed(f) == [ok |-> FALSE, done |-> TRUE, faulty |-> f, node |-> <<>>]
Found(node) == [ok |-> TRUE, done |-> TRUE, faulty |-> FALSE, node |-> node]

\* The lowest free descriptor, as open(2) returns it.
Free(fds) == CHOOSE n \in 1..(Cardinality(fds) + 1) :
               n \notin fds /\ \A k \in 1..(n - 1) : k \in fds

Directory == {"tight", "sticky", "loose", "foreign"}
Class(node) == IF node \in DOMAIN class THEN class[node] ELSE "absent"

\* pathComponents has already dropped empty components and ".".
ControlInit ==
  /\ class \in Trees /\ path \in PIDPaths
  /\ wpc = "walk" /\ rest = path
  /\ current = [fd |-> 1, node |-> <<>>] /\ directories = <<current>> /\ open = {1}
  /\ next = Nothing /\ resolved = <<>>
  /\ first = Unknown /\ second = Unknown

-----------------------------------------------------------------------------
(* The checks that both walkers share.                                      *)

\* validatePIDControlPathEntryMetadata.
EntryAllowed(parent, node) ==
  \/ Class(parent) = "tight"
  \/ Class(parent) = "sticky" /\ Class(node) \notin {"foreign", "foreignlink"}

\* validatePIDControlDirectoryMetadata.
DirectoryAllowed(node) == Class(node) = "tight"

-----------------------------------------------------------------------------
(* openDirectoryPath.                                                       *)

FDs(s) == {s[i].fd : i \in 1..Len(s)}

\* Return an error; the second walker then starts, with "/" open.
GiveUp(closed, f) ==
  /\ first' = Failed(f) /\ open' = open \ closed /\ wpc' = "between"
  /\ UNCHANGED <<class, path, rest, walk1, resolved, second>>

\* Mutant of DotDot: the stack is popped and current is left.
DotDotStays ==
  /\ wpc = "walk" /\ rest # <<>> /\ Head(rest) = ".." /\ rest' = Tail(rest)
  /\ IF Len(directories) > 1
     THEN /\ open' = open \ {Last(directories).fd}
          /\ directories' = Front(directories)
     ELSE UNCHANGED <<open, directories>>
  /\ UNCHANGED <<class, path, wpc, current, next, resolved, first, second>>

\* "..": close the top of the stack, unless it is "/".
DotDot ==
  /\ wpc = "walk" /\ rest # <<>> /\ Head(rest) = ".." /\ rest' = Tail(rest)
  /\ IF Len(directories) > 1
     THEN /\ open' = open \ {Last(directories).fd}
          /\ directories' = Front(directories)
          /\ current' = Last(directories')
     ELSE UNCHANGED <<open, directories, current>>
  /\ UNCHANGED <<class, path, wpc, next, resolved, first, second>>

\* fstatat of the entry, and the checks on it.
StatEntry ==
  /\ wpc = "walk" /\ rest # <<>> /\ Head(rest) # ".."
  /\ LET node == Append(current.node, Head(rest))
     IN  IF \/ Class(node) \in {"absent", "link", "foreignlink"}
            \/ ~EntryAllowed(current.node, node)
         THEN GiveUp(FDs(directories), FALSE)
         ELSE /\ wpc' = "open"
              /\ UNCHANGED <<class, path, rest, walk1, open, resolved, first, second>>

\* openat with O_DIRECTORY: a file is an error.
OpenEntry ==
  /\ wpc = "open"
  /\ LET node == Append(current.node, Head(rest))
     IN  IF Class(node) \notin Directory
         THEN GiveUp(FDs(directories), FALSE)
         ELSE /\ next' = [fd |-> Free(open), node |-> node]
              /\ open' = open \cup {next'.fd} /\ wpc' = "opened"
              /\ UNCHANGED <<class, path, rest, directories, current, resolved,
                             first, second>>

Push ==
  /\ wpc = "opened"
  /\ current' = next /\ directories' = Append(directories, next) /\ rest' = Tail(rest)
  /\ next' = Nothing /\ wpc' = "walk"
  /\ UNCHANGED <<class, path, open, resolved, first, second>>

\* A stat or an open fails; next is not on the stack yet.
StackFault ==
  /\ wpc \in {"walk", "open"} /\ (rest # <<>> => Head(rest) # "..")
  /\ GiveUp(FDs(directories), TRUE)

\* Mutant of OpenedFault: only closeDirectories.
OpenedFaultLeaks ==
  /\ wpc = "opened"
  /\ GiveUp(FDs(directories), TRUE)

OpenedFault ==
  /\ wpc = "opened"
  /\ GiveUp(FDs(directories) \cup {next.fd}, TRUE)

\* Check the directory itself, and close all but it.
Finish ==
  /\ wpc = "walk" /\ rest = <<>>
  /\ IF ~DirectoryAllowed(current.node)
     THEN GiveUp(FDs(directories), FALSE)
     ELSE /\ first' = Found(current.node)
          /\ open' = open \ FDs(Front(directories))
          /\ directories' = <<Last(directories)>> /\ wpc' = "between"
          /\ UNCHANGED <<class, path, rest, current, next, resolved, second>>

-----------------------------------------------------------------------------
(* openRootAnchoredDirectoryPath.                                           *)

\* The same path, by the walker of the other platforms.
Begin ==
  /\ wpc = "between"
  /\ wpc' = "names" /\ rest' = path /\ open' = {1}
  /\ UNCHANGED <<class, path, walk1, resolved, first, second>>

Return(result, fds) ==
  /\ second' = result /\ open' = fds /\ wpc' = "done"
  /\ UNCHANGED <<class, path, rest, walk1, resolved, first>>

DropName ==
  /\ wpc = "names" /\ rest # <<>> /\ Head(rest) = ".." /\ rest' = Tail(rest)
  /\ resolved' = IF resolved = <<>> THEN resolved ELSE Front(resolved)
  /\ UNCHANGED <<class, path, wpc, walk1, open, first, second>>

\* fstatat of the parent and of the entry from "/", and the checks.
AddName ==
  /\ wpc = "names" /\ rest # <<>> /\ Head(rest) # ".."
  /\ LET node == Append(resolved, Head(rest))
     IN  IF Class(node) \notin Directory \/ ~EntryAllowed(resolved, node)
         THEN Return(Failed(FALSE), {})
         ELSE /\ resolved' = node /\ rest' = Tail(rest)
              /\ UNCHANGED <<class, path, wpc, walk1, open, first, second>>

NamesFault ==
  /\ wpc = "names" /\ (rest # <<>> => Head(rest) # "..")
  /\ Return(Failed(TRUE), {})

\* Mutant of Names: the directory itself goes unchecked.
NamesUnchecked ==
  /\ wpc = "names" /\ rest = <<>>
  /\ Return(Found(resolved), open)

\* Check the directory itself, and return "/" and the names.
Names ==
  /\ wpc = "names" /\ rest = <<>>
  /\ IF DirectoryAllowed(resolved) THEN Return(Found(resolved), open)
     ELSE Return(Failed(FALSE), {})

ControlDone == wpc = "done" /\ UNCHANGED controlVars

ControlNext ==
  \/ DotDot \/ StatEntry \/ OpenEntry \/ Push \/ StackFault \/ OpenedFault \/ Finish
  \/ Begin \/ DropName \/ AddName \/ NamesFault \/ Names
  \/ ControlDone

ControlSpec == ControlInit /\ [][ControlNext]_controlVars

-----------------------------------------------------------------------------
(* Properties.                                                              *)

\* Where the kernel goes from node: through a link it goes somewhere else.
Nowhere == <<"..">>   \* no name of a node
Lead(node, name) ==
  IF node = Nowhere THEN Nowhere
  ELSE IF name = ".." THEN (IF node = <<>> THEN node ELSE Front(node))
  ELSE IF Class(Append(node, name)) \in Directory THEN Append(node, name) ELSE Nowhere
KernelWalk(p) == FoldLeft(Lead, <<>>, p)

\* openDirectoryPath returns the directory that its path names, and refuses one
\* only because the path leads through no directories, because of a directory on the
\* way that is not entirely ours, or because a call has failed.
WalkIsExact ==
  first.done =>
    IF first.ok THEN first.node = KernelWalk(path)
    ELSE \/ first.faulty
         \/ KernelWalk(path) = Nowhere
         \/ \E n \in 0..Len(path) : Class(KernelWalk(SubSeq(path, 1, n))) # "tight"

\* The two walkers accept the same paths, and find the same directory, unless a
\* call has failed.
WalkersAgree ==
  first.done /\ second.done /\ ~first.faulty /\ ~second.faulty =>
    first.ok = second.ok /\ first.node = second.node

\* A walk that fails, at whatever call, leaves no descriptor open; one that
\* succeeds leaves the one that it returns; and while it walks, current is the open
\* directory on top of the stack.
FDsBalanced ==
  /\ wpc = "between" => open = IF first.ok THEN {current.fd} ELSE {}
  /\ wpc = "done" => open = IF second.ok THEN {1} ELSE {}
  /\ wpc \in {"walk", "open", "opened"} =>
       current = Last(directories) /\ Cardinality(FDs(directories)) = Len(directories)
       /\ FDs(directories) \subseteq open

-----------------------------------------------------------------------------
(* The inductive invariant behind the properties: both walkers follow the   *)
(* kernel along the path, and their verdict depends on the tree and on the  *)
(* path alone.                                                              *)

Walking == {"walk", "open", "opened"}

\* How much of the path is behind the walker, and where the kernel is then.
Taken == Len(path) - Len(rest)
At(n) == KernelWalk(SubSeq(path, 1, n))

\* The first n components lead through entries that the checks allow.
Passed(n) ==
  \A k \in 1..n : path[k] # ".." =>
    /\ Class(Append(At(k - 1), path[k])) \in Directory
    /\ EntryAllowed(At(k - 1), Append(At(k - 1), path[k]))

Verdict == Passed(Len(path)) /\ DirectoryAllowed(KernelWalk(path))

Truthful(result) ==
  result.done =>
    /\ result.ok \in BOOLEAN
    /\ IF result.ok THEN Verdict /\ result.node = KernelWalk(path)
       ELSE result.node = <<>> /\ (result.faulty \/ ~Verdict)

\* A list of names.
Plain(node) == node \in Seq(STRING) /\ \A i \in 1..Len(node) : node[i] # ".."

RestInv ==
  wpc \in Walking \cup {"names"} =>
    rest \in Seq(STRING) /\ Taken \in 0..Len(path)
    /\ rest = SubSeq(path, Taken + 1, Len(path))

\* openDirectoryPath has come as far as the kernel.
FirstInv ==
  /\ wpc \in Walking => current.node = At(Taken) /\ Passed(Taken)
  /\ wpc \in {"open", "opened"} =>
       /\ rest # <<>> /\ Head(rest) # ".."
       /\ EntryAllowed(current.node, Append(current.node, Head(rest)))
  /\ wpc = "opened" =>
       /\ next.node = Append(current.node, Head(rest))
       /\ Class(next.node) \in Directory
  /\ first.done <=> wpc \notin Walking
  /\ Truthful(first)

\* So has openRootAnchoredDirectoryPath.
SecondInv ==
  /\ wpc \in Walking \cup {"between"} => resolved = <<>>
  /\ wpc = "names" => resolved = At(Taken) /\ Passed(Taken) /\ Plain(resolved)
  /\ second.done <=> wpc = "done"
  /\ Truthful(second)

\* The stack holds the way from "/" to current, each directory under the one
\* before it, and a descriptor of its own for each.
StackInv ==
  LET len == Len(directories)
  IN  /\ directories \in Seq([fd : Nat, node : Seq(STRING)]) /\ len >= 1
      /\ current = directories[len]
      /\ directories[1].node = <<>>
      /\ \A i \in 1..len : Plain(directories[i].node)
      /\ \A i \in 1..(len - 1) :
           /\ directories[i + 1].node # <<>>
           /\ directories[i].node = Front(directories[i + 1].node)

FDInv ==
  /\ \A i, j \in 1..Len(directories) : directories[i].fd = directories[j].fd => i = j
  /\ IsFiniteSet(FDs(directories))
  /\ Cardinality(FDs(directories)) = Len(directories)

OpenInv ==
  /\ wpc \in {"walk", "open"} => open = FDs(directories)
  /\ wpc = "opened" =>
       /\ open = FDs(directories) \cup {next.fd}
       /\ next \in [fd : Nat, node : Seq(STRING)] /\ next.fd \notin FDs(directories)
  /\ wpc = "between" => open = IF first.ok THEN {current.fd} ELSE {}
  /\ wpc = "names" => open = {1}
  /\ wpc = "done" => open = IF second.ok THEN {1} ELSE {}

ControlInv ==
  /\ wpc \in Walking \cup {"between", "names", "done"}
  /\ path \in PIDPaths /\ RestInv /\ FirstInv /\ SecondInv
  /\ wpc \in Walking => StackInv /\ FDInv
  /\ OpenInv
=============================================================================
