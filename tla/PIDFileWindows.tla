--------------------------- MODULE PIDFileWindows ---------------------------
(***************************************************************************)
(* The pid file on Windows: supervisors, of this version and of older      *)
(* ones, that acquire it, hold it and release it or crash, and callers of  *)
(* control.Stop and Restart, which look at it before they find that        *)
(* Windows cannot tell them its owner.  Every step is one system call.  A  *)
(* file that a process has open cannot be deleted, since createPIDFile     *)
(* does not share it for that; closePIDFile therefore closes its handle,   *)
(* and so drops its locks, before it removes the name.                     *)
(***************************************************************************)
EXTENDS Naturals, FiniteSets

CONSTANTS
  Sups,     \* supervisors, which run once
  Legacy,   \* those of older versions, which keep the exclusive lock
  Clients,  \* callers of Stop and Restart
  Files,    \* files that the path has named
  None

ASSUME WindowsAssumption == 
  /\ None \notin Sups \cup Files
  /\ Legacy \subseteq Sups

VARIABLES
  path,      \* the file the pid path names, or None
  created,   \* files that exist or existed
  text,      \* the pid recorded in each, None for no text
  exclusive, \* holder of the exclusive lock on byte zero of each
  shared,    \* holders of a shared lock on it
  pc,        \* where each supervisor stands
  handle,    \* the file it has open
  owned,     \* closePIDFile: the path named its file
  named,     \* for a refused supervisor, the owner it reports, or None
  probed     \* the file each client has open

fileVars == <<path, created, text>>
lockVars == <<exclusive, shared>>
supVars == <<pc, handle, owned, named>>
vars == <<fileVars, lockVars, supVars, probed>>

Init ==
  /\ path = None /\ created = {} /\ text = [f \in Files |-> None]
  /\ exclusive = [f \in Files |-> None] /\ shared = [f \in Files |-> {}]
  /\ pc = [s \in Sups |-> "init"] /\ handle = [s \in Sups |-> None]
  /\ owned = [s \in Sups |-> FALSE] /\ named = [s \in Sups |-> None]
  /\ probed = [c \in Clients |-> None]

Goto(s, from, to) == pc[s] = from /\ pc' = [pc EXCEPT ![s] = to]

\* Closing the handle drops the locks taken through it.
CloseHandle(s) ==
  /\ handle' = [handle EXCEPT ![s] = None]
  /\ exclusive' = [f \in Files |-> IF exclusive[f] = s THEN None ELSE exclusive[f]]
  /\ shared' = [f \in Files |-> shared[f] \ {s}]

\* Mutant of Deletable: FILE_SHARE_DELETE is among the share modes.
ShareDelete(f) == TRUE

\* createPIDFile asks for FILE_SHARE_READ and FILE_SHARE_WRITE only.
Deletable(f) == (\A s \in Sups : handle[s] # f) /\ (\A c \in Clients : probed[c] # f)

-----------------------------------------------------------------------------
(* acquire.                                                                 *)

\* openPIDFile: CREATE_NEW.
Create(s) ==
  /\ path = None /\ Goto(s, "init", "opened")
  /\ \E f \in Files \ created :
       path' = f /\ created' = created \cup {f} /\ handle' = [handle EXCEPT ![s] = f]
  /\ UNCHANGED <<text, lockVars, owned, named, probed>>

NameTaken(s) ==
  /\ path # None /\ Goto(s, "init", "exists")
  /\ UNCHANGED <<fileVars, lockVars, handle, owned, named, probed>>

\* Mutant of OpenExisting: the file is opened with TRUNCATE_EXISTING.
OpenTruncates(s) ==
  /\ path # None /\ Goto(s, "exists", "opened") /\ handle' = [handle EXCEPT ![s] = path]
  /\ text' = [text EXCEPT ![path] = None]
  /\ UNCHANGED <<path, created, lockVars, owned, named, probed>>

\* openPIDFile: OPEN_EXISTING, and the checks on the handle.
OpenExisting(s) ==
  /\ \/ path # None /\ Goto(s, "exists", "opened") /\ handle' = [handle EXCEPT ![s] = path]
     \/ path = None /\ Goto(s, "exists", "failed") /\ handle' = handle
  /\ UNCHANGED <<fileVars, lockVars, owned, named, probed>>

\* Mutant of Lock: LOCKFILE_EXCLUSIVE_LOCK is not asked for.
LockShared(s) ==
  /\ pc[s] = "opened" /\ exclusive[handle[s]] = None
  /\ Goto(s, "opened", "locked")
  /\ shared' = [shared EXCEPT ![handle[s]] = @ \cup {s}]
  /\ UNCHANGED <<fileVars, exclusive, handle, owned, named, probed>>

\* lockFile: any lock on the byte, exclusive or shared, is in the way.
Lock(s) ==
  /\ pc[s] = "opened"
  /\ \/ /\ exclusive[handle[s]] = None /\ shared[handle[s]] = {}
        /\ Goto(s, "opened", "locked")
        /\ exclusive' = [exclusive EXCEPT ![handle[s]] = s]
     \/ /\ exclusive[handle[s]] # None \/ shared[handle[s]] # {}
        /\ Goto(s, "opened", "lockedOut") /\ exclusive' = exclusive
  /\ UNCHANGED <<fileVars, shared, handle, owned, named, probed>>

\* readOwnerPID, through a mapping if the byte is locked exclusively, and the
\* error that names what it found; or the text cannot be read, and the error says so.
ReportOwner(s) ==
  /\ \/ Goto(s, "lockedOut", "refused") /\ named' = [named EXCEPT ![s] = text[handle[s]]]
     \/ Goto(s, "lockedOut", "unread") /\ named' = named
  /\ CloseHandle(s)
  /\ UNCHANGED <<fileVars, owned, probed>>

\* validatePIDFileLinkCount.
CheckLinkCount(s) ==
  /\ IF path = handle[s]
     THEN Goto(s, "locked", "linked") /\ UNCHANGED <<lockVars, handle>>
     ELSE Goto(s, "locked", "failed") /\ CloseHandle(s)
  /\ UNCHANGED <<fileVars, owned, named, probed>>

Truncate(s) ==
  /\ Goto(s, "linked", "truncated")
  /\ text' = [text EXCEPT ![handle[s]] = None]
  /\ UNCHANGED <<path, created, lockVars, handle, owned, named, probed>>

\* The write and the flush.
WritePID(s) ==
  /\ Goto(s, "truncated", "written")
  /\ text' = [text EXCEPT ![handle[s]] = s]
  /\ UNCHANGED <<path, created, lockVars, handle, owned, named, probed>>

\* finishPIDFileLock: a shared lock on top of the exclusive one.
Overlay(s) ==
  /\ s \notin Legacy /\ Goto(s, "written", "overlaid")
  /\ shared' = [shared EXCEPT ![handle[s]] = @ \cup {s}]
  /\ UNCHANGED <<fileVars, exclusive, handle, owned, named, probed>>

\* finishPIDFileLock: the exclusive lock is given up.
Downgrade(s) ==
  /\ Goto(s, "overlaid", "held")
  /\ exclusive' = [exclusive EXCEPT ![handle[s]] = None]
  /\ UNCHANGED <<fileVars, shared, handle, owned, named, probed>>

\* An older version stops at the exclusive lock; it is taken to close as this one.
LegacyHolds(s) ==
  /\ s \in Legacy /\ Goto(s, "written", "held")
  /\ UNCHANGED <<fileVars, lockVars, handle, owned, named, probed>>

\* A call on the open file fails: it is closed and left behind.
AcquireFails(s) ==
  /\ \E from \in {"opened", "locked", "linked", "truncated", "written", "overlaid"} :
       Goto(s, from, "failed")
  /\ CloseHandle(s)
  /\ UNCHANGED <<fileVars, owned, named, probed>>

-----------------------------------------------------------------------------
(* closePIDFile, and crashes.                                               *)

\* Does the path still name the acquired file?
CloseStat(s) ==
  /\ Goto(s, "held", "close")
  /\ owned' = [owned EXCEPT ![s] = (path = handle[s])]
  /\ UNCHANGED <<fileVars, lockVars, handle, named, probed>>

Close(s) ==
  /\ Goto(s, "close", IF owned[s] THEN "remove" ELSE "exited")
  /\ CloseHandle(s)
  /\ UNCHANGED <<fileVars, owned, named, probed>>

\* os.Remove takes away whatever the path names now, unless somebody has it open.
Remove(s) ==
  /\ Goto(s, "remove", "exited")
  /\ path' = IF path # None /\ Deletable(path) THEN None ELSE path
  /\ UNCHANGED <<created, text, lockVars, handle, owned, named, probed>>

Crash(s) ==
  /\ pc[s] \notin {"init", "failed", "refused", "unread", "exited", "crashed"}
  /\ pc' = [pc EXCEPT ![s] = "crashed"]
  /\ CloseHandle(s)
  /\ UNCHANGED <<fileVars, owned, named, probed>>

-----------------------------------------------------------------------------
(* OpenRunningPID.                                                          *)

\* openPIDFile serves the clients too, and so creates a file that is not there.
ProbeCreate(c) ==
  /\ probed[c] = None /\ path = None
  /\ \E f \in Files \ created :
       path' = f /\ created' = created \cup {f} /\ probed' = [probed EXCEPT ![c] = f]
  /\ UNCHANGED <<text, lockVars, supVars>>

ProbeOpen(c) ==
  /\ probed[c] = None /\ path # None
  /\ probed' = [probed EXCEPT ![c] = path]
  /\ UNCHANGED <<fileVars, lockVars, supVars>>

\* The text is unreadable or no pid, or else lockOwnerPID fails: in each case
\* OpenRunningPID closes the file and returns the error.
ProbeFails(c) ==
  /\ probed[c] # None
  /\ probed' = [probed EXCEPT ![c] = None]
  /\ UNCHANGED <<fileVars, lockVars, supVars>>

Next ==
  \/ \E c \in Clients : ProbeCreate(c) \/ ProbeOpen(c) \/ ProbeFails(c)
  \/ \E s \in Sups :
    \/ Create(s) \/ NameTaken(s) \/ OpenExisting(s) \/ Lock(s) \/ ReportOwner(s)
    \/ CheckLinkCount(s) \/ Truncate(s) \/ WritePID(s) \/ Overlay(s) \/ Downgrade(s)
    \/ LegacyHolds(s) \/ AcquireFails(s) \/ CloseStat(s) \/ Close(s) \/ Remove(s)
    \/ Crash(s)

Spec == Init /\ [][Next]_vars

-----------------------------------------------------------------------------
(* Properties.                                                              *)

Owning == {"linked", "truncated", "written", "overlaid", "held", "close"}

\* Two supervisors never both get past the checks of acquire, be they of this
\* version or of an older one: also not while one exchanges its lock for a shared
\* one, nor when one that has closed its handle removes the path.
OneOwner == \A s, r \in Sups : pc[s] \in Owning /\ pc[r] \in Owning => s = r

\* From its checks to its close, the path names the file of its owner: no other
\* supervisor's late os.Remove takes it away.
OwnerNamed == \A s \in Sups : pc[s] \in Owning => path = handle[s]

\* A supervisor that is refused while another holds the file, and can read its text,
\* names that one in its error, whatever the files of earlier owners said.
RefusalNamesHolder ==
  [][\A s, r \in Sups :
       pc[s] = "lockedOut" /\ pc'[s] = "refused" /\ pc[r] = "held" => named'[s] = r]_vars

Owners == {s \in Sups : pc[s] \in Owning}

OS == INSTANCE Ownership WITH Processes <- Sups, owners <- Owners

\* The pid file passes from owner to owner as Ownership says: nobody takes it while
\* another owns it, whatever calls of others come between its own.
ImplementsOwnership == OS!Spec

-----------------------------------------------------------------------------
(* The inductive invariant behind the properties.  An open file cannot lose *)
(* its name, so all that have the file open have the same file open, and    *)
(* the lock on its first byte decides between them.                         *)

Open == Owning \cup {"opened", "lockedOut", "locked"}
Idle == {"init", "exists", "remove", "failed", "refused", "unread", "exited", "crashed"}

TypeOK ==
  /\ path \in Files \cup {None} /\ created \subseteq Files
  /\ text \in [Files -> Sups \cup {None}]
  /\ exclusive \in [Files -> Sups \cup {None}] /\ shared \in [Files -> SUBSET Sups]
  /\ pc \in [Sups -> Open \cup Idle] /\ handle \in [Sups -> Files \cup {None}]
  /\ owned \in [Sups -> BOOLEAN] /\ named \in [Sups -> Sups \cup {None}]
  /\ probed \in [Clients -> Files \cup {None}]

\* Whatever is open is what the path names.
OpenNamed ==
  /\ \A s \in Sups : pc[s] \in Open => handle[s] = path /\ path # None
  /\ \A s \in Sups : pc[s] \notin Open => handle[s] = None
  /\ \A c \in Clients : probed[c] # None => probed[c] = path

\* Locks belong to those that have the file open, and exclude each other.
Locks ==
  /\ \A f \in Files, s \in Sups : exclusive[f] = s \/ s \in shared[f] => handle[s] = f
  /\ \A f \in Files, s, r \in Sups : exclusive[f] = s /\ r \in shared[f] => r = s
  /\ \A f \in Files, s, r \in Sups : s \in shared[f] /\ r \in shared[f] => r = s

\* Those past the lock have one of the two.
Locked ==
  \A s \in Sups :
    /\ pc[s] \in {"locked", "linked", "truncated", "written", "overlaid"}
         => exclusive[handle[s]] = s
    /\ pc[s] = "overlaid" => s \in shared[handle[s]]
    /\ pc[s] \in {"held", "close"} => exclusive[handle[s]] = s \/ s \in shared[handle[s]]

Texts ==
  \A s \in Sups : pc[s] \in {"written", "overlaid", "held"} => text[handle[s]] = s

IInv == TypeOK /\ OpenNamed /\ Locks /\ Locked /\ Texts
=============================================================================
