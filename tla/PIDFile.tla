------------------------------- MODULE PIDFile -------------------------------
(***************************************************************************)
(* The pid file (internal/statefile): supervisors that acquire it, hold it *)
(* for their lifetime and release it or crash, and callers of control.Stop *)
(* that find its owner, signal it and poll until the lock is released.     *)
(*                                                                         *)
(* Every step is one system call on the shared state: the pathname, the    *)
(* inodes it has named, their text and their two locks (flock, and on      *)
(* Linux a record lock that tells the owner's pid).  A supervisor is       *)
(* identified with its pid and runs once.  The file is a regular one of    *)
(* the same user with no second hard link, so an inode has one link while  *)
(* the pathname names it and none afterwards; nobody else removes it.      *)
(***************************************************************************)
EXTENDS Naturals, FiniteSets

CONSTANTS Sups, Clients, Inodes, None

ASSUME NoneAssumption == None \notin Sups \cup Inodes

VARIABLES
  path,      \* the inode the pid path names, or None
  created,   \* inodes that exist or existed
  text,      \* the pid recorded in each inode, None for no text
  flockEx,   \* holder of the exclusive flock of each inode
  flockSh,   \* clients that hold a shared flock on it (TryLock)
  record,    \* holder of its record lock
  pc,        \* where each supervisor stands
  fd,        \* the inode it has open
  asked,     \* supervisors that have been sent SIGTERM
  blocker,   \* for a refused supervisor, the holder of the lock it met
  cpc,       \* where each client stands
  cfd,       \* the inode it has open
  cpid,      \* the pid it has read
  gone       \* history: supervisors that had released when it opened the file

fileVars   == <<path, created, text>>
lockVars   == <<flockEx, flockSh, record>>
supVars    == <<pc, fd, asked, blocker>>
clientVars == <<cpc, cfd, cpid, gone>>
vars       == <<fileVars, lockVars, supVars, clientVars>>

Init ==
  /\ path = None /\ created = {}
  /\ text = [i \in Inodes |-> None]
  /\ flockEx = [i \in Inodes |-> None]
  /\ flockSh = [i \in Inodes |-> {}]
  /\ record = [i \in Inodes |-> None]
  /\ pc = [s \in Sups |-> "init"] /\ fd = [s \in Sups |-> None]
  /\ asked = {} /\ blocker = [s \in Sups |-> None]
  /\ cpc = [c \in Clients |-> "init"] /\ cfd = [c \in Clients |-> None]
  /\ cpid = [c \in Clients |-> None] /\ gone = [c \in Clients |-> {}]

\* Supervisor s moves from one point to another.
Goto(s, from, to) == pc[s] = from /\ pc' = [pc EXCEPT ![s] = to]

\* The last close of an open file drops the locks taken through it.
CloseFile(s) ==
  /\ flockEx' = [i \in Inodes |-> IF flockEx[i] = s THEN None ELSE flockEx[i]]
  /\ record' = [i \in Inodes |-> IF record[i] = s THEN None ELSE record[i]]
  /\ fd' = [fd EXCEPT ![s] = None]

\* Points of a supervisor past the lock: failed to acquire, released or dead.
Over == {"failed", "refused", "teardown", "exited", "crashed"}

-----------------------------------------------------------------------------
(* Acquire.                                                                 *)

\* openPIDFile: the exclusive create succeeds, or finds the name taken.
Create(s) ==
  /\ path = None
  /\ Goto(s, "init", "opened")
  /\ \E i \in Inodes \ created :
       path' = i /\ created' = created \cup {i} /\ fd' = [fd EXCEPT ![s] = i]
  /\ UNCHANGED <<text, lockVars, asked, blocker, clientVars>>

NameTaken(s) ==
  /\ path # None
  /\ Goto(s, "init", "exists")
  /\ UNCHANGED <<fileVars, lockVars, fd, asked, blocker, clientVars>>

\* openPIDFile: the second open, without O_CREATE.
OpenExisting(s) ==
  /\ IF path # None
     THEN Goto(s, "exists", "opened") /\ fd' = [fd EXCEPT ![s] = path]
     ELSE Goto(s, "exists", "failed") /\ fd' = fd
  /\ UNCHANGED <<fileVars, lockVars, asked, blocker, clientVars>>

\* openPIDFile: the opened inode must still have its one link.
CheckOpened(s) ==
  /\ IF path = fd[s]
     THEN Goto(s, "opened", "checked") /\ UNCHANGED <<lockVars, fd>>
     ELSE Goto(s, "opened", "failed") /\ CloseFile(s) /\ flockSh' = flockSh
  /\ UNCHANGED <<fileVars, asked, blocker, clientVars>>

\* lockFile: the non-blocking exclusive flock; a lock held by anyone refuses
\* the supervisor with ErrPIDFileLocked.
Flock(s) ==
  /\ pc[s] = "checked"
  /\ IF flockEx[fd[s]] = None /\ flockSh[fd[s]] = {}
     THEN /\ Goto(s, "checked", "flocked")
          /\ flockEx' = [flockEx EXCEPT ![fd[s]] = s]
          /\ UNCHANGED <<record, fd, blocker>>
     ELSE /\ Goto(s, "checked", "refused")
          /\ blocker' = [blocker EXCEPT ![s] = flockEx[fd[s]]]
          /\ CloseFile(s)
  /\ UNCHANGED <<fileVars, flockSh, asked, clientVars>>

\* lockFile: the record lock on top of it.
SetLock(s) ==
  /\ pc[s] = "flocked"
  /\ IF record[fd[s]] = None
     THEN /\ Goto(s, "flocked", "locked")
          /\ record' = [record EXCEPT ![fd[s]] = s]
          /\ UNCHANGED <<flockEx, fd, blocker>>
     ELSE /\ Goto(s, "flocked", "refused")
          /\ blocker' = [blocker EXCEPT ![s] = record[fd[s]]]
          /\ CloseFile(s)
  /\ UNCHANGED <<fileVars, flockSh, asked, clientVars>>

\* validatePIDFileLinkCount: the inode may have been unlinked by its previous
\* owner between the open and the lock.
CheckLinkCount(s) ==
  /\ IF path = fd[s]
     THEN Goto(s, "locked", "linked") /\ UNCHANGED <<lockVars, fd>>
     ELSE Goto(s, "locked", "failed") /\ CloseFile(s) /\ flockSh' = flockSh
  /\ UNCHANGED <<fileVars, asked, blocker, clientVars>>

Truncate(s) ==
  /\ Goto(s, "linked", "truncated")
  /\ text' = [text EXCEPT ![fd[s]] = None]
  /\ UNCHANGED <<path, created, lockVars, fd, asked, blocker, clientVars>>

WritePID(s) ==
  /\ Goto(s, "truncated", "written")
  /\ text' = [text EXCEPT ![fd[s]] = s]
  /\ UNCHANGED <<path, created, lockVars, fd, asked, blocker, clientVars>>

\* Sync; Acquire returns the PIDFile.
Acquired(s) ==
  /\ Goto(s, "written", "held")
  /\ UNCHANGED <<fileVars, lockVars, fd, asked, blocker, clientVars>>

\* Truncate, write or sync fails: the file is closed and left behind.
AcquireFails(s) ==
  /\ \E from \in {"linked", "truncated", "written"} : Goto(s, from, "failed")
  /\ CloseFile(s)
  /\ UNCHANGED <<fileVars, flockSh, asked, blocker, clientVars>>

-----------------------------------------------------------------------------
(* PIDFile.Close, the rest of the process's life, and crashes.              *)

\* Mutant of CloseStat: the locks are dropped before the name is removed.
UnlockThenRemove(s) ==
  /\ Goto(s, "held", IF path = fd[s] THEN "remove" ELSE "unlock")
  /\ flockEx' = [flockEx EXCEPT ![fd[s]] = None]
  /\ record' = [record EXCEPT ![fd[s]] = None]
  /\ UNCHANGED <<fileVars, flockSh, fd, asked, blocker, clientVars>>

\* closePIDFile: does the path still name the acquired inode?
CloseStat(s) ==
  /\ Goto(s, "held", IF path = fd[s] THEN "remove" ELSE "unlock")
  /\ UNCHANGED <<fileVars, lockVars, fd, asked, blocker, clientVars>>

\* closePIDFile: os.Remove takes away whatever the path names now, or fails.
Remove(s) ==
  /\ Goto(s, "remove", "unlock")
  /\ path' \in {None, path}
  /\ UNCHANGED <<created, text, lockVars, fd, asked, blocker, clientVars>>

\* closePIDFile: the descriptor is closed, which releases both locks.
Unlock(s) ==
  /\ Goto(s, "unlock", "teardown")
  /\ CloseFile(s)
  /\ UNCHANGED <<fileVars, flockSh, asked, blocker, clientVars>>

\* The process exits: after teardown, or after a failed Acquire.
Exit(s) ==
  /\ \E from \in {"teardown", "failed", "refused"} : Goto(s, from, "exited")
  /\ UNCHANGED <<fileVars, lockVars, fd, asked, blocker, clientVars>>

\* A crash closes the descriptor and leaves the file where it is.
Crash(s) ==
  /\ pc[s] \notin {"init", "exited", "crashed"}
  /\ pc' = [pc EXCEPT ![s] = "crashed"]
  /\ CloseFile(s)
  /\ UNCHANGED <<fileVars, flockSh, asked, blocker, clientVars>>

-----------------------------------------------------------------------------
(* control.Stop.                                                            *)

CGoto(c, from, to) == cpc[c] = from /\ cpc' = [cpc EXCEPT ![c] = to]

\* runningPIDPath.open: the open, which fails when there is no file.
COpen(c) ==
  /\ path # None
  /\ CGoto(c, "init", "opened")
  /\ cfd' = [cfd EXCEPT ![c] = path]
  /\ gone' = [gone EXCEPT ![c] = {s \in Sups : pc[s] \in Over}]
  /\ UNCHANGED <<fileVars, lockVars, supVars, cpid>>

\* runningPIDPath.open: the opened inode must still have its one link.
CCheckOpened(c) ==
  /\ path = cfd[c]
  /\ CGoto(c, "opened", "linked")
  /\ UNCHANGED <<fileVars, lockVars, supVars, cfd, cpid, gone>>

\* OpenRunningPID: the recorded pid, which must be there.
CRead(c) ==
  /\ CGoto(c, "linked", "read")
  /\ text[cfd[c]] # None
  /\ cpid' = [cpid EXCEPT ![c] = text[cfd[c]]]
  /\ UNCHANGED <<fileVars, lockVars, supVars, cfd, gone>>

\* Mutant of SamePID: any owner will do.
AnyOwner(owner, pid) == TRUE

\* OpenRunningPID: the recorded pid must be the owner of the lock.
SamePID(owner, pid) == owner = pid

\* lockOwnerPID: the record lock's owner, or the flock's when there is none.
COwnerRecord(c) ==
  /\ CGoto(c, "read", IF record[cfd[c]] = None THEN "noRecord" ELSE "owned")
  /\ record[cfd[c]] = None \/ SamePID(record[cfd[c]], cpid[c])
  /\ UNCHANGED <<fileVars, lockVars, supVars, cfd, cpid, gone>>

\* The flock's owner, which is the recorded one only under a supervisor of an
\* older version that takes no record lock; otherwise OpenRunningPID fails.
COwnerFlock(c) ==
  /\ cpc[c] = "noRecord"
  /\ IF flockEx[cfd[c]] # None /\ SamePID(flockEx[cfd[c]], cpid[c])
     THEN CGoto(c, "noRecord", "owned") /\ cfd' = cfd
     ELSE CGoto(c, "noRecord", "failed") /\ cfd' = [cfd EXCEPT ![c] = None]
  /\ UNCHANGED <<fileVars, lockVars, supVars, cpid, gone>>

\* runningPIDPath.validate: the path still names the opened inode.
CValidate(c) ==
  /\ path = cfd[c]
  /\ CGoto(c, "owned", "verified")
  /\ UNCHANGED <<fileVars, lockVars, supVars, cfd, cpid, gone>>

\* SIGTERM; a process that is gone meanwhile (ESRCH) is no error.
CSignal(c) ==
  /\ CGoto(c, "verified", "polling")
  /\ asked' = asked \cup {cpid[c]}
  /\ UNCHANGED <<fileVars, lockVars, pc, fd, blocker, cfd, cpid, gone>>

\* Mutant of CPollRecord: the supervisor counts as gone with its path.
PollPath(c) ==
  /\ CGoto(c, "polling", IF path = cfd[c] THEN "pollFlock" ELSE "stopped")
  /\ UNCHANGED <<fileVars, lockVars, supVars, cfd, cpid, gone>>

\* lockNoLongerOwnedByPID: the owner decides when there is one.
CPollRecord(c) ==
  /\ CGoto(c, "polling", IF record[cfd[c]] = None THEN "pollFlock"
                         ELSE IF record[cfd[c]] = cpid[c] THEN "polling"
                         ELSE "stopped")
  /\ UNCHANGED <<fileVars, lockVars, supVars, cfd, cpid, gone>>

\* Mutant of CPollFlock: a file without an owner is polled again.
PollOwnerOnly(c) ==
  /\ CGoto(c, "pollFlock", IF flockEx[cfd[c]] \in {None, cpid[c]}
                           THEN "polling" ELSE "stopped")
  /\ UNCHANGED <<fileVars, lockVars, supVars, cfd, cpid, gone>>

CPollFlock(c) ==
  /\ CGoto(c, "pollFlock", IF flockEx[cfd[c]] = None THEN "tryLock"
                           ELSE IF flockEx[cfd[c]] = cpid[c] THEN "polling"
                           ELSE "stopped")
  /\ UNCHANGED <<fileVars, lockVars, supVars, cfd, cpid, gone>>

\* TryLock: a shared flock, kept until the file is closed.
CTryLock(c) ==
  /\ CGoto(c, "tryLock", IF flockEx[cfd[c]] = None THEN "stopped"
                                                   ELSE "polling")
  /\ flockSh' = IF flockEx[cfd[c]] = None
                THEN [flockSh EXCEPT ![cfd[c]] = @ \cup {c}] ELSE flockSh
  /\ UNCHANGED <<fileVars, flockEx, record, supVars, cfd, cpid, gone>>

\* The deferred close drops the shared flock; Stop returns nil.
CReturn(c) ==
  /\ CGoto(c, "stopped", "returned")
  /\ flockSh' = [i \in Inodes |-> flockSh[i] \ {c}]
  /\ cfd' = [cfd EXCEPT ![c] = None]
  /\ UNCHANGED <<fileVars, flockEx, record, supVars, cpid, gone>>

\* Every other end: no file, a failed check, an I/O error, the context done.
CFails(c) ==
  /\ cpc[c] \notin {"stopped", "returned", "failed"}
  /\ cpc' = [cpc EXCEPT ![c] = "failed"]
  /\ cfd' = [cfd EXCEPT ![c] = None]
  /\ UNCHANGED <<fileVars, lockVars, supVars, cpid, gone>>

-----------------------------------------------------------------------------

AcquireStep(s) ==
  \/ Create(s) \/ NameTaken(s) \/ OpenExisting(s) \/ CheckOpened(s)
  \/ Flock(s) \/ SetLock(s) \/ CheckLinkCount(s)
  \/ Truncate(s) \/ WritePID(s) \/ Acquired(s) \/ AcquireFails(s)

CloseStep(s) == CloseStat(s) \/ Remove(s) \/ Unlock(s) \/ Exit(s)

CheckStep(c) ==
  \/ COpen(c) \/ CCheckOpened(c) \/ CRead(c) \/ COwnerRecord(c)
  \/ COwnerFlock(c) \/ CValidate(c) \/ CSignal(c)

PollStep(c) ==
  CPollRecord(c) \/ CPollFlock(c) \/ CTryLock(c) \/ CReturn(c)

\* Every process is over: nothing more can happen.
Ended ==
  /\ \A s \in Sups : pc[s] \in {"exited", "crashed"}
  /\ \A c \in Clients : cpc[c] \in {"returned", "failed"}
  /\ UNCHANGED vars

Next ==
  \/ \E s \in Sups : AcquireStep(s) \/ CloseStep(s) \/ Crash(s)
  \/ \E c \in Clients : CheckStep(c) \/ PollStep(c) \/ CFails(c)
  \/ Ended

Spec == Init /\ [][Next]_vars

\* The operating system runs every process; a supervisor that has been sent
\* SIGTERM ends its run; I/O may fail but no context is ever sure to expire.
Fairness ==
  /\ \A s \in Sups :
       /\ WF_vars(AcquireStep(s))
       /\ WF_vars(s \in asked /\ CloseStat(s))
       /\ WF_vars(Remove(s)) /\ WF_vars(Unlock(s)) /\ WF_vars(Exit(s))
  /\ \A c \in Clients : WF_vars(CheckStep(c)) /\ WF_vars(PollStep(c))

FairSpec == Spec /\ Fairness

-----------------------------------------------------------------------------
(* Properties.                                                              *)

Owning   == {"linked", "truncated", "written", "held", "remove"}
Recorded == {"locked", "unlock"} \cup Owning
Locked   == {"flocked"} \cup Recorded
Opened   == {"opened", "checked"} \cup Locked
Written  == {"written", "held", "remove", "unlock"}

CRunning  == {"polling", "pollFlock", "tryLock"}
CVerified == {"owned", "verified", "stopped"} \cup CRunning
CKnowsPID == {"read", "noRecord"} \cup CVerified
COpened   == {"opened", "linked"} \cup CKnowsPID

(* Types; a supervisor (acquire, closePIDFile) has the file open exactly   *)
(* from the open to the close, whichever path it takes out.                *)
TypeOK ==
  /\ path \in Inodes \cup {None} /\ created \in SUBSET Inodes
  /\ text \in [Inodes -> Sups \cup {None}]
  /\ flockEx \in [Inodes -> Sups \cup {None}]
  /\ flockSh \in [Inodes -> SUBSET Clients]
  /\ record \in [Inodes -> Sups \cup {None}]
  /\ pc \in [Sups -> {"init", "exists"} \cup Opened \cup Over]
  /\ fd \in [Sups -> Inodes \cup {None}]
  /\ asked \in SUBSET Sups /\ blocker \in [Sups -> Sups \cup {None}]
  /\ cpc \in [Clients -> {"init", "returned", "failed"} \cup COpened]
  /\ cfd \in [Clients -> Inodes \cup {None}]
  /\ cpid \in [Clients -> Sups \cup {None}]
  /\ gone \in [Clients -> SUBSET Sups]
  /\ \A s \in Sups : fd[s] # None <=> pc[s] \in Opened
  /\ \A c \in Clients : cfd[c] # None <=> cpc[c] \in COpened
  /\ \A c \in Clients :
       cpc[c] \in CKnowsPID \cup {"returned"} => cpid[c] \in Sups

(* Two supervisors never both get past the checks of acquire: also not on  *)
(* two inodes, when one opened the file that the other's owner unlinks.    *)
OneOwner == \A s, r \in Sups : pc[s] \in Owning /\ pc[r] \in Owning => s = r

Owners == {s \in Sups : pc[s] \in Owning}

OS == INSTANCE Ownership WITH Processes <- Sups, owners <- Owners

(* The pid file passes from owner to owner as Ownership says: nobody takes *)
(* it while another owns it, whatever calls of others come between its own.*)
ImplementsOwnership == OS!Spec

(* From the link check of acquire until closePIDFile removes the name, the *)
(* path names the inode the supervisor has locked, so --stop and --restart *)
(* find it there.                                                          *)
NameBelongsToOwner ==
  \A s \in Sups : pc[s] \in Owning =>
    path = fd[s] /\ flockEx[path] = s /\ record[path] = s

(* The name is taken away only while it names the inode of the supervisor  *)
(* that removes it: nothing comes between the Stat and the Remove of       *)
(* closePIDFile.                                                           *)
RemoveOnlyOwn ==
  [][path # None /\ path' # path =>
       \E s \in Sups : pc[s] = "remove" /\ fd[s] = path]_vars

(* OpenRunningPID never accepts, and Stop never signals, a pid left in the *)
(* file by a supervisor that had released it or died before the file was   *)
(* opened, even when another one has locked the file and not yet written.  *)
StaleNeverSignalled ==
  \A c \in Clients : cpc[c] \in CVerified => cpid[c] \notin gone[c]

(* When Stop has seen Exited, the supervisor it signalled has released the *)
(* pid file or died.                                                       *)
StopSound ==
  \A c \in Clients : cpc[c] \in {"stopped", "returned"} => pc[cpid[c]] \in Over

(* A Stop that has sent its signal returns: the polling of                 *)
(* lockNoLongerOwnedByPID notices the release whatever happens to the file *)
(* next.                                                                   *)
StopReturns ==
  \A c \in Clients : cpc[c] = "polling" ~> cpc[c] \in {"returned", "failed"}

(* What the comment of Stop says: it "waits for the process to exit", so   *)
(* the process is not still in teardown when Stop has returned nil.  It    *)
(* may be: loop closes the pid file before teardown.                       *)
StopWaitsForExit ==
  \A c \in Clients : cpc[c] = "returned" => pc[cpid[c]] # "teardown"

(* What the comment of ErrPIDFileLocked says: it "means a live supervisor  *)
(* already holds the pid-file lock".  It may be the shared lock of a Stop. *)
LockedMeansLive == \A s \in Sups : pc[s] = "refused" => blocker[s] # None

=============================================================================
