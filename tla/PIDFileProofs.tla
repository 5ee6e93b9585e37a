---------------------------- MODULE PIDFileProofs ----------------------------
(***************************************************************************)
(* Proofs that the pid file protocol of PIDFile is correct for any number  *)
(* of supervisors, clients and inodes.                                     *)
(***************************************************************************)
EXTENDS PIDFile, TLAPS

-----------------------------------------------------------------------------
(* The inductive invariant.                                                 *)

\* A lock is held by the supervisor that has the inode open, from the call
\* that took it to the close.
LockInv ==
  /\ \A s \in Sups : pc[s] \in Locked => flockEx[fd[s]] = s
  /\ \A s \in Sups : pc[s] \in Recorded => record[fd[s]] = s
  /\ \A i \in Inodes, s \in Sups :
       flockEx[i] = s => pc[s] \in Locked /\ fd[s] = i
  /\ \A i \in Inodes, s \in Sups :
       record[i] = s => pc[s] \in Recorded /\ fd[s] = i

\* An owner's inode is the one the path names.
PathInv == \A s \in Sups : pc[s] \in Owning => path = fd[s]

\* A pid that stands, or was read, in an inode was written there by a
\* supervisor that still has that inode locked or is over.
Wrote(s, i) == (pc[s] \in Written /\ fd[s] = i) \/ pc[s] \in Over

TextInv == \A i \in Inodes, s \in Sups : text[i] = s => Wrote(s, i)

ClientInv ==
  \A c \in Clients :
    /\ gone[c] \subseteq {s \in Sups : pc[s] \in Over}
    /\ cpc[c] \in CKnowsPID => Wrote(cpid[c], cfd[c])

IInv == /\ TypeOK /\ LockInv /\ PathInv /\ TextInv /\ ClientInv
        /\ StaleNeverSignalled /\ StopSound

-----------------------------------------------------------------------------
(* Steps preserve each part of the invariant.                               *)

(* A client of the pid file changes neither a file, nor a supervisor's lock,
   nor what a supervisor is doing. *)
LEMMA ClientFrame ==
  ASSUME NEW c \in Clients, CheckStep(c) \/ PollStep(c) \/ CFails(c)
  PROVE  UNCHANGED <<path, text, flockEx, record, pc, fd>>
<1> USE DEF fileVars, lockVars, supVars
<1>1. CASE COpen(c) \/ CCheckOpened(c) \/ CRead(c)
  BY <1>1 DEF COpen, CCheckOpened, CRead
<1>2. CASE COwnerRecord(c) \/ COwnerFlock(c)
  BY <1>2 DEF COwnerRecord, COwnerFlock
<1>3. CASE CValidate(c) \/ CSignal(c)
  BY <1>3 DEF CValidate, CSignal
<1>4. CASE CPollRecord(c) \/ CPollFlock(c)
  BY <1>4 DEF CPollRecord, CPollFlock
<1>5. CASE CTryLock(c) \/ CReturn(c) \/ CFails(c)
  BY <1>5 DEF CTryLock, CReturn, CFails
<1>6. QED
  BY <1>1, <1>2, <1>3, <1>4, <1>5 DEF CheckStep, PollStep

(* A supervisor changes nothing of a client's, and is over for good. *)
LEMMA SupFrame ==
  ASSUME TypeOK, NEW s \in Sups, AcquireStep(s) \/ CloseStep(s) \/ Crash(s)
  PROVE  /\ UNCHANGED clientVars
         /\ \A r \in Sups : pc[r] \in Over => pc'[r] \in Over
<1>1. DOMAIN pc = Sups
  BY DEF TypeOK
<1>2. UNCHANGED clientVars
  BY DEF AcquireStep, CloseStep, Create, NameTaken, OpenExisting, CheckOpened,
         Flock, SetLock, CheckLinkCount, Truncate, WritePID, Acquired,
         AcquireFails, CloseStat, Remove, Unlock, Exit, Crash
<1>3. /\ \A r \in Sups \ {s} : pc'[r] = pc[r]
      /\ pc[s] \in Over => pc'[s] \in Over
  <2> USE <1>1 DEF Goto, Over
  <2>1. CASE Create(s) \/ NameTaken(s) \/ OpenExisting(s) \/ CheckOpened(s)
    BY <2>1 DEF Create, NameTaken, OpenExisting, CheckOpened
  <2>2. CASE Flock(s) \/ SetLock(s) \/ CheckLinkCount(s)
    BY <2>2 DEF Flock, SetLock, CheckLinkCount
  <2>3. CASE Truncate(s) \/ WritePID(s) \/ Acquired(s) \/ AcquireFails(s)
    BY <2>3 DEF Truncate, WritePID, Acquired, AcquireFails
  <2>4. CASE CloseStat(s) \/ Remove(s) \/ Unlock(s)
    BY <2>4 DEF CloseStat, Remove, Unlock
  <2>5. CASE Exit(s) \/ Crash(s)
    BY <2>5 DEF Exit, Crash
  <2>6. QED
    BY <2>1, <2>2, <2>3, <2>4, <2>5 DEF AcquireStep, CloseStep
<1>4. QED
  BY <1>2, <1>3

(* Every step of acquire, closePIDFile and Stop keeps the types, and opens and
   closes the file where the program counter says. *)
LEMMA TypeStep ==
  ASSUME TypeOK, [Next]_vars
  PROVE  TypeOK'
<1> USE NoneAssumption DEF TypeOK, Owning, Recorded, Locked, Opened, Written,
        Over, CRunning, CVerified, CKnowsPID, COpened, fileVars, lockVars,
        supVars, clientVars
<1>1. ASSUME NEW s \in Sups, Create(s) PROVE TypeOK'
  BY <1>1 DEF Create, Goto
<1>2. ASSUME NEW s \in Sups, NameTaken(s) PROVE TypeOK'
  BY <1>2 DEF NameTaken, Goto
<1>3. ASSUME NEW s \in Sups, OpenExisting(s) PROVE TypeOK'
  BY <1>3 DEF OpenExisting, Goto
<1>4. ASSUME NEW s \in Sups, CheckOpened(s) PROVE TypeOK'
  BY <1>4 DEF CheckOpened, CloseFile, Goto
<1>5. ASSUME NEW s \in Sups, Flock(s) PROVE TypeOK'
  BY <1>5 DEF Flock, CloseFile, Goto
<1>6. ASSUME NEW s \in Sups, SetLock(s) PROVE TypeOK'
  BY <1>6 DEF SetLock, CloseFile, Goto
<1>7. ASSUME NEW s \in Sups, CheckLinkCount(s) PROVE TypeOK'
  BY <1>7 DEF CheckLinkCount, CloseFile, Goto
<1>8. ASSUME NEW s \in Sups, Truncate(s) PROVE TypeOK'
  BY <1>8 DEF Truncate, Goto
<1>9. ASSUME NEW s \in Sups, WritePID(s) PROVE TypeOK'
  BY <1>9 DEF WritePID, Goto
<1>10. ASSUME NEW s \in Sups, Acquired(s) PROVE TypeOK'
  BY <1>10 DEF Acquired, Goto
<1>11. ASSUME NEW s \in Sups, AcquireFails(s) PROVE TypeOK'
  BY <1>11 DEF AcquireFails, CloseFile, Goto
<1>12. ASSUME NEW s \in Sups, CloseStat(s) PROVE TypeOK'
  BY <1>12 DEF CloseStat, Goto
<1>13. ASSUME NEW s \in Sups, Remove(s) PROVE TypeOK'
  BY <1>13 DEF Remove, Goto
<1>14. ASSUME NEW s \in Sups, Unlock(s) PROVE TypeOK'
  BY <1>14 DEF Unlock, CloseFile, Goto
<1>15. ASSUME NEW s \in Sups, Exit(s) PROVE TypeOK'
  BY <1>15 DEF Exit, Goto
<1>16. ASSUME NEW s \in Sups, Crash(s) PROVE TypeOK'
  BY <1>16 DEF Crash, CloseFile, Goto
<1>17. ASSUME NEW c \in Clients, COpen(c) PROVE TypeOK'
  BY <1>17 DEF COpen, CGoto
<1>18. ASSUME NEW c \in Clients, CCheckOpened(c) PROVE TypeOK'
  BY <1>18 DEF CCheckOpened, CGoto
<1>19. ASSUME NEW c \in Clients, CRead(c) PROVE TypeOK'
  BY <1>19 DEF CRead, CGoto
<1>20. ASSUME NEW c \in Clients, COwnerRecord(c) PROVE TypeOK'
  BY <1>20 DEF COwnerRecord, SamePID, CGoto
<1>21. ASSUME NEW c \in Clients, COwnerFlock(c) PROVE TypeOK'
  BY <1>21 DEF COwnerFlock, SamePID, CGoto
<1>22. ASSUME NEW c \in Clients, CValidate(c) PROVE TypeOK'
  BY <1>22 DEF CValidate, CGoto
<1>23. ASSUME NEW c \in Clients, CSignal(c) PROVE TypeOK'
  BY <1>23 DEF CSignal, CGoto
<1>24. ASSUME NEW c \in Clients, CPollRecord(c) PROVE TypeOK'
  BY <1>24 DEF CPollRecord, CGoto
<1>25. ASSUME NEW c \in Clients, CPollFlock(c) PROVE TypeOK'
  BY <1>25 DEF CPollFlock, CGoto
<1>26. ASSUME NEW c \in Clients, CTryLock(c) PROVE TypeOK'
  BY <1>26 DEF CTryLock, CGoto
<1>27. ASSUME NEW c \in Clients, CReturn(c) PROVE TypeOK'
  BY <1>27 DEF CReturn, CGoto
<1>28. ASSUME NEW c \in Clients, CFails(c) PROVE TypeOK'
  BY <1>28 DEF CFails, CGoto
<1>29. CASE Ended \/ UNCHANGED vars
  BY <1>29 DEF Ended, vars
<1>30. QED
  BY <1>1, <1>2, <1>3, <1>4, <1>5, <1>6, <1>7, <1>8, <1>9, <1>10, <1>11,
         <1>12, <1>13, <1>14, <1>15, <1>16, <1>17, <1>18, <1>19, <1>20,
         <1>21, <1>22, <1>23, <1>24, <1>25, <1>26, <1>27, <1>28, <1>29
     DEF Next, AcquireStep, CloseStep, CheckStep, PollStep

(* Every step keeps the agreement of the locks with their holders. *)
LEMMA LockStep ==
  ASSUME TypeOK, TypeOK', LockInv, [Next]_vars
  PROVE  LockInv'
<1> USE NoneAssumption DEF TypeOK, LockInv, Owning, Recorded, Locked, Opened,
        Written, Over, fileVars, lockVars, supVars, clientVars
<1>1. ASSUME NEW s \in Sups,
             Create(s) \/ NameTaken(s) \/ OpenExisting(s)
      PROVE  LockInv'
  BY <1>1 DEF Create, NameTaken, OpenExisting, Goto
<1>2. ASSUME NEW s \in Sups,
             CheckOpened(s) \/ Flock(s)
      PROVE  LockInv'
  BY <1>2 DEF CheckOpened, CloseFile, Flock, Goto
<1>3. ASSUME NEW s \in Sups,
             SetLock(s) \/ CheckLinkCount(s)
      PROVE  LockInv'
  <2>1. CASE SetLock(s)
    <3>1. CASE pc'[s] = "locked"
      BY <2>1, <3>1 DEF SetLock, CloseFile, Goto
    <3>2. CASE pc'[s] # "locked"
      BY <2>1, <3>2 DEF SetLock, CloseFile, Goto
    <3>3. QED
      BY <3>1, <3>2
  <2>2. CASE CheckLinkCount(s)
    BY <2>2 DEF CloseFile, CheckLinkCount, Goto
  <2>3. QED
    BY <1>3, <2>1, <2>2
<1>4. ASSUME NEW s \in Sups,
             Truncate(s) \/ WritePID(s) \/ Acquired(s)
      PROVE  LockInv'
  BY <1>4 DEF Truncate, WritePID, Acquired, Goto
<1>5. ASSUME NEW s \in Sups,
             CloseStat(s) \/ Remove(s) \/ Exit(s)
      PROVE  LockInv'
  BY <1>5 DEF CloseStat, Remove, Exit, Goto
<1>6. ASSUME NEW s \in Sups, AcquireFails(s) PROVE LockInv'
  BY <1>6 DEF AcquireFails, CloseFile, Goto
<1>7. ASSUME NEW s \in Sups, Unlock(s) PROVE LockInv'
  BY <1>7 DEF Unlock, CloseFile, Goto
<1>8. ASSUME NEW s \in Sups, Crash(s) PROVE LockInv'
  BY <1>8 DEF Crash, CloseFile, Goto
<1>9. ASSUME NEW c \in Clients,
             CheckStep(c) \/ PollStep(c) \/ CFails(c)
      PROVE  LockInv'
  BY <1>9, ClientFrame
<1>10. CASE Ended \/ UNCHANGED vars
  BY <1>10 DEF Ended, vars
<1>11. QED
  BY <1>1, <1>2, <1>3, <1>4, <1>5, <1>6, <1>7, <1>8, <1>9, <1>10
     DEF Next, AcquireStep, CloseStep, CheckStep, PollStep

(* Every step keeps the owner's name: only an owner removes it, and there is
   only one lock on the inode it names. *)
LEMMA PathStep ==
  ASSUME TypeOK, LockInv, PathInv, [Next]_vars
  PROVE  PathInv'
<1> USE NoneAssumption DEF TypeOK, LockInv, PathInv, Owning, Recorded, Locked,
        Opened, Written, Over, fileVars, lockVars, supVars, clientVars
<1>1. ASSUME NEW s \in Sups,
             Create(s) \/ NameTaken(s) \/ OpenExisting(s)
      PROVE  PathInv'
  BY <1>1 DEF Create, NameTaken, OpenExisting, Goto
<1>2. ASSUME NEW s \in Sups,
             CheckOpened(s) \/ Flock(s)
      PROVE  PathInv'
  BY <1>2 DEF CheckOpened, CloseFile, Flock, Goto
<1>3. ASSUME NEW s \in Sups,
             SetLock(s) \/ CheckLinkCount(s)
      PROVE  PathInv'
  BY <1>3 DEF SetLock, CloseFile, CheckLinkCount, Goto
<1>4. ASSUME NEW s \in Sups,
             Truncate(s) \/ WritePID(s) \/ Acquired(s)
      PROVE  PathInv'
  BY <1>4 DEF Truncate, WritePID, Acquired, Goto
<1>5. ASSUME NEW s \in Sups,
             CloseStat(s) \/ Remove(s) \/ Exit(s)
      PROVE  PathInv'
  BY <1>5 DEF CloseStat, Remove, Exit, Goto
<1>6. ASSUME NEW s \in Sups,
             AcquireFails(s) \/ Unlock(s) \/ Crash(s)
      PROVE  PathInv'
  BY <1>6 DEF AcquireFails, CloseFile, Unlock, Crash, Goto
<1>7. ASSUME NEW c \in Clients,
             CheckStep(c) \/ PollStep(c) \/ CFails(c)
      PROVE  PathInv'
  BY <1>7 DEF CheckStep, PollStep, COpen, CCheckOpened, CRead, COwnerRecord,
         SamePID, COwnerFlock,
         CValidate, CSignal, CPollRecord, CPollFlock, CTryLock, CReturn,
         CFails, CGoto
<1>8. CASE Ended \/ UNCHANGED vars
  BY <1>8 DEF Ended, vars
<1>9. QED
  BY <1>1, <1>2, <1>3, <1>4, <1>5, <1>6, <1>7, <1>8
     DEF Next, AcquireStep, CloseStep, CheckStep, PollStep

(* Every step keeps the recorded pids written by a holder. *)
LEMMA TextStep ==
  ASSUME TypeOK, TypeOK', LockInv, TextInv, [Next]_vars
  PROVE  TextInv'
<1> USE NoneAssumption DEF TypeOK, LockInv, TextInv, Wrote, Owning, Recorded,
        Locked, Opened, Written, Over, fileVars, lockVars, supVars, clientVars
<1>1. ASSUME NEW s \in Sups,
             Create(s) \/ NameTaken(s) \/ OpenExisting(s)
      PROVE  TextInv'
  BY <1>1 DEF Create, NameTaken, OpenExisting, Goto
<1>2. ASSUME NEW s \in Sups,
             CheckOpened(s) \/ Flock(s)
      PROVE  TextInv'
  BY <1>2 DEF CheckOpened, CloseFile, Flock, Goto
<1>3. ASSUME NEW s \in Sups,
             SetLock(s) \/ CheckLinkCount(s)
      PROVE  TextInv'
  BY <1>3 DEF SetLock, CloseFile, CheckLinkCount, Goto
<1>4. ASSUME NEW s \in Sups,
             Truncate(s) \/ WritePID(s) \/ Acquired(s)
      PROVE  TextInv'
  BY <1>4 DEF Truncate, WritePID, Acquired, Goto
<1>5. ASSUME NEW s \in Sups,
             CloseStat(s) \/ Remove(s) \/ Exit(s)
      PROVE  TextInv'
  BY <1>5 DEF CloseStat, Remove, Exit, Goto
<1>6. ASSUME NEW s \in Sups,
             AcquireFails(s) \/ Unlock(s) \/ Crash(s)
      PROVE  TextInv'
  BY <1>6 DEF AcquireFails, CloseFile, Unlock, Crash, Goto
<1>7. ASSUME NEW c \in Clients,
             CheckStep(c) \/ PollStep(c) \/ CFails(c)
      PROVE  TextInv'
  BY <1>7, ClientFrame DEF Wrote
<1>8. CASE Ended \/ UNCHANGED vars
  BY <1>8 DEF Ended, vars
<1>9. QED
  BY <1>1, <1>2, <1>3, <1>4, <1>5, <1>6, <1>7, <1>8
     DEF Next, AcquireStep, CloseStep, CheckStep, PollStep

(* Every step keeps what a client of the pid file knows. *)
LEMMA ClientStep ==
  ASSUME TypeOK, TypeOK', TextInv, ClientInv, [Next]_vars
  PROVE  ClientInv'
<1> USE NoneAssumption DEF TypeOK, TextInv, ClientInv, Wrote, Owning,
        Recorded, Locked, Opened, Written, Over, CRunning, CVerified,
        CKnowsPID, COpened, fileVars, lockVars, supVars, clientVars
<1>1. ASSUME NEW s \in Sups,
             Create(s) \/ NameTaken(s) \/ OpenExisting(s)
      PROVE  ClientInv'
  BY SMTT(30), <1>1 DEF Create, NameTaken, OpenExisting, Goto
<1>2. ASSUME NEW s \in Sups,
             CheckOpened(s) \/ Flock(s)
      PROVE  ClientInv'
  BY <1>2 DEF CheckOpened, CloseFile, Flock, Goto
<1>3. ASSUME NEW s \in Sups,
             SetLock(s) \/ CheckLinkCount(s)
      PROVE  ClientInv'
  BY SMTT(30), <1>3 DEF SetLock, CloseFile, CheckLinkCount, Goto
<1>4. ASSUME NEW s \in Sups,
             Truncate(s) \/ WritePID(s) \/ Acquired(s)
      PROVE  ClientInv'
  BY <1>4 DEF Truncate, WritePID, Acquired, Goto
<1>5. ASSUME NEW s \in Sups,
             CloseStat(s) \/ Remove(s) \/ Exit(s)
      PROVE  ClientInv'
  BY <1>5 DEF CloseStat, Remove, Exit, Goto
<1>6. ASSUME NEW s \in Sups,
             AcquireFails(s) \/ Unlock(s) \/ Crash(s)
      PROVE  ClientInv'
  BY <1>6 DEF AcquireFails, CloseFile, Unlock, Crash, Goto
<1>7. ASSUME NEW c \in Clients,
             COpen(c) \/ CCheckOpened(c) \/ CRead(c)
      PROVE  ClientInv'
  BY <1>7 DEF COpen, CCheckOpened, CRead, CGoto
<1>8. ASSUME NEW c \in Clients,
             COwnerRecord(c) \/ COwnerFlock(c) \/ CValidate(c) \/ CSignal(c)
      PROVE  ClientInv'
  BY <1>8 DEF COwnerRecord, SamePID, COwnerFlock, CValidate, CSignal, CGoto
<1>9. ASSUME NEW c \in Clients,
             CPollRecord(c) \/ CPollFlock(c)
      PROVE  ClientInv'
  BY <1>9 DEF CPollRecord, CPollFlock, CGoto
<1>10. ASSUME NEW c \in Clients,
             CTryLock(c) \/ CReturn(c) \/ CFails(c)
      PROVE  ClientInv'
  BY <1>10 DEF CTryLock, CReturn, CFails, CGoto
<1>11. CASE Ended \/ UNCHANGED vars
  BY <1>11 DEF Ended, vars
<1>12. QED
  BY <1>1, <1>2, <1>3, <1>4, <1>5, <1>6, <1>7, <1>8, <1>9, <1>10, <1>11
     DEF Next, AcquireStep, CloseStep, CheckStep, PollStep

(* A client accepts a pid only from a held lock, whose holder is not over. *)
LEMMA StaleStep ==
  ASSUME TypeOK, TypeOK', LockInv, ClientInv, StaleNeverSignalled, [Next]_vars
  PROVE  StaleNeverSignalled'
<1>1. ASSUME NEW s \in Sups, AcquireStep(s) \/ CloseStep(s) \/ Crash(s)
      PROVE  StaleNeverSignalled'
  BY <1>1, SupFrame DEF StaleNeverSignalled, clientVars
<1>2. ASSUME NEW c \in Clients, CheckStep(c) \/ PollStep(c) \/ CFails(c)
      PROVE  StaleNeverSignalled'
  <2>1. /\ cpc \in [Clients -> {"init", "returned", "failed"} \cup COpened]
        /\ DOMAIN cpid = Clients /\ DOMAIN gone = Clients
    BY DEF TypeOK
  <2>2. CASE COpen(c) \/ CCheckOpened(c) \/ CRead(c) \/ CReturn(c) \/ CFails(c)
    <3>1. cpc'[c] \notin CVerified
      BY <2>1, <2>2 DEF COpen, CCheckOpened, CRead, CReturn, CFails, CGoto,
            CVerified, CRunning
    <3>2. \A d \in Clients \ {c} :
            cpc'[d] = cpc[d] /\ cpid'[d] = cpid[d] /\ gone'[d] = gone[d]
      BY <2>1, <2>2 DEF COpen, CCheckOpened, CRead, CReturn, CFails, CGoto
    <3>3. QED
      BY <3>1, <3>2 DEF StaleNeverSignalled
  <2>3. CASE COwnerRecord(c) \/ COwnerFlock(c)
    <3>1. cpc'[c] \in CVerified => pc[cpid[c]] \in Locked
      <4>1. cpid[c] \in Sups /\ cfd[c] \in Inodes
        BY <2>3 DEF COwnerRecord, COwnerFlock, CGoto, TypeOK, COpened, CKnowsPID
      <4>2. cpc'[c] \in CVerified =>
              record[cfd[c]] = cpid[c] \/ flockEx[cfd[c]] = cpid[c]
        BY <2>1, <2>3 DEF COwnerRecord, COwnerFlock, SamePID, CGoto, CVerified,
              CRunning
      <4>3. QED
        BY <4>1, <4>2 DEF LockInv, Locked
    <3>2. gone[c] \subseteq {s \in Sups : pc[s] \in Over}
      BY DEF ClientInv
    <3>3. Locked \cap Over = {}
      BY DEF Locked, Recorded, Owning, Over
    <3>4. cpc'[c] \in CVerified => cpid[c] \notin gone[c]
      BY <3>1, <3>2, <3>3
    <3>5. /\ UNCHANGED <<cpid, gone>>
          /\ \A d \in Clients \ {c} : cpc'[d] = cpc[d]
      BY <2>1, <2>3 DEF COwnerRecord, COwnerFlock, CGoto
    <3>6. QED
      BY <3>4, <3>5 DEF StaleNeverSignalled
  <2>4. CASE CValidate(c) \/ CSignal(c) \/ CPollRecord(c) \/ CPollFlock(c) \/ CTryLock(c)
    <3>1. UNCHANGED <<cpid, gone>> /\ cpc[c] \in CVerified
      BY <2>4 DEF CValidate, CSignal, CPollRecord, CPollFlock, CTryLock, CGoto,
            CVerified, CRunning
    <3>2. \A d \in Clients \ {c} : cpc'[d] = cpc[d]
      BY <2>1, <2>4 DEF CValidate, CSignal, CPollRecord, CPollFlock, CTryLock, CGoto
    <3>3. QED
      BY <3>1, <3>2 DEF StaleNeverSignalled
  <2>5. QED
    BY <1>2, <2>2, <2>3, <2>4 DEF CheckStep, PollStep
<1>3. CASE Ended \/ UNCHANGED vars
  BY <1>3 DEF Ended, vars, clientVars, StaleNeverSignalled
<1>4. QED
  BY <1>1, <1>2, <1>3 DEF Next

(* The poll of Stop ends only on a lock that its target does not hold. *)
LEMMA StopStep ==
  ASSUME TypeOK, TypeOK', LockInv, ClientInv, StopSound, [Next]_vars
  PROVE  StopSound'
<1>1. ASSUME NEW s \in Sups, AcquireStep(s) \/ CloseStep(s) \/ Crash(s)
      PROVE  StopSound'
  <2>1. \A c \in Clients : cpc[c] \in {"stopped", "returned"} => cpid[c] \in Sups
    BY DEF TypeOK, CKnowsPID, CVerified
  <2>2. QED
    BY <1>1, <2>1, SupFrame DEF StopSound, clientVars
<1>2. ASSUME NEW c \in Clients, CheckStep(c) \/ PollStep(c) \/ CFails(c)
      PROVE  StopSound'
  <2>1. DOMAIN cpc = Clients /\ DOMAIN cpid = Clients
    BY DEF TypeOK
  <2>2. pc' = pc
    BY <1>2, ClientFrame
  <2>3. CASE CheckStep(c) \/ CFails(c)
    <3>1. cpc'[c] \notin {"stopped", "returned"}
      BY <2>1, <2>3 DEF CheckStep, COpen, CCheckOpened, CRead, COwnerRecord,
            COwnerFlock, CValidate, CSignal, CFails, CGoto
    <3>2. \A d \in Clients \ {c} : cpc'[d] = cpc[d] /\ cpid'[d] = cpid[d]
      BY <2>1, <2>3 DEF CheckStep, COpen, CCheckOpened, CRead, COwnerRecord,
            COwnerFlock, CValidate, CSignal, CFails, CGoto
    <3>3. QED
      BY <2>2, <3>1, <3>2 DEF StopSound
  <2>4. CASE CPollRecord(c) \/ CPollFlock(c) \/ CTryLock(c)
    <3>1. /\ cpid' = cpid /\ cpc[c] \in CRunning
          /\ \A d \in Clients \ {c} : cpc'[d] = cpc[d]
      BY <2>1, <2>4 DEF CPollRecord, CPollFlock, CTryLock, CGoto, CRunning
    <3>2. cpc'[c] \in {"polling", "pollFlock", "tryLock", "stopped"}
      BY <2>1, <2>4 DEF CPollRecord, CPollFlock, CTryLock, CGoto
    <3>3. cpc'[c] = "stopped" =>
            record[cfd[c]] \notin {None, cpid[c]} \/ flockEx[cfd[c]] # cpid[c]
      <4>1. cpid[c] \in Sups
        BY <3>1 DEF TypeOK, CKnowsPID, CVerified
      <4>2. QED
        BY <2>1, <2>4, <4>1, NoneAssumption
           DEF CPollRecord, CPollFlock, CTryLock, CGoto
    <3>4. cpid[c] \in Sups /\ Wrote(cpid[c], cfd[c])
      BY <3>1 DEF TypeOK, ClientInv, CKnowsPID, CVerified
    <3>5. pc[cpid[c]] \in Written /\ fd[cpid[c]] = cfd[c] =>
            record[cfd[c]] = cpid[c] /\ flockEx[cfd[c]] = cpid[c]
      <4>1. Written \subseteq Recorded /\ Written \subseteq Locked
        BY DEF Written, Locked, Recorded, Owning
      <4>2. QED
        BY <3>4, <4>1 DEF LockInv
    <3>6. cpc'[c] = "stopped" => pc[cpid[c]] \in Over
      BY <3>3, <3>4, <3>5 DEF Wrote
    <3>7. QED
      BY <2>2, <3>1, <3>2, <3>6 DEF StopSound
  <2>5. CASE CReturn(c)
    <3>1. /\ cpid' = cpid /\ cpc[c] = "stopped"
          /\ \A d \in Clients \ {c} : cpc'[d] = cpc[d]
      BY <2>1, <2>5 DEF CReturn, CGoto
    <3>2. QED
      BY <2>2, <3>1 DEF StopSound
  <2>6. QED
    BY <1>2, <2>3, <2>4, <2>5 DEF PollStep
<1>3. CASE Ended \/ UNCHANGED vars
  BY <1>3 DEF Ended, vars, supVars, clientVars, StopSound
<1>4. QED
  BY <1>1, <1>2, <1>3 DEF Next

-----------------------------------------------------------------------------
(* Theorems.                                                                *)

(* No supervisor has touched the file and no client has opened it at first. *)
LEMMA InitIInv == Init => IInv
<1> USE NoneAssumption DEF Init
<1>1. Init => TypeOK
  BY DEF TypeOK, Owning, Recorded, Locked, Opened, Over, CRunning, CVerified,
         CKnowsPID, COpened
<1>2. Init => LockInv /\ PathInv /\ TextInv
  BY DEF LockInv, PathInv, TextInv, Owning, Recorded, Locked
<1>3. Init => ClientInv /\ StaleNeverSignalled /\ StopSound
  BY DEF ClientInv, StaleNeverSignalled, StopSound, CRunning, CVerified,
         CKnowsPID
<1>4. QED
  BY <1>1, <1>2, <1>3 DEF IInv

(* The invariant is inductive. *)
LEMMA NextIInv == IInv /\ [Next]_vars => IInv'
<1> SUFFICES ASSUME IInv, [Next]_vars PROVE IInv'
  OBVIOUS
<1> USE DEF IInv
<1>1. TypeOK'
  BY TypeStep
<1>2. LockInv'
  BY <1>1, LockStep
<1>3. PathInv'
  BY PathStep
<1>4. TextInv'
  BY <1>1, TextStep
<1>5. ClientInv'
  BY <1>1, ClientStep
<1>6. StaleNeverSignalled' /\ StopSound'
  BY <1>1, StaleStep, StopStep
<1>7. QED
  BY <1>1, <1>2, <1>3, <1>4, <1>5, <1>6

(* The inductive invariant holds of every state, which the theorems below   *)
(* use.                                                                     *)
LEMMA AlwaysIInv == Spec => []IInv
  BY InitIInv, NextIInv, PTL DEF Spec

(* The variables keep their types and no path through acquire, closePIDFile *)
(* or Stop leaks the open file.                                             *)
THEOREM TypeCorrect == Spec => []TypeOK
<1>1. IInv => TypeOK
  BY DEF IInv
<1>2. QED
  BY <1>1, AlwaysIInv, PTL

(* From the link check of acquire to closePIDFile the path names the inode  *)
(* its owner has locked.                                                    *)
THEOREM NameIsOwners == Spec => []NameBelongsToOwner
<1>1. IInv => NameBelongsToOwner
  BY DEF IInv, LockInv, PathInv, NameBelongsToOwner, Owning, Recorded, Locked
<1>2. QED
  BY <1>1, AlwaysIInv, PTL

(* Any number of supervisors contending for one pid file, crashing and      *)
(* releasing it at any time: at most one gets through acquire.              *)
THEOREM MutualExclusion == Spec => []OneOwner
<1>1. IInv => OneOwner
  BY NoneAssumption
     DEF IInv, TypeOK, LockInv, PathInv, OneOwner, Owning, Recorded, Locked,
         Opened
<1>2. QED
  BY <1>1, AlwaysIInv, PTL

(* OpenRunningPID accepts no pid that was stale when it opened the file.    *)
THEOREM NoStaleSignal == Spec => []StaleNeverSignalled
<1>1. IInv => StaleNeverSignalled
  BY DEF IInv
<1>2. QED
  BY <1>1, AlwaysIInv, PTL

(* Stop returns nil only for a supervisor that has released the file.       *)
THEOREM StopIsSound == Spec => []StopSound
<1>1. IInv => StopSound
  BY DEF IInv
<1>2. QED
  BY <1>1, AlwaysIInv, PTL

(* The Stat and the Remove of closePIDFile see the same inode.              *)
THEOREM RemovesOnlyOwn == Spec => RemoveOnlyOwn
<1> DEFINE Own == path # None /\ path' # path =>
                    \E s \in Sups : pc[s] = "remove" /\ fd[s] = path
<1>1. IInv /\ [Next]_vars => [Own]_vars
  <2> SUFFICES ASSUME IInv, Next, path # None, path' # path
               PROVE  \E s \in Sups : pc[s] = "remove" /\ fd[s] = path
    OBVIOUS
  <2>1. PICK s \in Sups : Create(s) \/ Remove(s)
    BY DEF Next, AcquireStep, CloseStep, CheckStep, PollStep, NameTaken,
           OpenExisting, CheckOpened, Flock, SetLock, CheckLinkCount, Truncate,
           WritePID, Acquired, AcquireFails, CloseStat, Unlock, Exit, Crash,
           COpen, CCheckOpened, CRead, COwnerRecord, COwnerFlock, CValidate,
           CSignal, CPollRecord, CPollFlock, CTryLock, CReturn, CFails, Ended,
           vars, fileVars
  <2>2. pc[s] = "remove"
    BY <2>1 DEF Create, Remove, Goto
  <2>3. QED
    BY <2>2 DEF IInv, PathInv, Owning
<1>2. QED
  BY <1>1, AlwaysIInv, PTL DEF Spec, RemoveOnlyOwn

-----------------------------------------------------------------------------
(* The refinement of Ownership.                                             *)

(* The inductive invariant holds what OneOwner asks of every state.         *)
LEMMA ExcludesNow == IInv => OneOwner
  BY NoneAssumption
     DEF IInv, TypeOK, LockInv, PathInv, OneOwner, Owning, Recorded, Locked,
         Opened

(* A system call moves one supervisor, into ownership by the link check     *)
(* only.                                                                    *)
LEMMA OneMoves ==
  ASSUME TypeOK, Next
  PROVE  \/ pc' = pc
         \/ \E s \in Sups, to \in {"init", "exists"} \cup Opened \cup Over :
              /\ pc' = [pc EXCEPT ![s] = to]
              /\ to \in Owning /\ pc[s] \notin Owning
                   => pc[s] = "locked" /\ path = fd[s]
<1> DEFINE Moves(s) ==
      \E to \in {"init", "exists"} \cup Opened \cup Over :
        /\ pc' = [pc EXCEPT ![s] = to]
        /\ to \in Owning /\ pc[s] \notin Owning
             => pc[s] = "locked" /\ path = fd[s]
<1> USE DEF Opened, Locked, Recorded, Owning, Over, Goto
<1>1. ASSUME NEW s \in Sups, Create(s) \/ NameTaken(s) \/ OpenExisting(s) \/ CheckOpened(s)
      PROVE  Moves(s)
  BY <1>1 DEF Create, NameTaken, OpenExisting, CheckOpened
<1>2. ASSUME NEW s \in Sups, Flock(s) \/ SetLock(s) \/ CheckLinkCount(s)
      PROVE  Moves(s)
  BY <1>2 DEF Flock, SetLock, CheckLinkCount
<1>3. ASSUME NEW s \in Sups, Truncate(s) \/ WritePID(s) \/ Acquired(s) \/ AcquireFails(s)
      PROVE  Moves(s)
  BY <1>3 DEF Truncate, WritePID, Acquired, AcquireFails
<1>4. ASSUME NEW s \in Sups, CloseStep(s) \/ Crash(s)
      PROVE  Moves(s)
  BY <1>4 DEF CloseStep, CloseStat, Remove, Unlock, Exit, Crash
<1>5. ASSUME NEW c \in Clients, CheckStep(c) \/ PollStep(c) \/ CFails(c)
      PROVE  pc' = pc
  BY <1>5, ClientFrame
<1>6. Ended => pc' = pc
  BY DEF Ended, vars, supVars
<1> QED
  BY <1>1, <1>2, <1>3, <1>4, <1>5, <1>6 DEF Next, AcquireStep

(* A system call is a step of Ownership, or changes no owner.               *)
LEMMA OwnershipStep == IInv /\ [Next]_vars => [OS!Next]_Owners
<1> SUFFICES ASSUME IInv, [Next]_vars PROVE OS!Next \/ Owners' = Owners
  BY DEF OS!Next
<1>1. CASE pc' = pc
  BY <1>1 DEF Owners
<1>2. ASSUME NEW s \in Sups, NEW to, pc' = [pc EXCEPT ![s] = to],
             to \in Owning /\ pc[s] \notin Owning => pc[s] = "locked" /\ path = fd[s]
      PROVE  OS!Next \/ Owners' = Owners
  <2>0. pc'[s] = to /\ \A r \in Sups \ {s} : pc'[r] = pc[r]
    <3>1. DOMAIN pc = Sups
      BY DEF IInv, TypeOK
    <3> QED
      BY <1>2, <3>1
  <2>1. CASE to \in Owning <=> pc[s] \in Owning
    BY <2>0, <2>1 DEF Owners
  <2>2. CASE to \in Owning /\ pc[s] \notin Owning
    <3>1. \A r \in Sups : pc[r] \notin Owning
      BY <1>2, <2>2, NoneAssumption
         DEF IInv, TypeOK, LockInv, PathInv, Owning, Recorded, Locked, Opened
    <3>2. Owners = {}
      BY <3>1 DEF Owners
    <3>3. \A r \in Sups : pc'[r] \in Owning <=> r = s
      BY <2>0, <2>2, <3>1
    <3>4. Owners' = {s}
      BY <3>3 DEF Owners
    <3> QED
      BY <3>2, <3>4 DEF OS!Next, OS!Take
  <2>3. CASE to \notin Owning /\ pc[s] \in Owning
    <3>1. \A r \in Sups : pc'[r] \notin Owning
      BY <2>0, <2>3, ExcludesNow DEF OneOwner
    <3>2. Owners # {} /\ Owners' = {}
      BY <2>3, <3>1 DEF Owners
    <3> QED
      BY <3>2 DEF OS!Next, OS!Drop
  <2> QED
    BY <2>1, <2>2, <2>3
<1> QED
  BY <1>1, <1>2, OneMoves DEF vars, supVars, IInv

(* The pid file on Linux passes from owner to owner as Ownership says.      *)
THEOREM PIDFileImplementsOwnership == Spec => ImplementsOwnership
<1>1. Init => OS!Init
  BY DEF Init, OS!Init, Owners, Owning
<1>2. QED
  BY <1>1, OwnershipStep, AlwaysIInv, PTL DEF Spec, ImplementsOwnership, OS!Spec
=============================================================================
