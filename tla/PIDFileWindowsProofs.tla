------------------------ MODULE PIDFileWindowsProofs ------------------------
(***************************************************************************)
(* Proofs that the pid file protocol of PIDFileWindows is correct for any  *)
(* number of supervisors of either version, clients and files.             *)
(***************************************************************************)
EXTENDS PIDFileWindows, TLAPS

\* At most one supervisor is past the lock.
LEMMA OnePastLock ==
  ASSUME TypeOK, OpenNamed, Locks, Locked, NEW s \in Sups, NEW r \in Sups,
         pc[s] \in Owning \cup {"locked"}, pc[r] \in Owning \cup {"locked"}
  PROVE  s = r
<1>1. handle[s] = path /\ handle[r] = path /\ path \in Files
  BY DEF OpenNamed, Open, Owning, TypeOK
<1>2. exclusive[path] = s \/ s \in shared[path]
  BY <1>1 DEF Locked, Owning
<1>3. exclusive[path] = r \/ r \in shared[path]
  BY <1>1 DEF Locked, Owning
<1> QED BY <1>1, <1>2, <1>3 DEF Locks

\* It holds while there is no file and nobody has one open.
LEMMA InitIInv == Init => IInv
BY WindowsAssumption DEF Init, IInv, TypeOK, OpenNamed, Locks, Locked,
   Texts, Open, Idle, Owning

\* Every variable keeps its type.
LEMMA TypeStep ==
  TypeOK /\ OpenNamed /\ Next => TypeOK'
<1> SUFFICES ASSUME TypeOK, OpenNamed, Next PROVE TypeOK'
  OBVIOUS
<1> USE DEF Goto, CloseHandle, fileVars, lockVars, supVars
<1>1. ASSUME NEW c \in Clients,
             ProbeCreate(c) \/ ProbeOpen(c) \/ ProbeFails(c)
      PROVE  TypeOK'
  BY <1>1 DEF TypeOK, ProbeCreate, ProbeOpen, ProbeFails
<1>2. ASSUME NEW s \in Sups, Create(s) \/ NameTaken(s) \/ OpenExisting(s)
      PROVE  TypeOK'
  BY <1>2 DEF TypeOK, Create, NameTaken, OpenExisting, Open, Idle,
     Owning
<1>3. ASSUME NEW s \in Sups, Lock(s) \/ CheckLinkCount(s) \/ AcquireFails(s)
      PROVE  TypeOK'
  BY <1>3 DEF TypeOK, Lock, CheckLinkCount, AcquireFails, Open,
     Idle, Owning
<1>4. ASSUME NEW s \in Sups, ReportOwner(s)
      PROVE  TypeOK'
  <2>1. handle[s] \in Files
    BY <1>4 DEF ReportOwner, OpenNamed, TypeOK, Open, Owning
  <2> QED BY <1>4, <2>1 DEF TypeOK, ReportOwner, Open, Idle, Owning
<1>5. ASSUME NEW s \in Sups,
             Truncate(s) \/ WritePID(s) \/ Overlay(s) \/ Downgrade(s)
      PROVE  TypeOK'
  BY <1>5 DEF TypeOK, Truncate, WritePID, Overlay, Downgrade, Open,
     Idle, Owning
<1>6. ASSUME NEW s \in Sups, LegacyHolds(s) \/ Remove(s) \/ Crash(s)
      PROVE  TypeOK'
  BY <1>6 DEF TypeOK, LegacyHolds, Remove, Crash, Open, Idle,
     Owning
<1>7. ASSUME NEW s \in Sups, CloseStat(s)
      PROVE  TypeOK'
  <2>1. owned' \in [Sups -> BOOLEAN]
    <3>1. (path = handle[s]) \in BOOLEAN
      OBVIOUS
    <3> QED BY <1>7, <3>1, Zenon DEF TypeOK, CloseStat
  <2> QED BY <1>7, <2>1 DEF TypeOK, CloseStat, Open, Idle, Owning
<1>8. ASSUME NEW s \in Sups, Close(s)
      PROVE  TypeOK'
  <2>1. CASE owned[s]
    BY <1>8, <2>1 DEF TypeOK, Close, Open, Idle, Owning
  <2>2. CASE ~owned[s]
    BY <1>8, <2>2 DEF TypeOK, Close, Open, Idle, Owning
  <2> QED BY <2>1, <2>2
<1> QED BY <1>1, <1>2, <1>3, <1>4, <1>5, <1>6, <1>7, <1>8 DEF Next

\* What is open keeps its name: os.Remove spares it.
LEMMA OpenStep == IInv /\ Next => OpenNamed'
<1> SUFFICES ASSUME IInv, Next PROVE OpenNamed'
  OBVIOUS
<1> USE WindowsAssumption DEF IInv, TypeOK, OpenNamed, Goto,
   CloseHandle, fileVars, lockVars, supVars, Open, Idle, Owning
<1>1. ASSUME NEW c \in Clients,
             ProbeCreate(c) \/ ProbeOpen(c) \/ ProbeFails(c)
      PROVE  OpenNamed'
  BY <1>1 DEF ProbeCreate, ProbeOpen, ProbeFails
<1>2. ASSUME NEW s \in Sups, Create(s) \/ NameTaken(s) \/ OpenExisting(s)
      PROVE  OpenNamed'
  BY <1>2 DEF Create, NameTaken, OpenExisting
<1>3. ASSUME NEW s \in Sups, Lock(s)
      PROVE  OpenNamed'
  BY <1>3 DEF Lock
<1>4. ASSUME NEW s \in Sups, Truncate(s) \/ WritePID(s)
      PROVE  OpenNamed'
  BY <1>4 DEF Truncate, WritePID
<1>5. ASSUME NEW s \in Sups,
             Overlay(s) \/ Downgrade(s) \/ LegacyHolds(s) \/ CloseStat(s)
      PROVE  OpenNamed'
  BY <1>5 DEF Overlay, Downgrade, LegacyHolds, CloseStat
<1>6. ASSUME NEW s \in Sups,
             ReportOwner(s) \/ CheckLinkCount(s) \/ AcquireFails(s)
      PROVE  OpenNamed'
  BY <1>6 DEF ReportOwner, CheckLinkCount, AcquireFails
<1>7. ASSUME NEW s \in Sups, Close(s) \/ Crash(s)
      PROVE  OpenNamed'
  BY <1>7 DEF Close, Crash
<1>8. ASSUME NEW s \in Sups, Remove(s)
      PROVE  OpenNamed'
  BY <1>8 DEF Remove, Deletable
<1> QED BY <1>1, <1>2, <1>3, <1>4, <1>5, <1>6, <1>7, <1>8 DEF Next

\* Locks go with the handle and keep excluding each other.
LEMMA LocksStep == IInv /\ Next => Locks'
<1> SUFFICES ASSUME IInv, Next PROVE Locks'
  OBVIOUS
<1> USE WindowsAssumption DEF IInv, TypeOK, OpenNamed, Goto,
   CloseHandle, fileVars, lockVars, supVars, Open, Idle, Owning
<1>1. ASSUME NEW c \in Clients,
             ProbeCreate(c) \/ ProbeOpen(c) \/ ProbeFails(c)
      PROVE  Locks'
  BY <1>1 DEF Locks, Locked, ProbeCreate, ProbeOpen, ProbeFails
<1>2. ASSUME NEW s \in Sups, Create(s) \/ NameTaken(s) \/ OpenExisting(s)
      PROVE  Locks'
  BY <1>2 DEF Locks, Locked, Create, NameTaken, OpenExisting
<1>3. ASSUME NEW s \in Sups, Lock(s)
      PROVE  Locks'
  BY <1>3 DEF Locks, Locked, Lock
<1>4. ASSUME NEW s \in Sups, Truncate(s) \/ WritePID(s)
      PROVE  Locks'
  BY <1>4 DEF Locks, Locked, Truncate, WritePID
<1>5. ASSUME NEW s \in Sups,
             Overlay(s) \/ Downgrade(s) \/ LegacyHolds(s) \/ CloseStat(s)
      PROVE  Locks'
  <2>1. CASE Overlay(s)
    <3>1. handle[s] \in Files /\ exclusive[handle[s]] = s /\ shared[handle[s]] \subseteq {s}
      BY <2>1 DEF Overlay, Locks, Locked
    <3> QED BY <2>1, <3>1 DEF Overlay, Locks
  <2>2. CASE Downgrade(s)
    <3>1. handle[s] \in Files
      BY <2>2 DEF Downgrade
    <3> QED BY <2>2, <3>1 DEF Downgrade, Locks
  <2>3. CASE LegacyHolds(s) \/ CloseStat(s)
    BY <2>3 DEF LegacyHolds, CloseStat, Locks
  <2> QED BY <1>5, <2>1, <2>2, <2>3
<1>6. ASSUME NEW s \in Sups,
             ReportOwner(s) \/ CheckLinkCount(s) \/ AcquireFails(s)
      PROVE  Locks'
  BY <1>6 DEF Locks, Locked, ReportOwner, CheckLinkCount,
     AcquireFails
<1>7. ASSUME NEW s \in Sups, Close(s) \/ Crash(s)
      PROVE  Locks'
  BY <1>7 DEF Locks, Locked, Close, Crash
<1>8. ASSUME NEW s \in Sups, Remove(s)
      PROVE  Locks'
  BY <1>8 DEF Locks, Locked, Remove, Deletable
<1> QED BY <1>1, <1>2, <1>3, <1>4, <1>5, <1>6, <1>7, <1>8 DEF Next

\* Nobody's lock is lost before its handle is closed.
LEMMA LockedStep == IInv /\ Next => Locked'
<1> SUFFICES ASSUME IInv, Next PROVE Locked'
  OBVIOUS
<1> USE WindowsAssumption DEF IInv, TypeOK, OpenNamed, Goto,
   CloseHandle, fileVars, lockVars, supVars, Open, Idle, Owning
<1>1. ASSUME NEW c \in Clients,
             ProbeCreate(c) \/ ProbeOpen(c) \/ ProbeFails(c)
      PROVE  Locked'
  BY <1>1 DEF Locks, Locked, ProbeCreate, ProbeOpen, ProbeFails
<1>2. ASSUME NEW s \in Sups, Create(s) \/ NameTaken(s) \/ OpenExisting(s)
      PROVE  Locked'
  BY <1>2 DEF Locks, Locked, Create, NameTaken, OpenExisting
<1>3. ASSUME NEW s \in Sups, Lock(s)
      PROVE  Locked'
  BY <1>3 DEF Locks, Locked, Lock
<1>4. ASSUME NEW s \in Sups, Truncate(s) \/ WritePID(s)
      PROVE  Locked'
  BY <1>4 DEF Locks, Locked, Truncate, WritePID
<1>5. ASSUME NEW s \in Sups,
             Overlay(s) \/ Downgrade(s) \/ LegacyHolds(s) \/ CloseStat(s)
      PROVE  Locked'
  BY <1>5 DEF Locks, Locked, Overlay, Downgrade, LegacyHolds,
     CloseStat
<1>6. ASSUME NEW s \in Sups,
             ReportOwner(s) \/ CheckLinkCount(s) \/ AcquireFails(s)
      PROVE  Locked'
  BY <1>6 DEF Locks, Locked, ReportOwner, CheckLinkCount,
     AcquireFails
<1>7. ASSUME NEW s \in Sups, Close(s) \/ Crash(s)
      PROVE  Locked'
  BY <1>7 DEF Locks, Locked, Close, Crash
<1>8. ASSUME NEW s \in Sups, Remove(s)
      PROVE  Locked'
  BY <1>8 DEF Locks, Locked, Remove, Deletable
<1> QED BY <1>1, <1>2, <1>3, <1>4, <1>5, <1>6, <1>7, <1>8 DEF Next

\* Nobody but its owner writes the file.
LEMMA TextsStep == IInv /\ Next => Texts'
<1> SUFFICES ASSUME IInv, Next PROVE Texts'
  OBVIOUS
<1> USE WindowsAssumption DEF IInv, TypeOK, OpenNamed, Goto,
   CloseHandle, fileVars, lockVars, supVars, Open, Idle, Owning
<1>1. ASSUME NEW c \in Clients,
             ProbeCreate(c) \/ ProbeOpen(c) \/ ProbeFails(c)
      PROVE  Texts'
  BY <1>1 DEF Locks, Locked, Texts, ProbeCreate, ProbeOpen,
     ProbeFails
<1>2. ASSUME NEW s \in Sups, Create(s) \/ NameTaken(s) \/ OpenExisting(s)
      PROVE  Texts'
  BY <1>2 DEF Locks, Locked, Texts, Create, NameTaken, OpenExisting
<1>3. ASSUME NEW s \in Sups, Lock(s)
      PROVE  Texts'
  BY <1>3 DEF Locks, Locked, Texts, Lock
<1>4. ASSUME NEW s \in Sups, Truncate(s) \/ WritePID(s)
      PROVE  Texts'
  BY <1>4 DEF Locks, Locked, Texts, Truncate, WritePID
<1>5. ASSUME NEW s \in Sups,
             Overlay(s) \/ Downgrade(s) \/ LegacyHolds(s) \/ CloseStat(s)
      PROVE  Texts'
  BY <1>5 DEF Locks, Locked, Texts, Overlay, Downgrade,
     LegacyHolds, CloseStat
<1>6. ASSUME NEW s \in Sups,
             ReportOwner(s) \/ CheckLinkCount(s) \/ AcquireFails(s)
      PROVE  Texts'
  BY <1>6 DEF Locks, Locked, Texts, ReportOwner, CheckLinkCount,
     AcquireFails
<1>7. ASSUME NEW s \in Sups, Close(s) \/ Crash(s)
      PROVE  Texts'
  BY <1>7 DEF Locks, Locked, Texts, Close, Crash
<1>8. ASSUME NEW s \in Sups, Remove(s)
      PROVE  Texts'
  BY <1>8 DEF Locks, Locked, Texts, Remove, Deletable
<1> QED BY <1>1, <1>2, <1>3, <1>4, <1>5, <1>6, <1>7, <1>8 DEF Next

\* One more step, or a stutter, keeps the inductive invariant.
LEMMA NextIInv == IInv /\ [Next]_vars => IInv'
<1>1. CASE Next
  BY <1>1, TypeStep, OpenStep, LocksStep,
     LockedStep, TextsStep DEF IInv
<1>2. CASE UNCHANGED vars
  BY <1>2 DEF vars, fileVars, lockVars, supVars, IInv, TypeOK,
     OpenNamed, Locks, Locked, Texts
<1> QED BY <1>1, <1>2

\* The inductive invariant always holds.
LEMMA AlwaysIInv == Spec => []IInv
BY InitIInv, NextIInv, PTL DEF Spec

-----------------------------------------------------------------------------

\* The inductive invariant holds what OneOwner asks of every state.
LEMMA ExcludesNow ==
  IInv => OneOwner
BY OnePastLock DEF IInv, OneOwner

\* However many supervisors of this and of older versions contend, and whatever
\* clients look on, two never both get past the checks of acquire.
THEOREM WindowsMutualExclusion == Spec => []OneOwner
BY ExcludesNow, AlwaysIInv, PTL

\* No late os.Remove of another supervisor takes the path from its owner.
THEOREM OwnerKeepsName == Spec => []OwnerNamed
<1>1. IInv => OwnerNamed
  BY DEF IInv, OpenNamed, OwnerNamed, Open
<1> QED BY <1>1, AlwaysIInv, PTL

\* A supervisor refused by a holder names that holder.
THEOREM RefusalIsTruthful == Spec => RefusalNamesHolder
<1>1. ASSUME IInv, Next, NEW s \in Sups, NEW r \in Sups,
             pc[s] = "lockedOut", pc'[s] = "refused", pc[r] = "held"
      PROVE  named'[s] = r
  <2>1. handle[s] = path /\ handle[r] = path
    BY <1>1 DEF IInv, OpenNamed, Open, Owning
  <2>2. text[path] = r
    BY <1>1, <2>1 DEF IInv, Texts
  <2>3. pc[s] # pc'[s] /\ s \in DOMAIN pc
    BY <1>1 DEF IInv, TypeOK
  <2>4. ASSUME NEW c \in Clients PROVE ~(ProbeCreate(c) \/ ProbeOpen(c) \/ ProbeFails(c))
    BY <2>3 DEF ProbeCreate, ProbeOpen, ProbeFails, supVars
  <2>5. PICK q \in Sups :
             \/ Create(q) \/ NameTaken(q) \/ OpenExisting(q) \/ Lock(q) \/ ReportOwner(q)
             \/ CheckLinkCount(q) \/ Truncate(q) \/ WritePID(q) \/ Overlay(q) \/ Downgrade(q)
             \/ LegacyHolds(q) \/ AcquireFails(q) \/ CloseStat(q) \/ Close(q) \/ Remove(q)
             \/ Crash(q)
    BY <1>1, <2>4 DEF Next
  <2>6. \E to : pc' = [pc EXCEPT ![q] = to]
    BY <2>5 DEF Goto, Create, NameTaken, OpenExisting, Lock,
       ReportOwner, CheckLinkCount, Truncate, WritePID, Overlay,
       Downgrade, LegacyHolds, AcquireFails, CloseStat, Close,
       Remove, Crash
  <2>7. q = s
    BY <2>3, <2>6
  <2>8. ReportOwner(s)
    BY <1>1, <2>3, <2>5, <2>7 DEF Goto, Create, NameTaken,
       OpenExisting, Lock, CheckLinkCount, Truncate, WritePID,
       Overlay, Downgrade, LegacyHolds, AcquireFails, CloseStat,
       Close, Remove, Crash
  <2>9. named' = [named EXCEPT ![s] = text[handle[s]]]
    BY <1>1, <2>1, <2>8 DEF ReportOwner, Goto, IInv, TypeOK
  <2> QED BY <1>1, <2>1, <2>2, <2>8, <2>9 DEF ReportOwner, IInv, TypeOK
<1>2. IInv /\ [Next]_vars
        => [\A s, r \in Sups :
              pc[s] = "lockedOut" /\ pc'[s] = "refused" /\ pc[r] = "held" => named'[s] = r]_vars
  BY <1>1
<1> QED BY <1>2, AlwaysIInv, PTL DEF Spec, RefusalNamesHolder

\* A step of acquire or close moves one supervisor only.
LEMMA OneMoves ==
  ASSUME IInv, Next
  PROVE  \/ pc' = pc
         \/ \E s \in Sups, to \in Open \cup Idle :
              /\ pc' = [pc EXCEPT ![s] = to]
              /\ to \in Owning /\ pc[s] \notin Owning => pc[s] = "locked"
<1>1. ASSUME NEW c \in Clients,
             ProbeCreate(c) \/ ProbeOpen(c) \/ ProbeFails(c)
      PROVE  pc' = pc
  BY <1>1 DEF ProbeCreate, ProbeOpen, ProbeFails, supVars
<1>2. ASSUME NEW s \in Sups,
             \/ Create(s) \/ NameTaken(s) \/ OpenExisting(s) \/ Lock(s) \/ ReportOwner(s)
             \/ CheckLinkCount(s) \/ Truncate(s) \/ WritePID(s) \/ Overlay(s) \/ Downgrade(s)
             \/ LegacyHolds(s) \/ AcquireFails(s) \/ CloseStat(s) \/ Close(s) \/ Remove(s)
             \/ Crash(s)
      PROVE  \E to \in Open \cup Idle :
               /\ pc' = [pc EXCEPT ![s] = to]
               /\ to \in Owning /\ pc[s] \notin Owning => pc[s] = "locked"
  BY <1>2 DEF Goto, Create, NameTaken, OpenExisting, Lock,
     ReportOwner, CheckLinkCount, Truncate, WritePID, Overlay,
     Downgrade, LegacyHolds, AcquireFails, CloseStat, Close,
     Remove, Crash, Open, Idle, Owning
<1> QED BY <1>1, <1>2 DEF Next

\* A step of the system is a step of Ownership, or changes no owner.
LEMMA OwnershipStep ==
  IInv /\ [Next]_vars => [OS!Next]_(Owners)
<1> SUFFICES ASSUME IInv, [Next]_vars PROVE OS!Next \/ Owners' = Owners
  BY DEF OS!Next
<1>1. CASE pc' = pc
  BY <1>1 DEF Owners
<1>2. ASSUME NEW s \in Sups, NEW to, pc' = [pc EXCEPT ![s] = to],
             to \in Owning /\ pc[s] \notin Owning => pc[s] = "locked"
      PROVE  OS!Next \/ Owners' = Owners
  <2>0. pc'[s] = to /\ \A r \in Sups \ {s} : pc'[r] = pc[r]
    BY <1>2 DEF IInv, TypeOK
  <2>1. CASE to \in Owning <=> pc[s] \in Owning
    BY <2>0, <2>1 DEF Owners
  <2>2. CASE to \in Owning /\ pc[s] \notin Owning
    <3>1. \A r \in Sups : pc[r] \notin Owning
      BY <1>2, <2>2, OnePastLock DEF IInv
    <3>2. Owners = {} /\ Owners' = {s}
      BY <2>0, <2>2, <3>1 DEF Owners
    <3> QED
      BY <3>2 DEF OS!Next, OS!Take
  <2>3. CASE to \notin Owning /\ pc[s] \in Owning
    <3>1. \A r \in Sups : pc'[r] \notin Owning
      BY <2>0, <2>3, ExcludesNow DEF OneOwner
    <3>2. Owners # {} /\ Owners' = {}
      BY <2>3, <3>1 DEF Owners
    <3> QED
      BY <3>2 DEF OS!Next, OS!Drop
  <2> QED
    BY <2>1, <2>2, <2>3
<1> QED
  BY <1>1, <1>2, OneMoves DEF vars, supVars

\* The pid file on Windows passes from owner to owner as Ownership says.
THEOREM WindowsImplementsOwnership == Spec => ImplementsOwnership
<1>1. Init => OS!Init
  BY DEF Init, OS!Init, Owners, Owning
<1> QED BY <1>1, OwnershipStep, AlwaysIInv, PTL DEF Spec,
   ImplementsOwnership, OS!Spec
=============================================================================
