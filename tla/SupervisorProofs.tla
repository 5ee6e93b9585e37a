-------------------------- MODULE SupervisorProofs --------------------------
(* Proofs that the supervisor of module Supervisor keeps its safety         *)
(* properties for any pids, configurations, listeners and bounds.           *)
EXTENDS Supervisor, FiniteSetTheorems, TLAPS

-----------------------------------------------------------------------------
(* Steps preserve each part of SafetyInv.                                   *)

(* Every step keeps the types of the variables of loop. *)
LEMMA TypeLoopStep ==
  ASSUME TypeOK, [Next]_vars
  PROVE  TypeLoop'
<1> USE BoundsAssumption, NoPidAssumption, ConfigsAssumption
    DEF TypeOK, TypeLoop, TypeRun, TypeProc,
        ProcStates, Running, Entries, Tracked, Released, InSetup, Starting,
         InLoop,
        trackVars, flagVars, heldVars, fileVars, ctlVars, runVars, procVars
<1>1. CASE SetupStep \/ RunReturn
  BY <1>1 DEF SetupStep, Validate, Acquire, Bind, Launch, RunReturn
<1>2. CASE StartCancelled \/ StartFails \/ StartTransient \/ Retry
           \/ RetryCancelled
  BY <1>2 DEF StartCancelled, StartFails, StartTransient, Retry,
         RetryCancelled,
         StartReturnsError, ReportStartup
<1>3. ASSUME NEW w \in Pids, Spawn(w) PROVE TypeLoop'
  BY <1>3 DEF Spawn
<1>4. CASE ProbePasses \/ ProbeCancelled
  BY <1>4 DEF ProbePasses, ProbeCancelled, StartReturnsWorker, ReportStartup,
         ResetTimer
<1>5. CASE ProbeFails
  BY <1>5 DEF ProbeFails, StartReturnsError, ReportStartup, Bury
<1>6. CASE Top \/ KillOld
  BY <1>6 DEF Top, WriteStatus, KillOld, Signal
<1>7. ASSUME NEW w \in Pids, RecvCurrentExit(w) PROVE TypeLoop'
  BY <1>7 DEF RecvCurrentExit, ReloadAndStart, Bury
<1>8. ASSUME NEW w \in Pids, RecvOldExit(w) PROVE TypeLoop'
  <2> DEFINE old == [oldWorkers EXCEPT ![w] = 0]
  <2>1. old \in [Pids -> Nat]
    OBVIOUS
  <2>2. p \in Pids => [old EXCEPT ![p] = generation] \in [Pids -> Nat]
    BY <2>1
  <2> HIDE DEF old
  <2>3. QED
    BY <1>8, <2>1, <2>2
    DEF RecvOldExit, BeginRestart, ReloadAndStart, PendingDue, old
<1>9. CASE CtxDone \/ RecvHangup \/ RecvTimer
  <2>1. p \in Pids => [oldWorkers EXCEPT ![p] = generation] \in [Pids -> Nat]
    OBVIOUS
  <2>2. CASE CtxDone
    BY <2>2 DEF CtxDone
  <2>3. CASE RecvHangup
    BY <2>1, <2>3 DEF RecvHangup, BeginRestart, ReloadAndStart, MayRestart
  <2>4. CASE RecvTimer
    BY <2>1, <2>4
    DEF RecvTimer, BeginRestart, ReloadAndStart, MayRestart, ResetTimer
  <2>5. QED
    BY <1>9, <2>2, <2>3, <2>4
<1>10. CASE Shutdown \/ WaitTimeout \/ ShutdownReturns
  BY <1>10 DEF Shutdown, WaitTimeout, ShutdownReturns, Signal, WaitOver
<1>11. ASSUME NEW w \in Pids, WaitExit(w) PROVE TypeLoop'
  BY <1>11 DEF WaitExit, WriteStatus, Bury
<1>12. CASE ReleaseStep
  BY <1>12 DEF ReleaseStep, ReleasePIDFile, RemoveStatus, CloseListeners,
         Finish
<1>13. ASSUME NEW w \in Pids, Waiter(w) PROVE TypeLoop'
  BY <1>13 DEF Waiter, Reap, WaiterAbandons, Bury
<1>14. ASSUME NEW w \in Pids, WorkerExits(w) PROVE TypeLoop'
  BY <1>14 DEF WorkerExits
<1>15. CASE Hangup \/ Cancel \/ TimerFires
  BY <1>15 DEF Hangup, Cancel, TimerFires
<1>16. CASE Exited \/ UNCHANGED vars
  BY <1>16 DEF Exited, vars
<1>17. QED
  BY <1>1, <1>2, <1>3, <1>4, <1>5, <1>6, <1>7, <1>8, <1>9, <1>10, <1>11,
         <1>12, <1>13, <1>14, <1>15, <1>16
     DEF Next, LoopStep, StartStep, SelectStep, ShutdownStep, Environment

(* Every step keeps the types of what run holds and reports. *)
LEMMA TypeRunStep ==
  ASSUME TypeOK, [Next]_vars
  PROVE  TypeRun'
<1> USE BoundsAssumption, ConfigsAssumption
    DEF TypeOK, TypeRun, flagVars, heldVars, fileVars, ctlVars, runVars
<1>1. CASE SetupStep \/ RunReturn
  <2>1. CASE Validate
    BY <2>1 DEF Validate
  <2>2. CASE Acquire
    BY <2>2 DEF Acquire
  <2>3. CASE Bind
    BY <2>3 DEF Bind
  <2>4. CASE Launch
    BY <2>4 DEF Launch
  <2>5. CASE RunReturn
    BY <2>5 DEF RunReturn
  <2>6. QED
    BY <1>1, <2>1, <2>2, <2>3, <2>4, <2>5 DEF SetupStep
<1>2. CASE StartCancelled \/ StartFails \/ StartTransient \/ Retry
           \/ RetryCancelled
  BY <1>2 DEF StartCancelled, StartFails, StartTransient, Retry,
         RetryCancelled, StartReturnsError, ReportStartup
<1>3. ASSUME NEW w \in Pids, Spawn(w) PROVE TypeRun'
  BY <1>3 DEF Spawn
<1>4. CASE ProbePasses \/ ProbeCancelled
  <2>1. CASE ProbePasses
    BY <2>1 DEF ProbePasses, StartReturnsWorker, ReportStartup
  <2>2. CASE ProbeCancelled
    BY <2>2 DEF ProbeCancelled, StartReturnsWorker, ReportStartup
  <2>3. QED
    BY <1>4, <2>1, <2>2
<1>5. CASE ProbeFails
  BY <1>5 DEF ProbeFails, StartReturnsError, ReportStartup
<1>6. CASE Top \/ KillOld
  BY <1>6 DEF Top, WriteStatus, KillOld
<1>7. ASSUME NEW w \in Pids, RecvCurrentExit(w) PROVE TypeRun'
  BY <1>7 DEF RecvCurrentExit, ReloadAndStart
<1>8. ASSUME NEW w \in Pids, RecvOldExit(w) PROVE TypeRun'
  BY <1>8 DEF RecvOldExit, BeginRestart, ReloadAndStart
<1>9. CASE CtxDone \/ RecvHangup \/ RecvTimer
  <2>1. CASE CtxDone
    BY <2>1 DEF CtxDone
  <2>2. CASE RecvHangup
    BY <2>2 DEF RecvHangup, BeginRestart, ReloadAndStart
  <2>3. CASE RecvTimer
    BY <2>3 DEF RecvTimer, BeginRestart, ReloadAndStart, ResetTimer
  <2>4. QED
    BY <1>9, <2>1, <2>2, <2>3
<1>10. CASE Shutdown \/ WaitTimeout \/ ShutdownReturns
  <2>1. CASE Shutdown
    BY <2>1 DEF Shutdown
  <2>2. CASE WaitTimeout
    BY <2>2 DEF WaitTimeout
  <2>3. CASE ShutdownReturns
    BY <2>3 DEF ShutdownReturns
  <2>4. QED
    BY <1>10, <2>1, <2>2, <2>3
<1>11. ASSUME NEW w \in Pids, WaitExit(w) PROVE TypeRun'
  BY <1>11 DEF WaitExit, WriteStatus
<1>12. CASE ReleaseStep
  <2>1. CASE ReleasePIDFile
    BY <2>1 DEF ReleasePIDFile
  <2>2. CASE RemoveStatus
    BY <2>2 DEF RemoveStatus
  <2>3. CASE CloseListeners
    BY <2>3 DEF CloseListeners
  <2>4. CASE Finish
    BY <2>4 DEF Finish
  <2>5. QED
    BY <1>12, <2>1, <2>2, <2>3, <2>4 DEF ReleaseStep
<1>13. ASSUME NEW w \in Pids, Waiter(w) PROVE TypeRun'
  BY <1>13 DEF Waiter, Reap, WaiterAbandons
<1>14. ASSUME NEW w \in Pids, WorkerExits(w) PROVE TypeRun'
  BY <1>14 DEF WorkerExits
<1>15. CASE Hangup \/ Cancel \/ TimerFires
  <2>1. CASE Hangup
    BY <2>1 DEF Hangup
  <2>2. CASE Cancel
    BY <2>2 DEF Cancel
  <2>3. CASE TimerFires
    BY <2>3 DEF TimerFires
  <2>4. QED
    BY <1>15, <2>1, <2>2, <2>3
<1>16. CASE Exited \/ UNCHANGED vars
  BY <1>16 DEF Exited, vars
<1>17. QED
  BY <1>1, <1>2, <1>3, <1>4, <1>5, <1>6, <1>7, <1>8, <1>9, <1>10, <1>11,
         <1>12, <1>13, <1>14, <1>15, <1>16
     DEF Next, LoopStep, StartStep, SelectStep, ShutdownStep, Environment

(* Every step keeps the types of the process table. *)
LEMMA TypeProcStep ==
  ASSUME TypeOK, [Next]_vars
  PROVE  TypeProc'
<1> USE NoPidAssumption
    DEF TypeOK, TypeLoop, TypeProc, ProcStates, Running, Entries,
         InSetup, Starting, InLoop, Released, trackVars, flagVars,
         ctlVars, procVars
<1>1. CASE SetupStep \/ RunReturn
  BY <1>1 DEF SetupStep, Validate, Acquire, Bind, Launch, RunReturn
<1>2. CASE StartCancelled \/ StartFails \/ StartTransient \/ Retry
           \/ RetryCancelled
  BY <1>2 DEF StartCancelled, StartFails, StartTransient, Retry,
         RetryCancelled, StartReturnsError
<1>3. ASSUME NEW w \in Pids, Spawn(w) PROVE TypeProc'
  BY <1>3 DEF Spawn
<1>4. CASE ProbePasses \/ ProbeCancelled
  BY <1>4 DEF ProbePasses, ProbeCancelled, StartReturnsWorker
<1>5. CASE ProbeFails
  BY <1>5 DEF ProbeFails, StartReturnsError, Bury
<1>6. CASE Top \/ KillOld
  BY <1>6 DEF Top, KillOld, Signal
<1>7. ASSUME NEW w \in Pids, RecvCurrentExit(w) PROVE TypeProc'
  BY <1>7 DEF RecvCurrentExit, ReloadAndStart, Bury
<1>8. ASSUME NEW w \in Pids, RecvOldExit(w) PROVE TypeProc'
  BY <1>8 DEF RecvOldExit, BeginRestart, ReloadAndStart, Bury
<1>9. CASE CtxDone \/ RecvHangup \/ RecvTimer
  BY <1>9 DEF CtxDone, RecvHangup, RecvTimer, BeginRestart, ReloadAndStart
<1>10. CASE Shutdown \/ WaitTimeout \/ ShutdownReturns
  BY <1>10 DEF Shutdown, WaitTimeout, ShutdownReturns, Signal
<1>11. ASSUME NEW w \in Pids, WaitExit(w) PROVE TypeProc'
  BY <1>11 DEF WaitExit, Bury
<1>12. CASE ReleaseStep
  BY <1>12 DEF ReleaseStep, ReleasePIDFile, RemoveStatus, CloseListeners,
         Finish
<1>13. ASSUME NEW w \in Pids, Waiter(w) PROVE TypeProc'
  BY <1>13 DEF Waiter, Reap, WaiterAbandons, Bury
<1>14. ASSUME NEW w \in Pids, WorkerExits(w) PROVE TypeProc'
  BY <1>14 DEF WorkerExits
<1>15. CASE Hangup \/ Cancel \/ TimerFires
  BY <1>15 DEF Hangup, Cancel, TimerFires
<1>16. CASE Exited \/ UNCHANGED vars
  BY <1>16 DEF Exited, vars
<1>17. QED
  BY <1>1, <1>2, <1>3, <1>4, <1>5, <1>6, <1>7, <1>8, <1>9, <1>10, <1>11,
         <1>12, <1>13, <1>14, <1>15, <1>16
     DEF Next, LoopStep, StartStep, SelectStep, ShutdownStep, Environment

(* No step of loop or startWorker loses a process. *)
LEMMA NoWorkerLostStep ==
  ASSUME TypeOK, TypeOK', NoWorkerLost, ProbeInv, CurrentInv, BooksInv,
         ShutdownInv, [Next]_vars
  PROVE  NoWorkerLost'
<1> USE NoPidAssumption
    DEF TypeOK, TypeLoop, TypeProc, BooksInv, CurrentInv, NoWorkerLost,
         ProbeInv, ShutdownInv, ProcStates, Running, Entries,
         Tracked, Released, InSetup, Starting, InLoop, trackVars,
         heldVars, procVars
<1>1. CASE SetupStep \/ RunReturn
  BY <1>1 DEF SetupStep, Validate, Acquire, Bind, Launch, RunReturn
<1>2. CASE StartCancelled \/ StartFails \/ StartTransient \/ Retry
           \/ RetryCancelled
  BY <1>2 DEF StartCancelled, StartFails, StartTransient, Retry,
         RetryCancelled, StartReturnsError
<1>3. ASSUME NEW w \in Pids, Spawn(w) PROVE NoWorkerLost'
  BY <1>3 DEF Spawn
<1>4. CASE ProbePasses \/ ProbeCancelled
  BY <1>4 DEF ProbePasses, ProbeCancelled, StartReturnsWorker
<1>5. CASE ProbeFails
  <2>1. /\ proc' = [proc EXCEPT ![probing] = "free"]
        /\ oldWorkers' = oldWorkers /\ p' = p
    BY <1>5 DEF ProbeFails, StartReturnsError, Bury
  <2>2. QED
    BY <2>1
<1>6. CASE Top \/ KillOld
  BY <1>6 DEF Top, KillOld
<1>7. ASSUME NEW w \in Pids, RecvCurrentExit(w) PROVE NoWorkerLost'
  BY <1>7 DEF RecvCurrentExit, ReloadAndStart, Bury
<1>8. ASSUME NEW w \in Pids, RecvOldExit(w) PROVE NoWorkerLost'
  BY <1>8 DEF RecvOldExit, BeginRestart, ReloadAndStart, Bury
<1>9. CASE CtxDone \/ RecvHangup \/ RecvTimer
  BY <1>9 DEF CtxDone, RecvHangup, RecvTimer, BeginRestart, ReloadAndStart
<1>10. CASE Shutdown \/ WaitTimeout \/ ShutdownReturns
  BY <1>10 DEF Shutdown, WaitTimeout, ShutdownReturns, WaitOver
<1>11. ASSUME NEW w \in Pids, WaitExit(w) PROVE NoWorkerLost'
  BY <1>11 DEF WaitExit, Bury
<1>12. CASE ReleaseStep
  BY <1>12 DEF ReleaseStep, ReleasePIDFile, RemoveStatus, CloseListeners,
         Finish
<1>13. ASSUME NEW w \in Pids, Waiter(w) PROVE NoWorkerLost'
  BY <1>13 DEF Waiter, Reap, WaiterAbandons, Bury
<1>14. ASSUME NEW w \in Pids, WorkerExits(w) PROVE NoWorkerLost'
  BY <1>14 DEF WorkerExits
<1>15. CASE Hangup \/ Cancel \/ TimerFires
  BY <1>15 DEF Hangup, Cancel, TimerFires
<1>16. CASE Exited \/ UNCHANGED vars
  BY <1>16 DEF Exited, vars
<1>17. QED
  BY <1>1, <1>2, <1>3, <1>4, <1>5, <1>6, <1>7, <1>8, <1>9, <1>10, <1>11,
         <1>12, <1>13, <1>14, <1>15, <1>16
     DEF Next, LoopStep, StartStep, SelectStep, ShutdownStep, Environment

(* A restart begins only without old workers, so it leaves one. *)
LEMMA OneDrainingStep ==
  ASSUME TypeOK, TypeOK', OneDraining, CurrentInv, EarlyInv, [Next]_vars
  PROVE  OneDraining'
<1> USE NoPidAssumption
    DEF TypeOK, TypeLoop, TypeProc, CurrentInv, EarlyInv, OneDraining,
         ProcStates, Running, Entries, Released, InSetup,
         Starting, InLoop, trackVars
<1>1. CASE SetupStep \/ RunReturn
  BY <1>1 DEF SetupStep, Validate, Acquire, Bind, Launch, RunReturn
<1>2. CASE StartCancelled \/ StartFails \/ StartTransient \/ Retry
           \/ RetryCancelled
  BY <1>2 DEF StartCancelled, StartFails, StartTransient, Retry,
         RetryCancelled, StartReturnsError
<1>3. ASSUME NEW w \in Pids, Spawn(w) PROVE OneDraining'
  BY <1>3 DEF Spawn
<1>4. CASE ProbePasses \/ ProbeCancelled
  BY <1>4 DEF ProbePasses, ProbeCancelled, StartReturnsWorker
<1>5. CASE ProbeFails
  BY <1>5 DEF ProbeFails, StartReturnsError
<1>6. CASE Top \/ KillOld
  BY <1>6 DEF Top, KillOld
<1>7. ASSUME NEW w \in Pids, RecvCurrentExit(w) PROVE OneDraining'
  BY <1>7 DEF RecvCurrentExit, ReloadAndStart
<1>8. ASSUME NEW w \in Pids, RecvOldExit(w) PROVE OneDraining'
  BY <1>8 DEF RecvOldExit, BeginRestart, ReloadAndStart, PendingDue
<1>9. CASE CtxDone \/ RecvHangup \/ RecvTimer
  <2>1. CASE CtxDone
    BY <2>1 DEF CtxDone
  <2>2. CASE RecvHangup
    BY <2>2 DEF RecvHangup, BeginRestart, ReloadAndStart, MayRestart
  <2>3. CASE RecvTimer
    BY <2>3 DEF RecvTimer, BeginRestart, ReloadAndStart, MayRestart
  <2>4. QED
    BY <1>9, <2>1, <2>2, <2>3
<1>10. CASE Shutdown \/ WaitTimeout \/ ShutdownReturns
  BY <1>10 DEF Shutdown, WaitTimeout, ShutdownReturns
<1>11. ASSUME NEW w \in Pids, WaitExit(w) PROVE OneDraining'
  BY <1>11 DEF WaitExit
<1>12. CASE ReleaseStep
  BY <1>12 DEF ReleaseStep, ReleasePIDFile, RemoveStatus, CloseListeners,
         Finish
<1>13. ASSUME NEW w \in Pids, Waiter(w) PROVE OneDraining'
  BY <1>13 DEF Waiter, Reap, WaiterAbandons
<1>14. ASSUME NEW w \in Pids, WorkerExits(w) PROVE OneDraining'
  BY <1>14 DEF WorkerExits
<1>15. CASE Hangup \/ Cancel \/ TimerFires
  BY <1>15 DEF Hangup, Cancel, TimerFires
<1>16. CASE Exited \/ UNCHANGED vars
  BY <1>16 DEF Exited, vars
<1>17. QED
  BY <1>1, <1>2, <1>3, <1>4, <1>5, <1>6, <1>7, <1>8, <1>9, <1>10, <1>11,
         <1>12, <1>13, <1>14, <1>15, <1>16
     DEF Next, LoopStep, StartStep, SelectStep, ShutdownStep, Environment

(* A hangup becomes pending only behind an old worker, whose exit takes it. *)
LEMMA PendingHangupKeptStep ==
  ASSUME TypeOK, PendingHangupKept, CurrentInv, BooksInv, EarlyInv, [Next]_vars
  PROVE  PendingHangupKept'
<1> DEFINE Busy == pc \in InLoop \cup Starting
           Kept == /\ oldWorkers' = oldWorkers /\ hangupPending' = hangupPending
                   /\ Busy' => Busy
<1>1. Kept \/ ~Busy' \/ ~hangupPending' \/ Entries(oldWorkers)' # {}
        => PendingHangupKept'
  BY DEF PendingHangupKept, Entries
<1> USE DEF Released, InSetup, Starting, InLoop, trackVars, flagVars
<1>2. SetupStep => Kept \/ ~Busy' \/ ~hangupPending'
  BY DEF SetupStep, Validate, Acquire, Bind, Launch, EarlyInv
<1>3. StartStep => Kept \/ ~Busy'
  BY DEF StartStep, StartCancelled, StartFails, StartTransient, Retry,
         RetryCancelled, Spawn, ProbePasses, ProbeCancelled, ProbeFails,
         StartReturnsError, StartReturnsWorker
<1>4. ASSUME NEW w \in Pids, RecvCurrentExit(w) PROVE Kept \/ ~Busy'
  BY <1>4 DEF RecvCurrentExit, ReloadAndStart
<1>5. ASSUME NEW w \in Pids, RecvOldExit(w)
      PROVE  ~hangupPending' \/ Entries(oldWorkers)' # {}
  <2> DEFINE old == [oldWorkers EXCEPT ![w] = 0]
  <2>1. CASE PendingDue(old)
    BY <1>5, <2>1 DEF RecvOldExit
  <2>2. CASE ~PendingDue(old)
    <3>1. oldWorkers' = old /\ hangupPending' = hangupPending
      BY <1>5, <2>2 DEF RecvOldExit
    <3>2. Entries(oldWorkers)' = Entries(old)
      BY <3>1 DEF Entries
    <3>3. QED
      BY <2>2, <3>1, <3>2 DEF PendingDue
  <2>3. QED
    BY <2>1, <2>2
<1>6. ASSUME pc = "select", NEW sig, BeginRestart(oldWorkers, sig)
      PROVE  Entries(oldWorkers)' # {}
  <2>1. p \in Pids /\ generation # 0
    BY <1>6 DEF TypeOK, TypeLoop, CurrentInv, BooksInv
  <2>2. oldWorkers'[p] = generation
    BY <1>6, <2>1, NoPidAssumption DEF BeginRestart, TypeOK, TypeLoop
  <2>3. QED
    BY <2>1, <2>2 DEF Entries
<1>7. CASE RecvHangup \/ RecvTimer
  <2>1. CASE MayRestart
    BY <1>1, <1>6, <1>7, <2>1 DEF RecvHangup, RecvTimer
  <2>2. CASE ~MayRestart
    <3>1. oldWorkers' = oldWorkers
      BY <1>7, <2>2 DEF RecvHangup, RecvTimer
    <3>2. Entries(oldWorkers)' # {}
      BY <2>2, <3>1 DEF MayRestart, Entries
    <3>3. QED
      BY <1>1, <3>2
  <2>3. QED
    BY <2>1, <2>2
<1>8. CtxDone \/ ShutdownStep \/ ReleaseStep => ~Busy'
  BY DEF CtxDone, ShutdownStep, Shutdown, WaitExit, WaitTimeout,
         ShutdownReturns, ReleaseStep, ReleasePIDFile, RemoveStatus,
         CloseListeners, Finish
<1>9. Top \/ KillOld \/ RunReturn \/ Environment \/ Exited \/ UNCHANGED vars
        => Kept
  BY DEF Top, KillOld, RunReturn, Environment, WorkerExits, Hangup, Cancel,
         TimerFires, Exited, vars
<1>10. ASSUME NEW w \in Pids, Waiter(w) PROVE Kept
  BY <1>10 DEF Waiter, Reap, WaiterAbandons
<1>11. QED
  BY <1>1, <1>2, <1>3, <1>4, <1>5, <1>7, <1>8, <1>9, <1>10
     DEF Next, LoopStep, SelectStep

(* Every step keeps what is known of the process under probe. *)
LEMMA ProbeInvStep ==
  ASSUME TypeOK, TypeOK', ProbeInv, CurrentInv, BooksInv, ShutdownInv,
         [Next]_vars
  PROVE  ProbeInv'
<1> USE NoPidAssumption
    DEF TypeOK, TypeLoop, TypeProc, CurrentInv, ProbeInv,
         ProcStates, Running, Entries, Tracked,
         Released, InSetup, Starting, InLoop, trackVars, procVars
<1>1. CASE SetupStep \/ RunReturn
  BY <1>1 DEF SetupStep, Validate, Acquire, Bind, Launch, RunReturn
<1>2. CASE StartCancelled \/ StartFails \/ StartTransient \/ Retry
           \/ RetryCancelled
  BY <1>2 DEF StartCancelled, StartFails, StartTransient, Retry,
         RetryCancelled, StartReturnsError
<1>3. ASSUME NEW w \in Pids, Spawn(w) PROVE ProbeInv'
  BY <1>3 DEF Spawn, BooksInv
<1>4. CASE ProbePasses \/ ProbeCancelled
  BY <1>4 DEF ProbePasses, ProbeCancelled, StartReturnsWorker
<1>5. CASE ProbeFails
  BY <1>5 DEF ProbeFails, StartReturnsError, Bury
<1>6. CASE Top \/ KillOld
  BY <1>6 DEF Top, KillOld
<1>7. ASSUME NEW w \in Pids, RecvCurrentExit(w) PROVE ProbeInv'
  BY <1>7 DEF RecvCurrentExit, ReloadAndStart, Bury
<1>8. ASSUME NEW w \in Pids, RecvOldExit(w) PROVE ProbeInv'
  BY <1>8 DEF RecvOldExit, BeginRestart, ReloadAndStart, Bury
<1>9. CASE CtxDone \/ RecvHangup \/ RecvTimer
  BY <1>9 DEF CtxDone, RecvHangup, RecvTimer, BeginRestart, ReloadAndStart
<1>10. CASE Shutdown \/ WaitTimeout \/ ShutdownReturns
  BY <1>10 DEF Shutdown, WaitTimeout, ShutdownReturns
<1>11. ASSUME NEW w \in Pids, WaitExit(w) PROVE ProbeInv'
  BY <1>11 DEF WaitExit, Bury
<1>12. CASE ReleaseStep
  BY <1>12 DEF ReleaseStep, ReleasePIDFile, RemoveStatus, CloseListeners,
         Finish
<1>13. ASSUME NEW w \in Pids, Waiter(w) PROVE ProbeInv'
  <2>1. CASE Reap(w)
    BY <2>1 DEF Reap
  <2>2. CASE WaiterAbandons(w)
    BY <2>2 DEF WaiterAbandons, Bury, ShutdownInv
  <2>3. QED
    BY <1>13, <2>1, <2>2 DEF Waiter
<1>14. ASSUME NEW w \in Pids, WorkerExits(w) PROVE ProbeInv'
  BY <1>14 DEF WorkerExits
<1>15. CASE Hangup \/ Cancel \/ TimerFires
  BY <1>15 DEF Hangup, Cancel, TimerFires
<1>16. CASE Exited \/ UNCHANGED vars
  BY <1>16 DEF Exited, vars
<1>17. QED
  BY <1>1, <1>2, <1>3, <1>4, <1>5, <1>6, <1>7, <1>8, <1>9, <1>10, <1>11,
         <1>12, <1>13, <1>14, <1>15, <1>16
     DEF Next, LoopStep, StartStep, SelectStep, ShutdownStep, Environment

(* Every step keeps what is known of the current worker. *)
LEMMA CurrentInvStep ==
  ASSUME TypeOK, TypeOK', ProbeInv, CurrentInv, BooksInv, ShutdownInv,
         [Next]_vars
  PROVE  CurrentInv'
<1> USE NoPidAssumption
    DEF TypeOK, TypeLoop, TypeProc, CurrentInv, ProbeInv,
         ProcStates, Running, Entries, Tracked,
         Released, InSetup, Starting, InLoop, trackVars, ctlVars,
         procVars
<1>1. CASE SetupStep \/ RunReturn
  BY <1>1 DEF SetupStep, Validate, Acquire, Bind, Launch, RunReturn
<1>2. CASE StartCancelled \/ StartFails \/ StartTransient \/ Retry
           \/ RetryCancelled
  BY <1>2 DEF StartCancelled, StartFails, StartTransient, Retry,
         RetryCancelled, StartReturnsError
<1>3. ASSUME NEW w \in Pids, Spawn(w) PROVE CurrentInv'
  BY <1>3 DEF Spawn, BooksInv
<1>4. CASE ProbePasses \/ ProbeCancelled
  <2>1. CASE ProbePasses
    BY <2>1 DEF ProbePasses, StartReturnsWorker
  <2>2. CASE ProbeCancelled
    BY <2>2 DEF ProbeCancelled, StartReturnsWorker
  <2>3. QED
    BY <1>4, <2>1, <2>2
<1>5. CASE ProbeFails
  BY <1>5 DEF ProbeFails, StartReturnsError, Bury
<1>6. CASE Top \/ KillOld
  BY <1>6 DEF Top, KillOld
<1>7. ASSUME NEW w \in Pids, RecvCurrentExit(w) PROVE CurrentInv'
  BY <1>7 DEF RecvCurrentExit, ReloadAndStart, Bury
<1>8. ASSUME NEW w \in Pids, RecvOldExit(w) PROVE CurrentInv'
  <2>1. pc = "select" /\ w # p /\ Bury(w) /\ UNCHANGED <<generation, ctxDone>>
    BY <1>8 DEF RecvOldExit
  <2>2. \/ /\ p' = NoPid /\ pc' \in {"start", "shutdown"}
        \/ /\ p' = p /\ pc' = "top"
           /\ oldWorkers' = [oldWorkers EXCEPT ![w] = 0]
    BY <1>8 DEF RecvOldExit, BeginRestart, ReloadAndStart
  <2>3. QED
    BY <2>1, <2>2 DEF Bury
<1>9. CASE CtxDone \/ RecvHangup \/ RecvTimer
  BY <1>9 DEF CtxDone, RecvHangup, RecvTimer, BeginRestart, ReloadAndStart
<1>10. CASE Shutdown \/ WaitTimeout \/ ShutdownReturns
  BY <1>10 DEF Shutdown, WaitTimeout, ShutdownReturns
<1>11. ASSUME NEW w \in Pids, WaitExit(w) PROVE CurrentInv'
  BY <1>11 DEF WaitExit, Bury
<1>12. CASE ReleaseStep
  BY <1>12 DEF ReleaseStep, ReleasePIDFile, RemoveStatus, CloseListeners,
         Finish
<1>13. ASSUME NEW w \in Pids, Waiter(w) PROVE CurrentInv'
  <2>1. CASE Reap(w)
    BY <2>1 DEF Reap
  <2>2. CASE WaiterAbandons(w)
    BY <2>2 DEF WaiterAbandons, Bury, ShutdownInv
  <2>3. QED
    BY <1>13, <2>1, <2>2 DEF Waiter
<1>14. ASSUME NEW w \in Pids, WorkerExits(w) PROVE CurrentInv'
  BY <1>14 DEF WorkerExits
<1>15. CASE Hangup \/ Cancel \/ TimerFires
  BY <1>15 DEF Hangup, Cancel, TimerFires
<1>16. CASE Exited \/ UNCHANGED vars
  BY <1>16 DEF Exited, vars
<1>17. QED
  BY <1>1, <1>2, <1>3, <1>4, <1>5, <1>6, <1>7, <1>8, <1>9, <1>10, <1>11,
         <1>12, <1>13, <1>14, <1>15, <1>16
     DEF Next, LoopStep, StartStep, SelectStep, ShutdownStep, Environment

(* Every step keeps the books of old workers and generations. *)
LEMMA BooksInvStep ==
  ASSUME TypeOK, TypeOK', NoWorkerLost, ProbeInv, CurrentInv, BooksInv,
         ShutdownInv, [Next]_vars
  PROVE  BooksInv'
<1> DEFINE
      Moved == \A v \in Pids :
                 \/ oldWorkers'[v] \in {0, oldWorkers[v]}
                 \/ /\ v = p /\ pc \in {"select", "shutdown"}
                    /\ oldWorkers'[v] = generation
      Same == /\ pc' \notin Released => pc \notin Released /\ Moved
              /\ \A v \in Pids : proc'[v] = "free" <=> proc[v] = "free"
              /\ genOf' = genOf
              /\ generation' \in {generation, generation + 1}
      Buried(w) == /\ pc' \notin Released =>
                        pc \notin Released /\ Moved /\ oldWorkers'[w] = 0
                   /\ Bury(w)
                   /\ generation' = generation
<1>1. ASSUME Same PROVE BooksInv'
  <2>1. genOf \in [Pids -> Nat] /\ generation \in Nat
    BY DEF TypeOK, TypeProc, TypeLoop
  <2>2. ASSUME NEW w \in Pids, pc' \notin Released, oldWorkers'[w] # 0
        PROVE  proc'[w] # "free" /\ oldWorkers'[w] = genOf'[w]
    <3>1. CASE oldWorkers'[w] = oldWorkers[w]
      BY <1>1, <2>2, <3>1 DEF BooksInv
    <3>2. CASE w = p /\ pc \in {"select", "shutdown"}
                 /\ oldWorkers'[w] = generation
      BY <1>1, <3>2, NoPidAssumption DEF CurrentInv, InLoop
    <3>3. QED
      BY <1>1, <2>2, <3>1, <3>2
  <2>3. ASSUME NEW w \in Pids
        PROVE  /\ proc'[w] # "free" => genOf'[w] # 0
               /\ genOf'[w] <= generation'
               /\ \A v \in Pids : genOf'[w] # 0 /\ genOf'[v] = genOf'[w]
                                    => v = w
    BY <1>1, <2>1 DEF BooksInv
  <2>4. QED
    BY <2>2, <2>3 DEF BooksInv
<1>2. ASSUME NEW w \in Pids, Buried(w) PROVE BooksInv'
  <2>1. genOf \in [Pids -> Nat] /\ generation \in Nat
          /\ proc \in [Pids -> ProcStates]
    BY DEF TypeOK, TypeProc, TypeLoop
  <2>2. \A v \in Pids : /\ proc'[v] = IF v = w THEN "free" ELSE proc[v]
                        /\ genOf'[v] = IF v = w THEN 0 ELSE genOf[v]
    BY <1>2, <2>1 DEF Bury
  <2>3. ASSUME NEW v \in Pids, pc' \notin Released, oldWorkers'[v] # 0
        PROVE  proc'[v] # "free" /\ oldWorkers'[v] = genOf'[v]
    <3>1. v # w
      BY <1>2, <2>3
    <3>2. CASE oldWorkers'[v] = oldWorkers[v]
      BY <1>2, <2>2, <2>3, <3>1, <3>2 DEF BooksInv
    <3>3. CASE v = p /\ pc \in {"select", "shutdown"}
                 /\ oldWorkers'[v] = generation
      BY <2>2, <3>1, <3>3, NoPidAssumption DEF CurrentInv, InLoop
    <3>4. QED
      BY <1>2, <2>3, <3>2, <3>3
  <2>4. ASSUME NEW v \in Pids
        PROVE  /\ proc'[v] # "free" => genOf'[v] # 0
               /\ genOf'[v] <= generation'
               /\ \A u \in Pids : genOf'[v] # 0 /\ genOf'[u] = genOf'[v]
                                    => u = v
    BY <1>2, <2>1, <2>2 DEF BooksInv
  <2>5. QED
    BY <2>3, <2>4 DEF BooksInv
<1> USE NoPidAssumption DEF TypeOK, TypeLoop, TypeProc, Released, trackVars,
        procVars
<1>3. CASE SetupStep \/ RunReturn
  BY <1>1, <1>3 DEF SetupStep, Validate, Acquire, Bind, Launch, RunReturn
<1>4. CASE StartCancelled \/ StartFails \/ StartTransient \/ Retry
           \/ RetryCancelled
  BY <1>1, <1>4 DEF StartCancelled, StartFails, StartTransient, Retry,
         RetryCancelled, StartReturnsError
<1>5. ASSUME NEW w \in Pids, Spawn(w) PROVE BooksInv'
  <2>1. \A v \in Pids :
          /\ proc'[v] = IF v = w THEN "starting" ELSE proc[v]
          /\ genOf'[v] = IF v = w THEN generation + 1 ELSE genOf[v]
    BY <1>5 DEF Spawn
  <2>2. oldWorkers' = oldWorkers /\ generation' = generation + 1
          /\ pc \notin Released /\ proc[w] = "free" /\ oldWorkers[w] = 0
    BY <1>5 DEF Spawn, BooksInv
  <2>3. \A v \in Pids : oldWorkers'[v] # 0 =>
                          proc'[v] # "free" /\ oldWorkers'[v] = genOf'[v]
    BY <2>1, <2>2 DEF BooksInv
  <2>4. \A v \in Pids : /\ proc'[v] # "free" => genOf'[v] # 0
                        /\ genOf'[v] <= generation'
    BY <2>1, <2>2 DEF BooksInv
  <2>5. \A u, v \in Pids : genOf'[v] # 0 /\ genOf'[u] = genOf'[v] => u = v
    <3>1. \A v \in Pids : genOf[v] # generation + 1
      BY DEF BooksInv
    <3>2. \A u, v \in Pids : genOf[v] # 0 /\ genOf[u] = genOf[v] => u = v
      BY DEF BooksInv
    <3>3. QED
      BY <2>1, <3>1, <3>2
  <2>6. QED
    BY <2>3, <2>4, <2>5 DEF BooksInv
<1>6. CASE ProbePasses \/ ProbeCancelled
  BY <1>1, <1>6 DEF ProbePasses, ProbeCancelled, StartReturnsWorker, ProbeInv
<1>7. CASE ProbeFails
  <2>1. probing \in Pids /\ oldWorkers[probing] = 0
    BY <1>7 DEF ProbeFails, ProbeInv
  <2>2. Buried(probing)
    BY <1>7, <2>1 DEF ProbeFails, StartReturnsError
  <2>3. QED
    BY <1>2, <2>1, <2>2
<1>8. CASE Top \/ KillOld \/ CtxDone
  BY <1>1, <1>8 DEF Top, KillOld, CtxDone
<1>9. ASSUME NEW w \in Pids, RecvCurrentExit(w) PROVE BooksInv'
  <2>1. Buried(w)
    BY <1>9 DEF RecvCurrentExit, CurrentInv, InLoop
  <2>2. QED
    BY <1>2, <2>1
<1>10. ASSUME NEW w \in Pids, RecvOldExit(w) PROVE BooksInv'
  <2>1. Bury(w) /\ generation' = generation /\ pc = "select"
    BY <1>10 DEF RecvOldExit
  <2>2. w # p /\ Moved /\ oldWorkers'[w] = 0
    BY <1>10 DEF RecvOldExit, BeginRestart
  <2>3. QED
    BY <1>2, <2>1, <2>2
<1>11. CASE RecvHangup \/ RecvTimer
  BY <1>1, <1>11 DEF RecvHangup, RecvTimer, BeginRestart
<1>12. CASE Shutdown
  BY <1>1, <1>12 DEF Shutdown
<1>13. CASE WaitTimeout \/ ShutdownReturns
  BY <1>1, <1>13 DEF WaitTimeout, ShutdownReturns
<1>14. ASSUME NEW w \in Pids, WaitExit(w) PROVE BooksInv'
  <2>1. Buried(w)
    BY <1>14 DEF WaitExit
  <2>2. QED
    BY <1>2, <2>1
<1>15. CASE ReleaseStep
  BY <1>1, <1>15 DEF ReleaseStep, ReleasePIDFile, RemoveStatus,
         CloseListeners, Finish
<1>16. ASSUME NEW w \in Pids, Waiter(w) PROVE BooksInv'
  <2>1. CASE Reap(w)
    BY <1>1, <2>1 DEF Reap
  <2>2. CASE WaiterAbandons(w)
    <3>1. Buried(w)
      BY <2>2 DEF WaiterAbandons, ShutdownInv
    <3>2. QED
      BY <1>2, <3>1
  <2>3. QED
    BY <1>16, <2>1, <2>2 DEF Waiter
<1>17. ASSUME NEW w \in Pids, WorkerExits(w) PROVE BooksInv'
  BY <1>1, <1>17 DEF WorkerExits, Running
<1>18. CASE Hangup \/ Cancel \/ TimerFires \/ Exited \/ UNCHANGED vars
  BY <1>1, <1>18 DEF Hangup, Cancel, TimerFires, Exited, vars
<1>19. QED
  BY <1>3, <1>4, <1>5, <1>6, <1>7, <1>8, <1>9, <1>10, <1>11, <1>12, <1>13,
     <1>14, <1>15, <1>16, <1>17, <1>18
     DEF Next, LoopStep, StartStep, SelectStep, ShutdownStep, Environment

(* Every step keeps the first worker without predecessors. *)
LEMMA EarlyInvStep ==
  ASSUME TypeOK, EarlyInv, [Next]_vars
  PROVE  EarlyInv'
<1> DEFINE Begun == Starting \cup InLoop \cup {"shutdown"}
           Early == /\ phase \in {"setup", "initial"}
                    /\ pc \in InSetup \cup Starting \cup InLoop
           Placed == /\ pc \in InSetup => phase = "setup"
                     /\ pc \in Begun => phase # "setup"
           None == Entries(oldWorkers) = {} /\ ~hangupPending
<1>1. EarlyInv <=> Placed /\ (Early => None)
  BY DEF EarlyInv
<1>2. EarlyInv' <=> Placed' /\ (Early' => None')
  BY DEF EarlyInv
<1>3. UNCHANGED <<oldWorkers, hangupPending>> => None' = None
  BY DEF Entries
<1> HIDE DEF None
<1> USE DEF Released, InSetup, Starting, InLoop, trackVars, flagVars
<1>4. CASE SetupStep
  BY <1>1, <1>2, <1>3, <1>4 DEF SetupStep, Validate, Acquire, Bind, Launch
<1>5. CASE StartStep
  BY <1>1, <1>2, <1>3, <1>5 DEF StartStep, StartCancelled, StartFails,
         StartTransient, Retry, RetryCancelled, Spawn, ProbePasses,
         ProbeCancelled, ProbeFails, StartReturnsError, StartReturnsWorker
<1>6. CASE Top \/ KillOld \/ CtxDone
  BY <1>1, <1>2, <1>3, <1>6 DEF Top, KillOld, CtxDone
<1>7. ASSUME NEW w \in Pids, RecvCurrentExit(w) PROVE EarlyInv'
  BY <1>1, <1>2, <1>7 DEF RecvCurrentExit, ReloadAndStart
<1>8. ASSUME NEW w \in Pids, RecvOldExit(w) PROVE EarlyInv'
  <2>1. CASE phase' = phase /\ pc' = "top" /\ hangupPending' = hangupPending
               /\ oldWorkers' = [oldWorkers EXCEPT ![w] = 0]
    <3>1. Entries(oldWorkers) = {} => Entries(oldWorkers)' = {}
      BY <2>1 DEF Entries, TypeOK, TypeLoop
    <3>2. None => None'
      BY <2>1, <3>1 DEF None
    <3>3. QED
      BY <1>1, <1>2, <1>8, <2>1, <3>2 DEF RecvOldExit
  <2>2. CASE ReloadAndStart("restart", "HUP")
    BY <1>1, <1>2, <1>8, <2>2 DEF RecvOldExit, ReloadAndStart
  <2>3. QED
    BY <1>8, <2>1, <2>2 DEF RecvOldExit, BeginRestart
<1>9. CASE RecvHangup \/ RecvTimer
  <2>1. CASE pc' = "top" /\ phase' = phase
    <3>1. pc = "select" /\ ~MayRestart
      BY <1>9, <2>1 DEF RecvHangup, RecvTimer, BeginRestart, ReloadAndStart
    <3>2. ~None
      BY <3>1 DEF MayRestart, None
    <3>3. QED
      BY <1>1, <1>2, <2>1, <3>1, <3>2
  <2>2. CASE pc' = "start" /\ phase' = "restart"
    BY <1>2, <2>2
  <2>3. CASE pc' = "shutdown" /\ phase' = phase
    BY <1>1, <1>2, <1>9, <2>3 DEF RecvHangup, RecvTimer
  <2>4. QED
    BY <1>9, <2>1, <2>2, <2>3
       DEF RecvHangup, RecvTimer, BeginRestart, ReloadAndStart
<1>10. CASE ShutdownStep \/ ReleaseStep
  <2>1. pc' \in {"drain", "reap"} \cup Released
    BY <1>10 DEF ShutdownStep, Shutdown, WaitExit, WaitTimeout,
         ShutdownReturns, ReleaseStep, ReleasePIDFile, RemoveStatus,
         CloseListeners, Finish
  <2>2. QED
    BY <1>2, <2>1
<1>11. CASE UNCHANGED <<pc, phase, oldWorkers, hangupPending>>
  BY <1>1, <1>2, <1>3, <1>11
<1>12. ASSUME NEW w \in Pids, Waiter(w) \/ WorkerExits(w)
       PROVE  UNCHANGED <<pc, phase, oldWorkers, hangupPending>>
  BY <1>12 DEF Waiter, Reap, WaiterAbandons, WorkerExits
<1>13. RunReturn \/ Hangup \/ Cancel \/ TimerFires \/ Exited \/ UNCHANGED vars
         => UNCHANGED <<pc, phase, oldWorkers, hangupPending>>
  BY DEF RunReturn, Hangup, Cancel, TimerFires, Exited, vars
<1>14. QED
  BY <1>4, <1>5, <1>6, <1>7, <1>8, <1>9, <1>10, <1>11, <1>12, <1>13
     DEF Next, LoopStep, SelectStep, Environment

(* The steps that lead into, or stay in, the two waits of shutdownWorkers. *)
LEMMA ShutdownSteps ==
  ASSUME [Next]_vars, pc' \in {"drain", "reap"}
  PROVE  \/ Shutdown \/ WaitTimeout
         \/ \E w \in Pids : WaitExit(w) \/ Waiter(w) \/ WorkerExits(w)
         \/ UNCHANGED <<pc, trackVars, procVars>>
<1> USE DEF Released, InSetup, Starting, InLoop
<1>1. ~SetupStep /\ ~Top /\ ~KillOld /\ ~ReleaseStep
  BY DEF SetupStep, Validate, Acquire, Bind, Launch, Top, KillOld,
         ReleaseStep, ReleasePIDFile, RemoveStatus, CloseListeners, Finish
<1>2. ~StartStep
  BY DEF StartStep, StartCancelled, StartFails, StartTransient, Retry,
         RetryCancelled, Spawn, ProbePasses, ProbeCancelled, ProbeFails,
         StartReturnsError, StartReturnsWorker
<1>3. ~SelectStep
  BY DEF SelectStep, RecvCurrentExit, RecvOldExit, CtxDone, RecvHangup,
         RecvTimer, BeginRestart, ReloadAndStart
<1>4. ~ShutdownReturns
  BY DEF ShutdownReturns
<1>5. RunReturn \/ Hangup \/ Cancel \/ TimerFires \/ Exited \/ UNCHANGED vars
        => UNCHANGED <<pc, trackVars, procVars>>
  BY DEF RunReturn, Hangup, Cancel, TimerFires, Exited, vars
<1>6. QED
  BY <1>1, <1>2, <1>3, <1>4, <1>5
     DEF Next, LoopStep, ShutdownStep, Environment

(* The workers shutdown waits for have been sent TERM. *)
LEMMA ShutdownSignalledStep ==
  ASSUME TypeOK, ShutdownSignalled, ShutdownInv, [Next]_vars
  PROVE  ShutdownSignalled'
<1> SUFFICES ASSUME pc' \in {"drain", "reap"}, NEW w \in Pids,
                    oldWorkers'[w] # 0, Running(w)'
             PROVE  "TERM" \in signals'[w]
  BY DEF ShutdownSignalled, Entries
<1> USE DEF TypeOK, TypeLoop, TypeProc, ShutdownSignalled, Entries, Running
<1>1. CASE Shutdown
  BY <1>1 DEF Shutdown, Signal, ShutdownInv
<1>2. CASE WaitTimeout
  BY <1>2 DEF WaitTimeout, Signal, trackVars
<1>3. ASSUME NEW v \in Pids, WaitExit(v) PROVE "TERM" \in signals'[w]
  BY <1>3 DEF WaitExit, Bury
<1>4. ASSUME NEW v \in Pids, Waiter(v) PROVE "TERM" \in signals'[w]
  BY <1>4 DEF Waiter, Reap, WaiterAbandons, Bury, trackVars
<1>5. ASSUME NEW v \in Pids, WorkerExits(v) PROVE "TERM" \in signals'[w]
  BY <1>5 DEF WorkerExits, trackVars
<1>6. CASE UNCHANGED <<pc, trackVars, procVars>>
  BY <1>6 DEF trackVars, procVars
<1>7. QED
  BY <1>1, <1>2, <1>3, <1>4, <1>5, <1>6, ShutdownSteps

(* Every step keeps what is known during shutdown. *)
LEMMA ShutdownInvStep ==
  ASSUME TypeOK, NoWorkerLost, ProbeInv, BooksInv, CurrentInv, ShutdownInv,
         [Next]_vars
  PROVE  ShutdownInv'
<1>1. pc' \in {"shutdown", "drain", "reap"} => sigToSend' = "TERM"
  <2> USE DEF ShutdownInv, Released, flagVars
  <2>1. CASE SetupStep \/ Top \/ KillOld \/ ReleaseStep \/ RunReturn
    BY <2>1 DEF SetupStep, Validate, Acquire, Bind, Launch, Top, KillOld,
         ReleaseStep, ReleasePIDFile, RemoveStatus, CloseListeners, Finish,
         RunReturn
  <2>2. CASE StartStep
    BY <2>2 DEF StartStep, StartCancelled, StartFails, StartTransient, Retry,
         RetryCancelled, Spawn, ProbePasses, ProbeCancelled, ProbeFails,
         StartReturnsError, StartReturnsWorker
  <2>3. CASE SelectStep
    BY <2>3 DEF SelectStep, RecvCurrentExit, RecvOldExit, CtxDone, RecvHangup,
         RecvTimer, BeginRestart, ReloadAndStart
  <2>4. CASE ShutdownStep
    BY <2>4 DEF ShutdownStep, Shutdown, WaitExit, WaitTimeout, ShutdownReturns
  <2>5. CASE Environment \/ Exited \/ UNCHANGED vars
    BY <2>5 DEF Environment, WorkerExits, Hangup, Cancel, TimerFires, Exited,
         vars
  <2>6. ASSUME NEW w \in Pids, Waiter(w)
        PROVE  pc' = pc /\ sigToSend' = sigToSend
    BY <2>6 DEF Waiter, Reap, WaiterAbandons
  <2>7. QED
    BY <2>1, <2>2, <2>3, <2>4, <2>5, <2>6 DEF Next, LoopStep
<1>2. ASSUME pc' \in {"drain", "reap"}, NEW w \in Pids, proc'[w] # "free"
      PROVE  oldWorkers'[w] # 0
  <2> USE DEF TypeOK, TypeLoop, TypeProc, ShutdownInv
  <2>1. CASE Shutdown
    <3>1. proc[w] # "free" /\ probing = NoPid
      BY <1>2, <2>1 DEF Shutdown, ProbeInv
    <3>2. oldWorkers[w] # 0 \/ w = p
      BY <3>1, NoPidAssumption DEF NoWorkerLost, Tracked, Entries
    <3>3. w = p => generation # 0
      BY <2>1, <3>1, NoPidAssumption DEF Shutdown, CurrentInv, BooksInv
    <3>4. QED
      BY <2>1, <3>2, <3>3, NoPidAssumption DEF Shutdown
  <2>2. CASE WaitTimeout
    BY <1>2, <2>2 DEF WaitTimeout, trackVars
  <2>3. ASSUME NEW v \in Pids, WaitExit(v) PROVE oldWorkers'[w] # 0
    BY <1>2, <2>3 DEF WaitExit, Bury
  <2>4. ASSUME NEW v \in Pids, Waiter(v) PROVE oldWorkers'[w] # 0
    BY <1>2, <2>4 DEF Waiter, Reap, WaiterAbandons, Bury, trackVars
  <2>5. ASSUME NEW v \in Pids, WorkerExits(v) PROVE oldWorkers'[w] # 0
    BY <1>2, <2>5 DEF WorkerExits, Running, trackVars
  <2>6. CASE UNCHANGED <<pc, trackVars, procVars>>
    BY <1>2, <2>6 DEF trackVars, procVars
  <2>7. QED
    BY <1>2, <2>1, <2>2, <2>3, <2>4, <2>5, <2>6, ShutdownSteps
<1>3. ASSUME pc' = "reap", NEW w \in Pids, oldWorkers'[w] # 0, Running(w)'
      PROVE  "KILL" \in signals'[w]
  <2> USE DEF TypeOK, TypeLoop, TypeProc, ShutdownInv, Running, Entries
  <2>1. CASE WaitTimeout
    BY <1>3, <2>1 DEF WaitTimeout, Signal, trackVars
  <2>2. ASSUME NEW v \in Pids, WaitExit(v) PROVE "KILL" \in signals'[w]
    BY <1>3, <2>2 DEF WaitExit, Bury
  <2>3. ASSUME NEW v \in Pids, Waiter(v) PROVE "KILL" \in signals'[w]
    BY <1>3, <2>3 DEF Waiter, Reap, WaiterAbandons, Bury, trackVars
  <2>4. ASSUME NEW v \in Pids, WorkerExits(v) PROVE "KILL" \in signals'[w]
    BY <1>3, <2>4 DEF WorkerExits, trackVars
  <2>5. CASE UNCHANGED <<pc, trackVars, procVars>>
    BY <1>3, <2>5 DEF trackVars, procVars
  <2>6. ~Shutdown
    BY <1>3 DEF Shutdown
  <2>7. QED
    BY <1>3, <2>1, <2>2, <2>3, <2>4, <2>5, <2>6, ShutdownSteps
<1>4. stateDone' => pc' \in Released
  <2> USE DEF ShutdownInv, Released, heldVars
  <2>1. CASE SetupStep \/ Top \/ KillOld \/ ReleaseStep \/ RunReturn
    BY <2>1 DEF SetupStep, Validate, Acquire, Bind, Launch, Top, KillOld,
         ReleaseStep, ReleasePIDFile, RemoveStatus, CloseListeners, Finish,
         RunReturn
  <2>2. CASE StartStep
    BY <2>2 DEF StartStep, StartCancelled, StartFails, StartTransient, Retry,
         RetryCancelled, Spawn, ProbePasses, ProbeCancelled, ProbeFails,
         StartReturnsError, StartReturnsWorker
  <2>3. CASE SelectStep
    BY <2>3 DEF SelectStep, RecvCurrentExit, RecvOldExit, CtxDone, RecvHangup,
         RecvTimer
  <2>4. CASE ShutdownStep
    BY <2>4 DEF ShutdownStep, Shutdown, WaitExit, WaitTimeout, ShutdownReturns
  <2>5. CASE Environment \/ Exited \/ UNCHANGED vars
    BY <2>5 DEF Environment, WorkerExits, Hangup, Cancel, TimerFires, Exited,
         vars
  <2>6. ASSUME NEW w \in Pids, Waiter(w)
        PROVE  pc' = pc /\ stateDone' = stateDone
    BY <2>6 DEF Waiter, Reap, WaiterAbandons
  <2>7. QED
    BY <2>1, <2>2, <2>3, <2>4, <2>5, <2>6 DEF Next, LoopStep
<1>5. QED
  BY <1>1, <1>2, <1>3, <1>4 DEF ShutdownInv

(* Release follows a KILL to every worker still running. *)
LEMMA KilledBeforeReleaseStep ==
  ASSUME TypeOK, KilledBeforeRelease, NoWorkerLost, EarlyInv, ProbeInv,
         CurrentInv, ShutdownInv, [Next]_vars
  PROVE  KilledBeforeRelease'
<1> SUFFICES ASSUME pc' \in Released, NEW w \in Pids, Running(w)'
             PROVE  "KILL" \in signals'[w]
  BY DEF KilledBeforeRelease
<1> DEFINE Empty == \A v \in Pids : v # probing => proc[v] = "free"
<1>1. ASSUME phase \in {"setup", "initial"}, pc \in InSetup \cup Starting
      PROVE  Empty
  BY <1>1, NoPidAssumption
     DEF NoWorkerLost, Tracked, EarlyInv, CurrentInv, Entries
<1> USE DEF TypeOK, TypeLoop, TypeProc, Running
<1>2. CASE SetupStep
  <2>1. Empty /\ probing = NoPid
    BY <1>1, <1>2 DEF SetupStep, Validate, Acquire, Bind, Launch, InSetup,
         EarlyInv, ProbeInv
  <2>2. proc' = proc
    BY <1>2 DEF SetupStep, Validate, Acquire, Bind, Launch, procVars
  <2>3. QED
    BY <2>1, <2>2, NoPidAssumption
<1>3. CASE StartCancelled \/ StartFails \/ RetryCancelled
  <2>1. phase = "initial" /\ pc \in {"start", "retry"}
    BY <1>3 DEF StartCancelled, StartFails, RetryCancelled, StartReturnsError,
         Released
  <2>2. Empty /\ probing = NoPid
    BY <1>1, <2>1 DEF Starting, ProbeInv
  <2>3. proc' = proc
    BY <1>3 DEF StartCancelled, StartFails, RetryCancelled, procVars
  <2>4. QED
    BY <2>2, <2>3, NoPidAssumption
<1>4. CASE ProbeFails
  <2>1. Empty
    BY <1>1, <1>4 DEF ProbeFails, StartReturnsError, Starting, Released
  <2>2. proc' = [proc EXCEPT ![probing] = "free"]
    BY <1>4 DEF ProbeFails, Bury
  <2>3. QED
    BY <2>1, <2>2
<1>5. ~StartTransient /\ ~Retry /\ ~ProbePasses /\ ~ProbeCancelled
        /\ \A v \in Pids : ~Spawn(v)
  BY DEF StartTransient, Retry, ProbePasses, ProbeCancelled, Spawn,
         StartReturnsWorker, Released
<1>6. ~Top /\ ~SelectStep /\ ~KillOld
  BY DEF Top, SelectStep, RecvCurrentExit, RecvOldExit, CtxDone, RecvHangup,
         RecvTimer, BeginRestart, ReloadAndStart, KillOld, Released
<1>7. ~Shutdown /\ ~WaitTimeout /\ \A v \in Pids : ~WaitExit(v)
  BY DEF Shutdown, WaitTimeout, WaitExit, Released
<1>8. CASE ShutdownReturns
  BY <1>8 DEF ShutdownReturns, WaitOver, ShutdownInv, Entries, procVars
<1>9. CASE pc' = pc /\ proc' = proc /\ signals' = signals
  BY <1>9 DEF KilledBeforeRelease
<1>10. CASE ReleaseStep
  BY <1>10 DEF ReleaseStep, ReleasePIDFile, RemoveStatus, CloseListeners,
         Finish, Released, procVars, KilledBeforeRelease
<1>11. ASSUME NEW v \in Pids, Waiter(v) PROVE "KILL" \in signals'[w]
  BY <1>11 DEF Waiter, Reap, WaiterAbandons, Bury, KilledBeforeRelease
<1>12. ASSUME NEW v \in Pids, WorkerExits(v) PROVE "KILL" \in signals'[w]
  BY <1>12 DEF WorkerExits, KilledBeforeRelease
<1>13. RunReturn \/ Hangup \/ Cancel \/ TimerFires \/ Exited \/ UNCHANGED vars
         => pc' = pc /\ proc' = proc /\ signals' = signals
  BY DEF RunReturn, Hangup, Cancel, TimerFires, Exited, vars, procVars
<1>14. QED
  BY <1>2, <1>3, <1>4, <1>5, <1>6, <1>7, <1>8, <1>9, <1>10, <1>11, <1>12,
     <1>13
     DEF Next, LoopStep, StartStep, ShutdownStep, Environment

(* Every step keeps the number of processes at two. *)
LEMMA TwoInvStep ==
  ASSUME TypeOK, TwoInv, NoWorkerLost, OneDraining, ProbeInv, CurrentInv,
         [Next]_vars
  PROVE  TwoInv'
<1> DEFINE NoNew == \A v \in Pids : proc[v] = "free" => proc'[v] = "free"
<1>1. NoNew => TwoInv'
  BY DEF TwoInv
<1>2. ASSUME NEW w \in Pids, Spawn(w) PROVE TwoInv'
  <2>1. p = NoPid /\ probing = NoPid /\ pc = "start"
    BY <1>2 DEF Spawn, CurrentInv, ProbeInv, Starting
  <2>2. \A v \in Pids : proc[v] # "free" => v \in Entries(oldWorkers)
    BY <2>1, NoPidAssumption DEF NoWorkerLost, Tracked
  <2>3. \A u, v \in Pids : proc[u] # "free" /\ proc[v] # "free" => u = v
    BY <2>1, <2>2 DEF OneDraining, Starting
  <2>4. PICK a \in Pids \cup {NoPid} : \A v \in Pids : proc[v] # "free" => v = a
    BY <2>3
  <2>5. \A v \in Pids : proc'[v] # "free" => v \in {a, w}
    BY <1>2, <2>4 DEF Spawn, TypeOK, TypeProc
  <2>6. QED
    BY <2>5 DEF TwoInv
<1> USE DEF TypeOK, TypeProc, procVars
<1>3. SetupStep \/ RunReturn => NoNew
  BY DEF SetupStep, Validate, Acquire, Bind, Launch, RunReturn
<1>4. StartCancelled \/ StartFails \/ StartTransient \/ Retry \/ RetryCancelled
        => NoNew
  BY DEF StartCancelled, StartFails, StartTransient, Retry, RetryCancelled
<1>5. ProbePasses \/ ProbeCancelled \/ ProbeFails => NoNew
  BY DEF ProbePasses, ProbeCancelled, ProbeFails, Bury
<1>6. Top \/ KillOld \/ SelectStep => NoNew
  BY DEF Top, KillOld, SelectStep, RecvCurrentExit, RecvOldExit, CtxDone,
         RecvHangup, RecvTimer, Bury
<1>7. ShutdownStep => NoNew
  BY DEF ShutdownStep, Shutdown, WaitExit, WaitTimeout, ShutdownReturns, Bury
<1>8. ReleaseStep => NoNew
  BY DEF ReleaseStep, ReleasePIDFile, RemoveStatus, CloseListeners, Finish
<1>9. ASSUME NEW w \in Pids, Waiter(w) PROVE NoNew
  BY <1>9 DEF Waiter, Reap, WaiterAbandons, Bury
<1>10. Environment \/ Exited \/ UNCHANGED vars => NoNew
  BY DEF Environment, WorkerExits, Running, Hangup, Cancel, TimerFires, Exited,
         vars
<1>11. QED
  BY <1>1, <1>2, <1>3, <1>4, <1>5, <1>6, <1>7, <1>8, <1>9, <1>10
     DEF Next, LoopStep, StartStep

(* Every step keeps what is held at each point of run and loop. *)
LEMMA ResourceInvStep ==
  ASSUME TypeOK, EarlyInv, ResourceInv, [Next]_vars
  PROVE  ResourceInv'
<1> DEFINE Frame == UNCHANGED <<cfg, pc, phase, pidFile, listeners, status,
                                err, startup>>
<1>1. Frame /\ timer' \in {timer, "fired"} => ResourceInv'
  BY DEF ResourceInv
<1> USE DEF ResourceInv, Released, InSetup, Starting, InLoop, flagVars,
        heldVars, fileVars, ctlVars, runVars
<1>2. CASE Validate
  BY <1>2 DEF Validate, EarlyInv
<1>3. CASE Acquire
  BY <1>3 DEF Acquire, EarlyInv
<1>4. CASE Bind
  BY <1>4 DEF Bind, EarlyInv
<1>5. CASE Launch
  BY <1>5 DEF Launch, EarlyInv
<1>6. ASSUME NEW e \in {"closed", "failure"}, StartReturnsError(e),
             pc \in Starting
      PROVE  ResourceInv'
  BY <1>6 DEF StartReturnsError, EarlyInv
<1>7. CASE StartCancelled \/ StartFails \/ RetryCancelled
  <2>1. pc \in Starting /\ \E e \in {"closed", "failure"} : StartReturnsError(e)
    BY <1>7 DEF StartCancelled, StartFails, RetryCancelled
  <2> HIDE DEF ResourceInv
  <2>2. QED
    BY <1>6, <2>1
<1>8. CASE StartTransient \/ Retry
  BY <1>8 DEF StartTransient, Retry
<1>9. ASSUME NEW w \in Pids, Spawn(w) PROVE ResourceInv'
  BY <1>9 DEF Spawn
<1>10. CASE ProbePasses \/ ProbeCancelled
  <2>1. pc = "probe" /\ StartReturnsWorker
    BY <1>10 DEF ProbePasses, ProbeCancelled
  <2>2. QED
    BY <2>1 DEF StartReturnsWorker, ResetTimer, EarlyInv
<1>11. CASE ProbeFails
  <2>1. CASE StartReturnsError("failure")
    BY <1>6, <1>11, <2>1 DEF ProbeFails
  <2>2. CASE ~StartReturnsError("failure")
    BY <1>11, <2>2 DEF ProbeFails
  <2>3. QED
    BY <2>1, <2>2
<1>12. CASE Top
  BY <1>12 DEF Top, WriteStatus
<1>13. CASE KillOld
  BY <1>13 DEF KillOld
<1>14. ASSUME pc = "select", phase # "setup",
              UNCHANGED <<cfg, pidFile, listeners, status, startup>>,
              \/ /\ pc' = "top" /\ phase' = phase /\ err' = err
                 /\ cfg.autoRestart => timer' \in {"armed", "fired"}
              \/ \E sig : ReloadAndStart("restart", sig)
              \/ \E sig : ReloadAndStart("respawn", sig)
       PROVE  ResourceInv'
  BY <1>14 DEF ReloadAndStart
<1>15. ASSUME NEW w \in Pids, RecvCurrentExit(w) \/ RecvOldExit(w)
       PROVE  ResourceInv'
  <2> HIDE DEF ResourceInv
  <2>1. pc = "select" /\ UNCHANGED <<cfg, pidFile, listeners, status, startup,
                                     timer>>
    BY <1>15 DEF RecvCurrentExit, RecvOldExit
  <2>2. phase # "setup" /\ (cfg.autoRestart => timer \in {"armed", "fired"})
    BY <2>1 DEF ResourceInv, EarlyInv
  <2>3. \/ pc' = "top" /\ phase' = phase /\ err' = err
        \/ \E sig : ReloadAndStart("restart", sig)
        \/ \E sig : ReloadAndStart("respawn", sig)
    BY <1>15 DEF RecvCurrentExit, RecvOldExit, BeginRestart
  <2>4. QED
    BY <1>14, <2>1, <2>2, <2>3
<1>16. CASE RecvHangup \/ RecvTimer
  <2> HIDE DEF ResourceInv
  <2>1. pc = "select" /\ UNCHANGED <<cfg, pidFile, listeners, status, startup>>
    BY <1>16 DEF RecvHangup, RecvTimer
  <2>2. phase # "setup" /\ (cfg.autoRestart => timer \in {"armed", "fired"})
    BY <2>1 DEF ResourceInv, EarlyInv
  <2>3. \/ /\ pc' = "top" /\ phase' = phase /\ err' = err
           /\ cfg.autoRestart => timer' \in {"armed", "fired"}
        \/ \E sig : ReloadAndStart("restart", sig)
    BY <1>16, <2>2 DEF RecvHangup, RecvTimer, BeginRestart, ResetTimer
  <2>4. QED
    BY <1>14, <2>1, <2>2, <2>3
<1>17. CASE CtxDone
  BY <1>17 DEF CtxDone, EarlyInv
<1>18. CASE Shutdown \/ WaitTimeout
  BY <1>18 DEF Shutdown, WaitTimeout
<1>19. CASE ShutdownReturns
  BY <1>19 DEF ShutdownReturns
<1>20. ASSUME NEW w \in Pids, WaitExit(w) PROVE ResourceInv'
  BY <1>20 DEF WaitExit, WriteStatus
<1>21. CASE ReleasePIDFile \/ RemoveStatus
  <2>1. CASE ReleasePIDFile
    BY <2>1 DEF ReleasePIDFile
  <2>2. CASE RemoveStatus
    BY <2>2 DEF RemoveStatus
  <2> HIDE DEF ResourceInv
  <2>3. QED
    BY <1>21, <2>1, <2>2
<1>22. CASE CloseListeners \/ Finish
  <2>1. CASE CloseListeners
    BY <2>1 DEF CloseListeners
  <2>2. CASE Finish
    BY <2>2 DEF Finish
  <2> HIDE DEF ResourceInv
  <2>3. QED
    BY <1>22, <2>1, <2>2
<1> HIDE DEF ResourceInv
<1>23. ASSUME NEW w \in Pids, Waiter(w) \/ WorkerExits(w) PROVE ResourceInv'
  BY <1>1, <1>23 DEF Waiter, Reap, WaiterAbandons, WorkerExits
<1>24. CASE RunReturn \/ Hangup \/ Cancel \/ TimerFires \/ Exited
            \/ UNCHANGED vars
  BY <1>1, <1>24 DEF RunReturn, Hangup, Cancel, TimerFires, Exited, vars
<1>25. QED
  BY <1>2, <1>3, <1>4, <1>5, <1>7, <1>8, <1>9, <1>10, <1>11, <1>12, <1>13,
     <1>15, <1>16, <1>17, <1>18, <1>19, <1>20, <1>21, <1>22, <1>23, <1>24
     DEF Next, LoopStep, SetupStep, StartStep, SelectStep, ShutdownStep,
         ReleaseStep, Environment

(* Every step keeps the results of Run in agreement with the run. *)
LEMMA RunResultStep ==
  ASSUME RunResult, ResourceInv, [Next]_vars
  PROVE  RunResult'
<1> DEFINE Frame == /\ UNCHANGED <<cfg, startup, ret>>
                    /\ pc = "exited" => UNCHANGED <<pc, pidFile, listeners>>
                    /\ ctxDone => ctxDone'
                    /\ err' = "closed" => err = "closed" \/ ctxDone
<1>1. Frame => RunResult'
  BY DEF RunResult
<1> USE DEF heldVars, ctlVars, runVars
<1>2. CASE Validate \/ Launch
  <2>1. ret # "error" /\ ctxDone' = ctxDone /\ err' = err /\ cfg' = cfg
    BY <1>2 DEF Validate, Launch, RunResult
  <2>2. CASE Validate
    <3>1. pc = "validate" /\ UNCHANGED <<pidFile, listeners, startup>>
      BY <2>2 DEF Validate
    <3>2. ~pidFile /\ listeners = 0
      BY <3>1 DEF ResourceInv
    <3>3. ret' = "error" => pc' = "exited"
      BY <2>1, <2>2 DEF Validate
    <3>4. ret' = "controller" => ret = "controller"
      BY <2>2 DEF Validate
    <3>5. QED
      BY <2>1, <3>1, <3>2, <3>3, <3>4 DEF RunResult
  <2>3. CASE Launch
    BY <2>1, <2>3 DEF Launch, RunResult
  <2>4. QED
    BY <1>2, <2>2, <2>3
<1>3. CASE Acquire \/ Bind
  BY <1>1, <1>3 DEF Acquire, Bind
<1>4. CASE RunReturn
  BY <1>4 DEF RunReturn, RunResult, ResourceInv
<1>5. ASSUME NEW e, StartReturnsError(e), e = "closed" => ctxDone,
             pc \in Starting
      PROVE  RunResult'
  <2>1. phase = "initial" => startup = "nothing"
    BY <1>5 DEF ResourceInv
  <2>2. ret' = ret /\ ret # "error" /\ cfg' = cfg /\ ctxDone' = ctxDone
    BY <1>5 DEF StartReturnsError, RunResult, Starting
  <2>3. startup' = startup \/ startup = "nothing"
    BY <1>5, <2>1 DEF StartReturnsError
  <2>4. QED
    BY <1>5, <2>2, <2>3 DEF StartReturnsError, RunResult
<1>6. CASE StartCancelled \/ StartFails \/ RetryCancelled
  BY <1>5, <1>6 DEF StartCancelled, StartFails, RetryCancelled, Starting
<1>7. CASE StartTransient \/ Retry \/ \E w \in Pids : Spawn(w)
  BY <1>1, <1>7 DEF StartTransient, Retry, Spawn
<1>8. CASE ProbePasses \/ ProbeCancelled
  <2>1. pc = "probe" /\ StartReturnsWorker
    BY <1>8 DEF ProbePasses, ProbeCancelled
  <2>2. startup' = startup \/ startup = "nothing"
    BY <2>1 DEF StartReturnsWorker, ResourceInv, Starting
  <2>3. QED
    BY <2>1, <2>2 DEF StartReturnsWorker, RunResult
<1>9. CASE ProbeFails
  <2>1. CASE StartReturnsError("failure")
    BY <1>5, <1>9, <2>1 DEF ProbeFails, Starting
  <2>2. CASE ~StartReturnsError("failure")
    BY <1>1, <1>9, <2>2 DEF ProbeFails
  <2>3. QED
    BY <2>1, <2>2
<1>10. CASE Top \/ KillOld \/ CtxDone
  BY <1>1, <1>10 DEF Top, KillOld, CtxDone
<1>11. CASE SelectStep
  BY <1>1, <1>11 DEF SelectStep, RecvCurrentExit, RecvOldExit, CtxDone,
         RecvHangup, RecvTimer, BeginRestart, ReloadAndStart
<1>12. CASE ShutdownStep
  BY <1>1, <1>12 DEF ShutdownStep, Shutdown, WaitExit, WaitTimeout,
         ShutdownReturns
<1>13. CASE ReleasePIDFile \/ RemoveStatus \/ CloseListeners
  BY <1>1, <1>13 DEF ReleasePIDFile, RemoveStatus, CloseListeners
<1>14. CASE Finish
  BY <1>14 DEF Finish, RunResult, ResourceInv
<1>15. ASSUME NEW w \in Pids, Waiter(w) \/ WorkerExits(w) PROVE RunResult'
  BY <1>1, <1>15 DEF Waiter, Reap, WaiterAbandons, WorkerExits
<1>16. CASE Hangup \/ Cancel \/ TimerFires \/ Exited \/ UNCHANGED vars
  <2>1. CASE Hangup
    BY <1>1, <2>1 DEF Hangup
  <2>2. CASE Cancel
    BY <1>1, <2>2 DEF Cancel
  <2>3. CASE TimerFires
    BY <1>1, <2>3 DEF TimerFires
  <2>4. CASE Exited \/ UNCHANGED vars
    BY <1>1, <2>4 DEF Exited, vars
  <2>5. QED
    BY <1>16, <2>1, <2>2, <2>3, <2>4
<1>17. QED
  BY <1>2, <1>3, <1>4, <1>6, <1>7, <1>8, <1>9, <1>10, <1>11, <1>12, <1>13,
     <1>14, <1>15, <1>16
     DEF Next, LoopStep, SetupStep, StartStep, ReleaseStep, Environment

(* WriteStatus at the head of loop records the workers exactly, and nothing
   that loop waits for in select changes who they are. *)
LEMMA StatusExactStep ==
  ASSUME TypeOK, ProbeInv, CurrentInv, BooksInv, ShutdownInv, StatusExact,
         [Next]_vars
  PROVE  StatusExact'
<1>1. CASE Top
  <2> SUFFICES ASSUME cfg.statusFile, ~statusStale'
               PROVE  {<<g, status'[g]>> : g \in DOMAIN status'}
                        = {<<genOf[w], w>> : w \in Tracked}
    BY <1>1 DEF Top, StatusExact, Tracked, Entries, trackVars, procVars
  <2> DEFINE m == StatusMap(oldWorkers, p, generation)
  <2>1. status' = m
    BY <1>1 DEF Top, WriteStatus
  <2>2. p \in Pids /\ probing = NoPid /\ oldWorkers[p] = 0
          /\ genOf[p] = generation /\ genOf[p] # 0
    BY <1>1 DEF Top, TypeOK, TypeLoop, ProbeInv, CurrentInv, BooksInv, InLoop
  <2>3. Tracked = Entries(oldWorkers) \cup {p}
    BY <2>2, NoPidAssumption DEF Tracked
  <2>4. ASSUME NEW w \in Entries(oldWorkers)
        PROVE  /\ w \in Pids /\ oldWorkers[w] = genOf[w]
               /\ genOf[w] # 0 /\ genOf[w] # generation
    BY <1>1, <2>2 DEF Top, Entries, BooksInv, Released
  <2>5. DOMAIN m = {genOf[w] : w \in Tracked}
    BY <2>2, <2>3, <2>4, NoPidAssumption DEF StatusMap
  <2>6. ASSUME NEW w \in Tracked PROVE m[genOf[w]] = w
    <3>1. CASE w = p
      BY <2>2, <2>5, <3>1, NoPidAssumption DEF StatusMap
    <3>2. CASE w # p
      <4>1. w \in Entries(oldWorkers)
        BY <2>3, <3>2
      <4>2. \A v \in Entries(oldWorkers) : oldWorkers[v] = genOf[w] <=> v = w
        BY <2>4, <4>1 DEF BooksInv
      <4>3. m[genOf[w]] =
              CHOOSE v \in Entries(oldWorkers) : oldWorkers[v] = genOf[w]
        BY <2>2, <2>4, <4>1, NoPidAssumption DEF StatusMap
      <4>4. QED
        BY <4>1, <4>2, <4>3
    <3>3. QED
      BY <3>1, <3>2
  <2> HIDE DEF m
  <2>7. QED
    BY <2>1, <2>5, <2>6
<1>2. CASE ~Top
  <2> DEFINE Same == UNCHANGED <<pc, cfg, status, statusStale, genOf,
         trackVars>>
  <2> USE DEF Released, InSetup, Starting, InLoop, heldVars, fileVars,
         trackVars,
              procVars
  <2>1. SetupStep \/ StartStep => pc' # "select"
    BY DEF SetupStep, Validate, Acquire, Bind, Launch, StartStep,
           StartCancelled, StartFails, StartTransient, Retry, RetryCancelled,
           Spawn, ProbePasses, ProbeCancelled, ProbeFails, StartReturnsError,
           StartReturnsWorker
  <2>2. SelectStep \/ KillOld => pc' # "select"
    BY DEF SelectStep, RecvCurrentExit, RecvOldExit, CtxDone, RecvHangup,
           RecvTimer, KillOld, BeginRestart, ReloadAndStart
  <2>3. ShutdownStep \/ ReleaseStep => pc' # "select"
    BY DEF ShutdownStep, Shutdown, WaitExit, WaitTimeout, ShutdownReturns,
           ReleaseStep, ReleasePIDFile, RemoveStatus, CloseListeners, Finish
  <2>4. RunReturn \/ Environment \/ Exited \/ UNCHANGED vars => Same
    BY DEF RunReturn, Environment, WorkerExits, Hangup, Cancel, TimerFires,
           Exited, vars
  <2>5. ASSUME NEW w \in Pids, Waiter(w) PROVE Same \/ pc' # "select"
    BY <2>5 DEF Waiter, Reap, WaiterAbandons, ShutdownInv
  <2>6. ASSUME Same PROVE StatusExact'
    <3>1. Tracked' = Tracked
      BY <2>6 DEF Tracked, Entries
    <3>2. {<<genOf'[w], w>> : w \in Tracked'} = {<<genOf[w],
         w>> : w \in Tracked}
      BY <2>6, <3>1
    <3>3. {<<g, status'[g]>> : g \in DOMAIN status'}
            = {<<g, status[g]>> : g \in DOMAIN status}
      BY <2>6
    <3>4. QED
      BY <2>6, <3>2, <3>3 DEF StatusExact
  <2>7. pc' # "select" => StatusExact'
    BY DEF StatusExact
  <2>8. QED
    BY <1>2, <2>1, <2>2, <2>3, <2>4, <2>5, <2>6, <2>7 DEF Next, LoopStep
<1>3. QED
  BY <1>1, <1>2

-----------------------------------------------------------------------------
(* The invariant and the theorems.                                          *)

(* Before run does anything there is no worker, no file and no listener. *)
LEMMA InitSafetyInv == Init => SafetyInv
<1> SUFFICES ASSUME Init PROVE SafetyInv
  OBVIOUS
<1> USE NoPidAssumption, BoundsAssumption
    DEF Init, Released, InSetup, Starting, InLoop, Entries, Running
<1>1. TypeOK
  <2>1. TypeLoop /\ TypeProc
    BY DEF TypeLoop, TypeProc, ProcStates
  <2>2. TypeRun
    <3>1. listeners \in 0..NumListeners /\ events \in 0..MaxEvents
      OBVIOUS
    <3>2. /\ pidFile \in BOOLEAN /\ stateDone \in BOOLEAN
          /\ statusStale \in BOOLEAN /\ ctxDone \in BOOLEAN
          /\ hangup \in BOOLEAN
      OBVIOUS
    <3>3. QED
      BY <3>1, <3>2 DEF TypeRun
  <2>3. QED
    BY <2>1, <2>2 DEF TypeOK
<1>2. NoWorkerLost /\ OneDraining /\ PendingHangupKept /\ TwoInv
  <2>1. NoWorkerLost /\ OneDraining
    BY DEF NoWorkerLost, OneDraining
  <2>2. PendingHangupKept
    BY DEF PendingHangupKept
  <2>3. TwoInv
    BY DEF TwoInv
  <2>4. QED
    BY <2>1, <2>2, <2>3
<1>3. ProbeInv /\ CurrentInv /\ BooksInv /\ EarlyInv
  <2>1. ProbeInv
    BY DEF ProbeInv
  <2>2. CurrentInv
    BY DEF CurrentInv
  <2>3. BooksInv
    BY DEF BooksInv
  <2>4. EarlyInv
    BY DEF EarlyInv
  <2>5. QED
    BY <2>1, <2>2, <2>3, <2>4
<1>4. ShutdownSignalled /\ ShutdownInv /\ KilledBeforeRelease
  BY DEF ShutdownSignalled, ShutdownInv, KilledBeforeRelease
<1>5. ResourceInv /\ RunResult /\ StatusExact
  BY DEF ResourceInv, RunResult, StatusExact
<1>6. QED
  BY <1>1, <1>2, <1>3, <1>4, <1>5 DEF SafetyInv

(* The invariant is inductive. *)
LEMMA NextSafetyInv == SafetyInv /\ [Next]_vars => SafetyInv'
<1> SUFFICES ASSUME SafetyInv, [Next]_vars PROVE SafetyInv'
  OBVIOUS
<1> USE DEF SafetyInv
<1>1. TypeOK'
  BY TypeLoopStep, TypeRunStep, TypeProcStep DEF TypeOK
<1>2. NoWorkerLost' /\ OneDraining' /\ PendingHangupKept' /\ TwoInv'
  BY <1>1, NoWorkerLostStep, OneDrainingStep, PendingHangupKeptStep, TwoInvStep
<1>3. ProbeInv' /\ CurrentInv' /\ BooksInv' /\ EarlyInv'
  BY <1>1, ProbeInvStep, CurrentInvStep, BooksInvStep, EarlyInvStep
<1>4. ShutdownSignalled' /\ ShutdownInv' /\ KilledBeforeRelease'
  BY <1>1, ShutdownSignalledStep, ShutdownInvStep, KilledBeforeReleaseStep
<1>5. ResourceInv' /\ RunResult' /\ StatusExact'
  BY <1>1, ResourceInvStep, RunResultStep, StatusExactStep
<1>6. QED
  BY <1>1, <1>2, <1>3, <1>4, <1>5

(* The inductive invariant holds of every state of a run: the one temporal   *)
(* argument, which the theorems below share.                                *)
LEMMA AlwaysSafetyInv == Spec => []SafetyInv
  BY InitSafetyInv, NextSafetyInv, PTL DEF Spec

(* The variables of run and loop keep their types; no listener is opened    *)
(* that was not asked for.                                                  *)
THEOREM TypeCorrect == Spec => []TypeOK
<1>1. SafetyInv => TypeOK
  BY DEF SafetyInv
<1>2. QED
  BY <1>1, AlwaysSafetyInv, PTL

(* loop and startWorker never lose track of a process they started.         *)
THEOREM WorkersAccountedFor == Spec => []NoWorkerLost
<1>1. SafetyInv => NoWorkerLost
  BY DEF SafetyInv
<1>2. QED
  BY <1>1, AlwaysSafetyInv, PTL

(* No interleaving of restarts, deaths and cancellation runs three workers. *)
THEOREM TwoWorkers == Spec => []AtMostTwoWorkers
<1>1. SafetyInv => AtMostTwoWorkers
  <2> SUFFICES ASSUME SafetyInv PROVE AtMostTwoWorkers
    OBVIOUS
  <2>1. PICK a, b \in Pids \cup {NoPid} :
          \A w \in Pids : proc[w] # "free" => w \in {a, b}
    BY DEF SafetyInv, TwoInv
  <2>2. {w \in Pids : Running(w)} \in SUBSET {a, b}
    BY <2>1 DEF Running
  <2>3. IsFiniteSet({a}) /\ Cardinality({a}) = 1 /\ {a} \cup {b} = {a, b}
    BY FS_Singleton
  <2>4. IsFiniteSet({a, b}) /\ Cardinality({a, b}) \in {1, 2}
    BY <2>3, FS_AddElement
  <2>5. Cardinality({w \in Pids : Running(w)}) <= Cardinality({a, b})
    BY <2>2, <2>4, FS_Subset
  <2>6. Cardinality({w \in Pids : Running(w)}) \in Nat
    BY <2>2, <2>4, FS_Subset, FS_CardinalityType
  <2>7. QED
    BY <2>4, <2>5, <2>6 DEF AtMostTwoWorkers
<1>2. QED
  BY <1>1, AlwaysSafetyInv, PTL

(* A restart waits for the old worker of the one before.                    *)
THEOREM RestartsInTurn == Spec => []OneDraining
<1>1. SafetyInv => OneDraining
  BY DEF SafetyInv
<1>2. QED
  BY <1>1, AlwaysSafetyInv, PTL

(* A hangup that must wait for an old worker is not forgotten.              *)
THEOREM HangupsAreKept == Spec => []PendingHangupKept
<1>1. SafetyInv => PendingHangupKept
  BY DEF SafetyInv
<1>2. QED
  BY <1>1, AlwaysSafetyInv, PTL

(* The status file lists exactly the workers, each under its generation.    *)
THEOREM StatusIsExact == Spec => []StatusExact
<1>1. SafetyInv => StatusExact
  BY DEF SafetyInv
<1>2. QED
  BY <1>1, AlwaysSafetyInv, PTL

(* shutdownWorkers asks every worker to terminate.                          *)
THEOREM ShutdownAsksAll == Spec => []ShutdownSignalled
<1>1. SafetyInv => ShutdownSignalled
  BY DEF SafetyInv
<1>2. QED
  BY <1>1, AlwaysSafetyInv, PTL

(* shutdownWorkers kills the workers that outlive their grace period before *)
(* anything is released.                                                    *)
THEOREM ShutdownEscalates == Spec => []KilledBeforeRelease
<1>1. SafetyInv => KilledBeforeRelease
  BY DEF SafetyInv
<1>2. QED
  BY <1>1, AlwaysSafetyInv, PTL

(* Done is closed with everything released.                                 *)
THEOREM ExitReleases == Spec => []ExitReleasesAll
<1>1. SafetyInv => ExitReleasesAll
  BY DEF SafetyInv, ResourceInv, ExitReleasesAll, Starting, InLoop
<1>2. QED
  BY <1>1, AlwaysSafetyInv, PTL

(* Run reports what happened.                                               *)
THEOREM RunReports == Spec => []RunResult
<1>1. SafetyInv => RunResult
  BY DEF SafetyInv
<1>2. QED
  BY <1>1, AlwaysSafetyInv, PTL

(* The auto-restart timer is never spent while loop waits.                  *)
THEOREM TimerIsArmed == Spec => []TimerKeepsRunning
<1>1. SafetyInv => TimerKeepsRunning
  BY DEF SafetyInv, ResourceInv, TimerKeepsRunning, Starting, InLoop
<1>2. QED
  BY <1>1, AlwaysSafetyInv, PTL

(* setErr is called at most once.                                           *)
THEOREM ErrIsFinal == Spec => ErrSetOnce
<1>1. SafetyInv /\ [Next]_vars => [err # "nil" => err' = err]_vars
  <2> SUFFICES ASSUME SafetyInv, Next, err # "nil" PROVE err' = err
    OBVIOUS
  <2>1. pc \notin Starting \cup InLoop
    BY DEF SafetyInv, ResourceInv
  <2> USE DEF Starting, InLoop, ctlVars
  <2>2. ~StartStep /\ ~SelectStep /\ ~Top /\ ~KillOld
    BY <2>1 DEF StartStep, StartCancelled, StartFails, StartTransient, Retry,
         RetryCancelled, Spawn, ProbePasses, ProbeCancelled, ProbeFails,
         SelectStep, RecvCurrentExit, RecvOldExit, CtxDone, RecvHangup,
         RecvTimer, Top, KillOld
  <2>3. SetupStep \/ ShutdownStep \/ ReleaseStep => err' = err
    BY DEF SetupStep, Validate, Acquire, Bind, Launch, ShutdownStep, Shutdown,
           WaitExit, WaitTimeout, ShutdownReturns, ReleaseStep, ReleasePIDFile,
           RemoveStatus, CloseListeners, Finish
  <2>4. RunReturn \/ Environment \/ Exited => err' = err
    BY DEF RunReturn, Environment, WorkerExits, Hangup, Cancel, TimerFires,
           Exited, vars
  <2>5. ASSUME NEW w \in Pids, Waiter(w) PROVE err' = err
    BY <2>5 DEF Waiter, Reap, WaiterAbandons
  <2>6. QED
    BY <2>2, <2>3, <2>4, <2>5 DEF Next, LoopStep
<1>2. QED
  BY <1>1, AlwaysSafetyInv, PTL DEF Spec, ErrSetOnce

(* A worker is hung up only by a restart that has put its successor, of a   *)
(* later generation, in place.                                              *)
THEOREM SuccessorIsFirst == Spec => SuccessorFirst
<1> DEFINE New(w) == "HUP" \in signals'[w] \ signals[w]
           Replaced(w) == /\ p \in Pids /\ p # w /\ genOf[p] > genOf[w]
                          /\ proc[p] = "starting" => ctxDone
<1>1. SafetyInv /\ [Next]_vars => [\A w \in Pids : New(w) => Replaced(w)]_vars
  <2> SUFFICES ASSUME SafetyInv, Next, NEW w \in Pids, New(w) PROVE Replaced(w)
    OBVIOUS
  <2>1. TypeOK /\ ShutdownInv
    BY DEF SafetyInv
  <2> USE <2>1 DEF TypeOK, TypeProc, procVars
  <2>2. ~SetupStep /\ ~ReleaseStep /\ ~Top
    BY DEF SetupStep, Validate, Acquire, Bind, Launch, ReleaseStep,
           ReleasePIDFile, RemoveStatus, CloseListeners, Finish, Top
  <2>3. ~StartStep
    <3>1. ~ProbeFails /\ \A v \in Pids : ~Spawn(v)
      BY DEF ProbeFails, Bury, Spawn
    <3>2. QED
      BY <3>1 DEF StartStep, StartCancelled, StartFails, StartTransient,
           Retry, RetryCancelled, ProbePasses, ProbeCancelled,
           StartReturnsWorker
  <2>4. ~SelectStep
    <3>1. \A v \in Pids : ~RecvCurrentExit(v) /\ ~RecvOldExit(v)
      BY DEF RecvCurrentExit, RecvOldExit, Bury
    <3>2. ~CtxDone /\ ~RecvHangup /\ ~RecvTimer
      BY DEF CtxDone, RecvHangup, RecvTimer
    <3>3. QED
      BY <3>1, <3>2 DEF SelectStep
  <2>5. ~ShutdownStep
    <3>1. ~Shutdown
      BY DEF Shutdown, Signal, ShutdownInv
    <3>2. ~WaitTimeout
      BY DEF WaitTimeout, Signal
    <3>3. \A v \in Pids : ~WaitExit(v)
      BY DEF WaitExit, Bury
    <3>4. ~ShutdownReturns
      BY DEF ShutdownReturns
    <3>5. QED
      BY <3>1, <3>2, <3>3, <3>4 DEF ShutdownStep
  <2>6. ~RunReturn /\ ~Environment /\ ~Exited
    BY DEF RunReturn, Environment, WorkerExits, Hangup, Cancel, TimerFires,
           Exited, vars
  <2>7. \A v \in Pids : ~Waiter(v)
    BY DEF Waiter, Reap, WaiterAbandons, Bury
  <2>8. KillOld
    BY <2>2, <2>3, <2>4, <2>5, <2>6, <2>7 DEF Next, LoopStep
  <2>9. pc = "kill" /\ w \in Entries(oldWorkers)
    BY <2>8 DEF KillOld, Signal
  <2>10. p \in Pids /\ genOf[p] = generation /\ oldWorkers[p] = 0
           /\ (proc[p] = "starting" => ctxDone)
    BY <2>9 DEF SafetyInv, TypeLoop, CurrentInv, InLoop
  <2>11. p # w /\ genOf[w] # 0 /\ genOf[w] # generation
           /\ genOf[w] <= generation
    BY <2>9, <2>10 DEF SafetyInv, BooksInv, Entries, Released
  <2>12. generation \in Nat /\ genOf[w] \in Nat
    BY DEF TypeLoop
  <2> HIDE <2>1 DEF TypeOK, TypeProc, procVars
  <2> HIDE DEF New
  <2>13. genOf[p] > genOf[w]
    <3> HIDE DEF Replaced
    <3> QED
      BY <2>10, <2>11, <2>12
  <2>14. QED
    BY <2>10, <2>11, <2>13
<1>2. QED
  BY <1>1, AlwaysSafetyInv, PTL DEF Spec, SuccessorFirst

=============================================================================
