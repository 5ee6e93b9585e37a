---------------------------- MODULE RestartProofs ----------------------------
(***************************************************************************)
(* What control.Restart promises its callers, that Supervisor, alone and   *)
(* under those callers, implements GracefulRestart, and that               *)
(* GracefulRestart is orderly, for every set of pids, of configurations    *)
(* and of callers and every bound.                                         *)
(***************************************************************************)
EXTENDS Restart, SupervisorRefinement, SupervisorProofs


-----------------------------------------------------------------------------
(* What a step of the supervisor does to the workers and the status file.   *)

\* The map m lists the workers of S, each under the generation ge gives it.
Records(m, S, ge) ==
  /\ \A w \in S : ge[w] \in DOMAIN m /\ m[ge[w]] = w
  /\ \A g \in DOMAIN m : \E w \in S : g = ge[w]

(* StatusMap: the map lists the workers it is given, each under its own     *)
(* generation, and no two of them collapse into one line.                   *)
LEMMA StatusMapLists ==
  ASSUME NEW old \in [Pids -> Nat], NEW current \in Pids \cup {NoPid},
         NEW gen \in Nat, NEW ge \in [Pids -> Nat],
         \A w \in Pids : old[w] # 0 => old[w] = ge[w],
         current # NoPid => old[current] = 0 /\ ge[current] = gen /\ gen # 0,
         \A v, w \in Pids : ge[w] # 0 /\ ge[v] = ge[w] => v = w
  PROVE  Records(StatusMap(old, current, gen),
               Entries(old) \cup ({current} \cap Pids), ge)
<1> DEFINE m == StatusMap(old, current, gen)
           listed == Entries(old) \cup ({current} \cap Pids)
<1>1. \A w \in Entries(old) : w \in Pids /\ old[w] = ge[w] /\ ge[w] # 0
  BY DEF Entries
<1>2. DOMAIN m = {old[w] : w \in Entries(old)}
                   \cup (IF current = NoPid THEN {} ELSE {gen})
  BY DEF StatusMap
<1>3. {old[w] : w \in Entries(old)} = {ge[w] : w \in Entries(old)}
  BY <1>1
<1>4. DOMAIN m = {ge[w] : w \in listed}
  <2>1. CASE current = NoPid
    BY <1>2, <1>3, <2>1, NoPidAssumption
  <2>2. CASE current # NoPid
    <3>1. current \in Pids /\ ge[current] = gen
      BY <2>2
    <3>2. listed = Entries(old) \cup {current}
      BY <3>1
    <3>3. {ge[w] : w \in listed} = {ge[w] : w \in Entries(old)} \cup {gen}
      BY <3>1, <3>2
    <3>4. QED
      BY <1>2, <1>3, <2>2, <3>3
  <2>3. QED
    BY <2>1, <2>2
<1>5. ASSUME NEW w \in listed PROVE m[ge[w]] = w
  <2>1. CASE current # NoPid /\ w = current
    BY <1>2, <2>1 DEF StatusMap
  <2>2. CASE current = NoPid \/ w # current
    <3>1. w \in Entries(old) /\ ge[w] \in DOMAIN m
      BY <1>4, <2>2, NoPidAssumption
    <3>2. \A v \in Entries(old) : old[v] = ge[w] <=> v = w
      BY <1>1, <3>1
    <3>3. current # NoPid => ge[w] # gen
      BY <1>1, <2>2, <3>1
    <3>4. m[ge[w]] = CHOOSE v \in Entries(old) : old[v] = ge[w]
      BY <1>2, <3>1, <3>3 DEF StatusMap
    <3>5. QED
      BY <3>1, <3>2, <3>4
  <2>3. QED
    BY <2>1, <2>2
<1> HIDE DEF m, listed
<1>6. QED
  BY <1>4, <1>5 DEF Records, m, listed

\* The workers, and the exits that have not been received.
Present == {w \in Pids : proc[w] # "free"}

(* loop and waitForWorkers write every worker there is to the status file,  *)
(* with no process under probe, or leave the file alone or remove it.       *)
LEMMA StatusStep ==
  ASSUME SafetyInv, [Next]_vars
  PROVE  \/ status' = status \/ status' = NoFile
         \/ Records(status, Present, genOf)' /\ probing' = NoPid
<1> USE DEF SafetyInv
<1>1. CASE Top
  <2> DEFINE m == StatusMap(oldWorkers, p, generation)
  <2>1. status' = status \/ status' = m
    BY <1>1 DEF Top, WriteStatus, fileVars
  <2>2. p \in Pids /\ probing = NoPid /\ oldWorkers[p] = 0
          /\ genOf[p] = generation /\ genOf[p] # 0 /\ proc[p] # "free"
    BY <1>1 DEF Top, TypeOK, TypeLoop, ProbeInv, CurrentInv, BooksInv, InLoop
  <2>3. /\ \A w \in Pids : oldWorkers[w] # 0 =>
             proc[w] # "free" /\ oldWorkers[w] = genOf[w]
        /\ \A v, w \in Pids : genOf[w] # 0 /\ genOf[v] = genOf[w] => v = w
    BY <1>1 DEF Top, BooksInv, Released
  <2>4. Records(m, Entries(oldWorkers) \cup ({p} \cap Pids), genOf)
    <3>1. /\ oldWorkers \in [Pids -> Nat] /\ p \in Pids \cup {NoPid}
          /\ generation \in Nat /\ genOf \in [Pids -> Nat]
      BY DEF TypeOK, TypeLoop, TypeProc
    <3>2. /\ \A w \in Pids : oldWorkers[w] # 0 => oldWorkers[w] = genOf[w]
          /\ p # NoPid =>
               oldWorkers[p] = 0 /\ genOf[p] = generation /\ generation # 0
      BY <2>2, <2>3
    <3> HIDE DEF SafetyInv
    <3>3. QED
      BY <2>3, <3>1, <3>2, StatusMapLists
  <2>5. Entries(oldWorkers) \cup ({p} \cap Pids) = Present
    BY <2>2, <2>3, NoPidAssumption DEF NoWorkerLost, Tracked, Entries, Present
  <2>6. UNCHANGED <<genOf, probing, Present>>
    BY <1>1 DEF Top, procVars, trackVars, Present
  <2> HIDE DEF m
  <2>7. QED
    BY <2>1, <2>2, <2>4, <2>5, <2>6
<1>2. ASSUME NEW v \in Pids, WaitExit(v)
      PROVE  status' = status \/ (Records(status, Present, genOf)' /\ probing' = NoPid)
  <2> DEFINE m == StatusMap(oldWorkers', NoPid, generation)
  <2>1. status' = status \/ status' = m
    BY <1>2 DEF WaitExit, WriteStatus, fileVars
  <2>2. /\ proc' = [proc EXCEPT ![v] = "free"]
        /\ genOf' = [genOf EXCEPT ![v] = 0]
        /\ oldWorkers' = [oldWorkers EXCEPT ![v] = 0]
    BY <1>2 DEF WaitExit, Bury
  <2>3. probing' = NoPid
    BY <1>2 DEF WaitExit, ProbeInv
  <2>4. /\ oldWorkers \in [Pids -> Nat] /\ genOf \in [Pids -> Nat]
        /\ proc \in [Pids -> ProcStates] /\ generation \in Nat
    BY DEF TypeOK, TypeLoop, TypeProc
  <2>5. /\ \A w \in Pids : oldWorkers[w] # 0 <=> proc[w] # "free"
        /\ \A w \in Pids : oldWorkers[w] # 0 => oldWorkers[w] = genOf[w]
        /\ \A u, w \in Pids : genOf[w] # 0 /\ genOf[u] = genOf[w] => u = w
    BY <1>2 DEF WaitExit, BooksInv, ShutdownInv, Released
  <2>6. /\ oldWorkers' \in [Pids -> Nat] /\ genOf' \in [Pids -> Nat]
        /\ \A w \in Pids : oldWorkers'[w] # 0 <=> proc'[w] # "free"
        /\ \A w \in Pids : oldWorkers'[w] # 0 => oldWorkers'[w] = genOf'[w]
        /\ \A u, w \in Pids : genOf'[w] # 0 /\ genOf'[u] = genOf'[w] => u = w
    BY <2>2, <2>4, <2>5
  <2>7. Records(m, Entries(oldWorkers') \cup ({NoPid} \cap Pids), genOf')
    <3> HIDE DEF SafetyInv
    <3>1. QED
      BY <2>4, <2>6, StatusMapLists
  <2>8. Entries(oldWorkers') \cup ({NoPid} \cap Pids) = Present'
    BY <2>6, NoPidAssumption DEF Entries, Present
  <2> HIDE DEF m
  <2>9. QED
    BY <2>1, <2>3, <2>7, <2>8
<1>3. CASE ~Top /\ ~\E w \in Pids : WaitExit(w)
  <2> USE DEF heldVars, fileVars
  <2>1. SetupStep \/ StartStep => status' = status
    BY DEF SetupStep, Validate, Acquire, Bind, Launch, StartStep,
           StartCancelled, StartFails, StartTransient, Retry, RetryCancelled,
           Spawn, ProbePasses, ProbeCancelled, ProbeFails, StartReturnsError,
           StartReturnsWorker
  <2>2. SelectStep \/ KillOld => status' = status
    BY DEF SelectStep, RecvCurrentExit, RecvOldExit, CtxDone, RecvHangup,
           RecvTimer, KillOld
  <2>3. Shutdown \/ WaitTimeout \/ ShutdownReturns \/ ReleasePIDFile
        \/ CloseListeners \/ Finish => status' = status
    BY DEF Shutdown, WaitTimeout, ShutdownReturns, ReleasePIDFile,
           CloseListeners, Finish
  <2>4. RemoveStatus => status' \in {status, NoFile}
    BY DEF RemoveStatus
  <2>5. RunReturn \/ Environment \/ Exited \/ UNCHANGED vars
        \/ (\E w \in Pids : Waiter(w)) => status' = status
    BY DEF RunReturn, Environment, WorkerExits, Hangup, Cancel, TimerFires,
           Exited, vars, Waiter, Reap, WaiterAbandons
  <2>6. QED
    BY <1>3, <2>1, <2>2, <2>3, <2>4, <2>5
       DEF Next, LoopStep, ShutdownStep, ReleaseStep
<1>4. QED
  BY <1>1, <1>2, <1>3

\* A step keeps the generation of a worker, gives a new worker, which it puts
\* under probe, the next one, and takes a worker from its probe only alive or
\* because ctx is done.
WorkerKept(w) ==
  /\ proc[w] # "free" /\ genOf'[w] = genOf[w]
  /\ proc'[w] = "starting" =>
       proc[w] = "starting" /\ (w = probing => w = probing' \/ ctxDone)

WorkerNew(w) ==
  /\ generation' = generation + 1 /\ genOf'[w] = generation'
  /\ w = probing'

(* startWorker gives generations in turn, and no other step makes a worker. *)
LEMMA WorkerStep ==
  ASSUME SafetyInv, [Next]_vars
  PROVE  /\ generation \in Nat /\ generation' \in {generation, generation + 1}
         /\ ctxDone => ctxDone'
         /\ \A w \in Pids : proc'[w] # "free" => WorkerKept(w) \/ WorkerNew(w)
<1> DEFINE Same == UNCHANGED <<generation, probing, proc, genOf, ctxDone>>
           Goal == /\ generation' \in {generation, generation + 1}
                   /\ ctxDone => ctxDone'
                   /\ \A w \in Pids :
                        proc'[w] # "free" => WorkerKept(w) \/ WorkerNew(w)
<1>1. /\ generation \in Nat /\ proc \in [Pids -> ProcStates]
      /\ genOf \in [Pids -> Nat] /\ probing \in Pids \cup {NoPid}
      /\ pc = "probe" <=> probing # NoPid
  BY DEF SafetyInv, TypeOK, TypeLoop, TypeProc, ProbeInv
<1>2. Same => Goal
  BY DEF WorkerKept
<1> USE DEF trackVars, ctlVars, procVars
<1>3. SetupStep \/ RunReturn \/ Top \/ KillOld \/ ReleaseStep \/ Exited
      \/ UNCHANGED vars => Same
  BY DEF SetupStep, Validate, Acquire, Bind, Launch, RunReturn, Top, KillOld,
         ReleaseStep, ReleasePIDFile, RemoveStatus, CloseListeners, Finish,
         Exited, vars
<1>4. Retry \/ StartCancelled \/ RetryCancelled => Same
  BY DEF Retry, StartCancelled, RetryCancelled, StartReturnsError
<1>5. StartFails \/ StartTransient => Goal
  BY <1>1 DEF StartFails, StartTransient, StartReturnsError, WorkerKept
<1>6. ASSUME NEW v \in Pids, Spawn(v) PROVE Goal
  BY <1>1, <1>6, NoPidAssumption DEF Spawn, WorkerKept, WorkerNew
<1>7. ProbePasses \/ ProbeCancelled => Goal
  BY <1>1 DEF ProbePasses, ProbeCancelled, StartReturnsWorker, WorkerKept
<1>8. ProbeFails => Goal
  BY <1>1 DEF ProbeFails, Bury, StartReturnsError, WorkerKept
<1>9. ASSUME NEW v \in Pids, \/ RecvCurrentExit(v) \/ RecvOldExit(v)
                             \/ WaitExit(v) \/ WaiterAbandons(v)
      PROVE  Goal
  <2>1. /\ Bury(v) /\ UNCHANGED <<generation, probing, ctxDone>>
    BY <1>9 DEF RecvCurrentExit, RecvOldExit, WaitExit, WaiterAbandons
  <2>2. QED
    BY <1>1, <2>1 DEF Bury, WorkerKept
<1>10. CtxDone \/ RecvHangup \/ RecvTimer => Same
  BY DEF CtxDone, RecvHangup, RecvTimer
<1>11. Shutdown \/ WaitTimeout \/ ShutdownReturns => Same
  BY DEF Shutdown, WaitTimeout, ShutdownReturns
<1>12. ASSUME NEW v \in Pids, Reap(v) \/ WorkerExits(v) PROVE Goal
  BY <1>1, <1>12 DEF Reap, WorkerExits, Running, WorkerKept
<1>13. Hangup \/ TimerFires => Same
  BY DEF Hangup, TimerFires
<1>14. Cancel => Goal
  BY DEF Cancel, WorkerKept
<1> HIDE DEF Goal, Same
<1>15. Goal
  BY <1>2, <1>3, <1>4, <1>5, <1>6, <1>7, <1>8, <1>9, <1>10, <1>11, <1>12,
     <1>13, <1>14
     DEF Next, LoopStep, StartStep, SelectStep, ShutdownStep, Waiter,
         Environment
<1>16. QED
  BY <1>1, <1>15 DEF Goal

(* Controller.Hangup leaves everything but its channel alone.               *)
LEMMA DeliverKeepsSafetyInv ==
  ASSUME SafetyInv, DeliverHangup
  PROVE  SafetyInv'
<1>1. UNCHANGED <<cfg, pc, phase, trackVars, flagVars, heldVars, fileVars,
                  ctxDone, err, runVars, procVars, events>>
      /\ hangup' = TRUE
  BY DEF DeliverHangup
<1> USE DEF SafetyInv, trackVars, flagVars, heldVars, fileVars, runVars,
            procVars
<1>2. TypeOK'
  BY <1>1 DEF TypeOK, TypeLoop, TypeRun, TypeProc
<1>3. UNCHANGED <<Entries(oldWorkers), Tracked>>
  BY <1>1 DEF Entries, Tracked
<1>4. /\ NoWorkerLost' /\ OneDraining' /\ PendingHangupKept' /\ StatusExact'
  BY <1>1, <1>3 DEF NoWorkerLost, OneDraining, PendingHangupKept, StatusExact
<1>5. ProbeInv' /\ CurrentInv' /\ BooksInv' /\ EarlyInv'
  BY <1>1, <1>3 DEF ProbeInv, CurrentInv, BooksInv, EarlyInv
<1>6. ShutdownSignalled' /\ ShutdownInv' /\ KilledBeforeRelease' /\ TwoInv'
  BY <1>1, <1>3 DEF ShutdownSignalled, ShutdownInv, KilledBeforeRelease,
         TwoInv, Running
<1>7. ResourceInv' /\ RunResult'
  BY <1>1 DEF ResourceInv, RunResult
<1>8. QED
  BY <1>2, <1>4, <1>5, <1>6, <1>7

(* Only a cancelled probe leaves a worker behind that has not passed it.    *)
LEMMA ProbedStep ==
  ASSUME SafetyInv, ProbedInv, [Next]_vars
  PROVE  ProbedInv'
<1> SUFFICES ASSUME NEW w \in Pids, proc'[w] = "starting"
             PROVE  w = probing' \/ ctxDone'
  BY DEF ProbedInv
<1>1. CASE WorkerKept(w)
  BY <1>1, WorkerStep DEF ProbedInv, WorkerKept
<1>2. CASE WorkerNew(w)
  BY <1>2 DEF WorkerNew
<1>3. QED
  BY <1>1, <1>2, WorkerStep

(* The status file stays a past list of the workers.                        *)
LEMMA FileStep ==
  ASSUME SafetyInv, SafetyInv', ProbedInv', FileInv, [Next]_vars
  PROVE  FileInv'
<1>1. /\ generation \in Nat /\ generation' \in {generation, generation + 1}
      /\ ctxDone => ctxDone'
      /\ \A w \in Pids : proc'[w] # "free" => WorkerKept(w) \/ WorkerNew(w)
  BY WorkerStep
<1>2. CASE status' = status /\ status # NoFile
  <2>1. ASSUME NEW g \in DOMAIN status
        PROVE  /\ g \in 1..generation' /\ status[g] \in Pids
               /\ genOf'[status[g]] = g /\ proc'[status[g]] = "starting" =>
                    ctxDone'
    <3>1. /\ g \in 1..generation /\ status[g] \in Pids
          /\ genOf[status[g]] = g /\ proc[status[g]] = "starting" => ctxDone
      BY <1>2 DEF FileInv
    <3>2. genOf'[status[g]] = g => ~WorkerNew(status[g])
      BY <1>1, <3>1 DEF WorkerNew
    <3>3. QED
      BY <1>1, <3>1, <3>2 DEF WorkerKept
  <2>2. ASSUME NEW w \in Pids, proc'[w] # "free"
        PROVE  \/ genOf'[w] \in DOMAIN status /\ status[genOf'[w]] = w
               \/ \A g \in DOMAIN status : g < genOf'[w]
    <3>1. CASE WorkerKept(w)
      BY <1>2, <3>1 DEF FileInv, WorkerKept
    <3>2. CASE WorkerNew(w)
      BY <1>1, <1>2, <3>2 DEF FileInv, WorkerNew
    <3>3. QED
      BY <1>1, <2>2, <3>1, <3>2
  <2>3. QED
    BY <1>2, <2>1, <2>2 DEF FileInv
<1>3. CASE Records(status, Present, genOf)' /\ probing' = NoPid
  <2>1. ASSUME NEW g \in DOMAIN status'
        PROVE  /\ g \in 1..generation' /\ status'[g] \in Pids
               /\ proc'[status'[g]] = "starting" => ctxDone'
    <3>1. PICK w \in Pids : proc'[w] # "free" /\ g = genOf'[w]
      BY <1>3, <2>1 DEF Records, Present
    <3>2. status'[g] = w
      BY <1>3, <3>1 DEF Records, Present
    <3>3. g \in Nat /\ g # 0 /\ g <= generation'
      BY <3>1 DEF SafetyInv, TypeOK, TypeProc, BooksInv
    <3>4. generation' \in Nat
      BY <1>1
    <3>5. QED
      BY <1>3, <3>2, <3>3, <3>4, NoPidAssumption DEF ProbedInv
  <2>2. \A w \in Pids : proc'[w] # "free" =>
          genOf'[w] \in DOMAIN status' /\ status'[genOf'[w]] = w
    BY <1>3 DEF Records, Present
  <2>3. QED
    BY <2>1, <2>2 DEF FileInv
<1>4. CASE status' = NoFile
  BY <1>4 DEF FileInv
<1>5. QED
  BY <1>2, <1>3, <1>4, StatusStep

-----------------------------------------------------------------------------
(* What a caller knows.                                                     *)

(* The workers a caller has seen stay listed while they run, whatever the   *)
(* supervisor writes to the status file under it.                           *)
LEMMA CallerKept ==
  ASSUME SafetyInv, SafetyInv', [Next]_vars, UNCHANGED callerVars,
         NEW c \in Callers, CallerInv(c)
  PROVE  CallerInv(c)'
<1> DEFINE old == previous[c]
<1>1. /\ generation \in Nat /\ generation' \in {generation, generation + 1}
      /\ \A w \in Pids : proc'[w] # "free" => WorkerKept(w) \/ WorkerNew(w)
  BY WorkerStep
<1>2. rpc' = rpc /\ previous'[c] = old
  BY DEF callerVars
<1>3. ASSUME rpc[c] \in {"signal", "poll", "done"}
      PROVE  /\ \A g \in DOMAIN old : g \in 1..generation'
             /\ \A w \in Pids : proc'[w] # "free" =>
                  \/ genOf'[w] \in DOMAIN old
                  \/ \A g \in DOMAIN old : g < genOf'[w]
             /\ \A w \in Pids :
                  proc'[w] # "free" /\ genOf'[w] \in DOMAIN old =>
                    Seen(c, w) /\ genOf'[w] = genOf[w]
  <2>1. /\ \A g \in DOMAIN old : g \in 1..generation
        /\ \A w \in Pids : proc[w] # "free" =>
             genOf[w] \in DOMAIN old \/ \A g \in DOMAIN old : g < genOf[w]
    BY <1>3 DEF CallerInv, Seen
  <2>2. \A g \in DOMAIN old : g \in 1..generation'
    BY <1>1, <2>1
  <2>3. ASSUME NEW w \in Pids, WorkerKept(w)
        PROVE  /\ genOf'[w] = genOf[w] /\ proc[w] # "free"
               /\ \/ genOf'[w] \in DOMAIN old
                  \/ \A g \in DOMAIN old : g < genOf'[w]
    BY <2>1, <2>3 DEF WorkerKept
  <2>4. ASSUME NEW w \in Pids, WorkerNew(w)
        PROVE  /\ genOf'[w] \notin DOMAIN old
               /\ \A g \in DOMAIN old : g < genOf'[w]
    BY <1>1, <2>1, <2>4 DEF WorkerNew
  <2>5. QED
    BY <1>1, <2>2, <2>3, <2>4 DEF Seen
<1>4. ASSUME rpc[c] \in {"signal", "poll"}
      PROVE  \/ status' \in {NoFile, old}
             \/ /\ \A w \in Pids : Seen(c, w)' =>
                     genOf'[w] \in DOMAIN status' /\ status'[genOf'[w]] = w
                /\ \A h \in DOMAIN status' \ DOMAIN old :
                     \A g \in DOMAIN old : g < h
  <2>1. CASE status' = status
    BY <1>2, <1>3, <1>4, <2>1 DEF CallerInv, Seen
  <2>2. CASE status' = NoFile
    BY <2>2
  <2>3. CASE Records(status, Present, genOf)'
    <3>1. \A w \in Pids : proc'[w] # "free" =>
            genOf'[w] \in DOMAIN status' /\ status'[genOf'[w]] = w
      BY <2>3 DEF Records, Present
    <3>2. \A h \in DOMAIN status' : \E w \in Pids :
            proc'[w] # "free" /\ h = genOf'[w]
      BY <2>3 DEF Records, Present
    <3>3. \A w \in Pids : Seen(c, w)' => proc'[w] # "free"
      BY DEF Seen
    <3>4. \A h \in DOMAIN status' \ DOMAIN old : \A g \in DOMAIN old : g < h
      <4>1. rpc[c] \in {"signal", "poll", "done"}
        BY <1>4
      <4>2. QED
        BY <1>3, <3>2, <4>1
    <3>5. QED
      BY <3>1, <3>3, <3>4
  <2>4. QED
    BY <2>1, <2>2, <2>3, StatusStep
<1>5. ASSUME rpc[c] = "done"
      PROVE  /\ \A w \in Pids : Seen(c, w)' => old[genOf'[w]] # w
             /\ \A g \in DOMAIN old : g < generation'
  <2>1. \A w \in Pids : Seen(c, w) => old[genOf[w]] # w
    BY <1>5 DEF CallerInv
  <2>2. \A g \in DOMAIN old : g \in 1..generation /\ g < generation
    BY <1>5 DEF CallerInv
  <2>3. \A w \in Pids : Seen(c, w)' => old[genOf'[w]] # w
    BY <1>2, <1>3, <1>5, <2>1 DEF Seen
  <2>4. QED
    BY <1>1, <2>2, <2>3
<1> HIDE DEF old
<1>6. QED
  BY <1>2, <1>3, <1>4, <1>5 DEF CallerInv, Seen, old

(* A poll that ends Restart: the file is not the one the caller has read,   *)
(* so all that it listed and that still runs would be listed again.         *)
LEMMA PollSucceeds ==
  ASSUME SafetyInv, FileInv, NEW c \in Callers, CallerInv(c), rpc[c] = "poll",
         status # NoFile, GenerationAdvanced(previous[c], status),
         OldWorkersGone(previous[c], status)
  PROVE  /\ \A w \in Pids : Seen(c, w) => previous[c][genOf[w]] # w
         /\ \A g \in DOMAIN previous[c] : g < generation
<1> DEFINE old == previous[c]
<1>1. PICK h \in DOMAIN status : h \notin DOMAIN old
  BY DEF GenerationAdvanced
<1>2. status # old
  BY <1>1
<1>3. /\ \A w \in Pids : Seen(c, w) =>
           genOf[w] \in DOMAIN status /\ status[genOf[w]] = w
      /\ \A g \in DOMAIN old : g < h
  BY <1>1, <1>2 DEF CallerInv
<1>4. \A w \in Pids : Seen(c, w) => old[genOf[w]] # w
  BY <1>3 DEF OldWorkersGone, Seen
<1>5. h \in 1..generation /\ generation \in Nat
  BY <1>1 DEF FileInv, SafetyInv, TypeOK, TypeLoop
<1>6. \A g \in DOMAIN old : g \in 1..generation
  BY DEF CallerInv
<1> HIDE DEF old
<1>7. ASSUME NEW g \in DOMAIN old PROVE g < generation
  <2>1. g < h
    BY <1>3
  <2>2. g \in Int /\ h \in Int /\ h <= generation
    BY <1>5, <1>6
  <2>3. QED
    BY ONLY <2>1, <2>2, <1>5
<1>8. QED
  BY <1>4, <1>7 DEF old

(* A step of a caller keeps what is known of it.                            *)
LEMMA CallerMoves ==
  ASSUME RestartInv, NEW c \in Callers, CallerStep(c) \/ Expire(c)
  PROVE  TypeCallers' /\ CallerInv(c)'
<1>1. UNCHANGED <<status, generation, proc, genOf>>
  BY DEF CallerStep, Expire, Open, ReadPrevious, SendHangup, Poll, vars,
         trackVars, fileVars, procVars
<1>2. /\ SafetyInv /\ FileInv /\ TypeCallers /\ CallerInv(c)
      /\ rpc \in [Callers -> CallerStates] /\ DOMAIN previous = Callers
  BY DEF RestartInv, TypeCallers
<1> USE DEF To, CallerStates
<1>3. TypeCallers'
  BY <1>2 DEF TypeCallers, CallerStep, Expire, Open, ReadPrevious,
         SendHangup, Poll
<1> SUFFICES CallerInv(c)'
  BY <1>3
<1>4. CASE Open(c) \/ Expire(c)
  BY <1>2, <1>4 DEF Open, Expire, CallerInv
<1>5. CASE ReadPrevious(c)
  <2>1. /\ previous'[c] = status
        /\ rpc'[c] = "failed" \/ (rpc'[c] = "signal" /\ status # NoFile)
    BY <1>2, <1>5 DEF ReadPrevious
  <2>2. CASE rpc'[c] = "failed"
    BY <2>2 DEF CallerInv
  <2>3. CASE rpc'[c] = "signal" /\ status # NoFile
    <3>1. /\ \A g \in DOMAIN status : g \in 1..generation
          /\ \A w \in Pids : proc[w] # "free" =>
               genOf[w] \in DOMAIN status \/ \A g \in DOMAIN status : g < genOf[w]
      BY <1>2, <2>3 DEF FileInv
    <3>2. QED
      BY <1>1, <2>1, <2>3, <3>1 DEF CallerInv, Seen
  <2>4. QED
    BY <2>1, <2>2, <2>3
<1>6. CASE SendHangup(c)
  <2>1. /\ rpc[c] = "signal" /\ rpc'[c] \in {"poll", "failed"}
        /\ previous' = previous
    BY <1>2, <1>6 DEF SendHangup
  <2>2. QED
    BY <1>1, <1>2, <2>1 DEF CallerInv, Seen
<1>7. CASE Poll(c)
  <2>1. /\ rpc[c] = "poll" /\ previous' = previous
        /\ \/ rpc'[c] = "failed"
           \/ /\ rpc'[c] = "done" /\ status # NoFile
              /\ GenerationAdvanced(previous[c], status)
              /\ OldWorkersGone(previous[c], status)
    BY <1>2, <1>7 DEF Poll
  <2>2. CASE rpc'[c] = "failed"
    BY <2>2 DEF CallerInv
  <2>3. CASE rpc'[c] = "done"
    BY <1>1, <1>2, <2>1, <2>3, PollSucceeds DEF CallerInv, Seen
  <2>4. QED
    BY <2>1, <2>2, <2>3
<1>8. QED
  BY <1>4, <1>5, <1>6, <1>7 DEF CallerStep

LEMMA InitRestartInv == RestartInit => RestartInv
<1> SUFFICES ASSUME RestartInit PROVE RestartInv
  OBVIOUS
<1>1. SafetyInv
  BY InitSafetyInv DEF RestartInit
<1>2. TypeCallers /\ \A c \in Callers : CallerInv(c)
  BY DEF RestartInit, TypeCallers, CallerStates, CallerInv
<1>3. ProbedInv /\ FileInv
  BY DEF RestartInit, Init, ProbedInv, FileInv
<1>4. QED
  BY <1>1, <1>2, <1>3 DEF RestartInv

LEMMA NextRestartInv == RestartInv /\ [RestartNext]_restartVars => RestartInv'
<1> SUFFICES ASSUME RestartInv, [RestartNext]_restartVars PROVE RestartInv'
  OBVIOUS
<1>1. SafetyInv /\ TypeCallers /\ ProbedInv /\ FileInv
  BY DEF RestartInv
<1>2. CASE [Next]_vars /\ UNCHANGED <<sighup, callerVars>>
  <2>1. SafetyInv'
    BY <1>1, <1>2, NextSafetyInv
  <2>2. ProbedInv' /\ FileInv'
    BY <1>1, <1>2, <2>1, ProbedStep, FileStep
  <2>3. TypeCallers'
    BY <1>1, <1>2 DEF TypeCallers, callerVars
  <2>4. \A c \in Callers : CallerInv(c)'
    BY <1>2, <2>1, CallerKept DEF RestartInv
  <2>5. QED
    BY <2>1, <2>2, <2>3, <2>4 DEF RestartInv
<1>3. ASSUME NEW c \in Callers, CallerStep(c) \/ Expire(c) PROVE RestartInv'
  <2>1. UNCHANGED vars
    BY <1>3 DEF CallerStep, Expire, Open, ReadPrevious, SendHangup, Poll
  <2>2. SafetyInv'
    BY <1>1, <2>1, NextSafetyInv
  <2>3. UNCHANGED <<status, generation, proc, genOf, probing, ctxDone>>
    BY <2>1 DEF vars, trackVars, fileVars, procVars, ctlVars
  <2>4. ProbedInv' /\ FileInv'
    BY <1>1, <2>3 DEF ProbedInv, FileInv
  <2>5. TypeCallers' /\ CallerInv(c)'
    BY <1>3, CallerMoves
  <2>6. ASSUME NEW d \in Callers, d # c PROVE CallerInv(d)'
    <3>1. rpc'[d] = rpc[d] /\ previous'[d] = previous[d]
      BY <1>1, <1>3, <2>6 DEF TypeCallers, CallerStep, Expire, Open,
             ReadPrevious, SendHangup, Poll, To
    <3>2. QED
      BY <2>3, <3>1 DEF RestartInv, CallerInv, Seen
  <2>7. QED
    BY <2>2, <2>4, <2>5, <2>6 DEF RestartInv
<1>4. CASE DeliverHangup
  <2>1. SafetyInv'
    BY <1>1, <1>4, DeliverKeepsSafetyInv
  <2>2. /\ UNCHANGED <<status, generation, proc, genOf, probing, ctxDone>>
        /\ UNCHANGED <<rpc, previous>> /\ sighup' = FALSE
    BY <1>4 DEF DeliverHangup, trackVars, fileVars, procVars, callerVars
  <2>3. ProbedInv' /\ FileInv' /\ TypeCallers'
    BY <1>1, <2>2 DEF ProbedInv, FileInv, TypeCallers
  <2>4. \A c \in Callers : CallerInv(c)'
    BY <2>2 DEF RestartInv, CallerInv, Seen
  <2>5. QED
    BY <2>1, <2>3, <2>4 DEF RestartInv
<1>5. QED
  BY <1>2, <1>3, <1>4 DEF RestartNext, restartVars

LEMMA AlwaysRestartInv == RestartSpec => []RestartInv
  BY InitRestartInv, NextRestartInv, PTL DEF RestartSpec

(* When control.Restart returns nil, the workers that the status file       *)
(* listed before the signal are gone and a later generation has been        *)
(* started, whatever rewrote the file between the polls.                    *)
THEOREM RestartIsSound == RestartSpec => []RestartSound
<1>1. RestartInv => RestartSound
  BY DEF RestartInv, CallerInv, RestartSound, Seen, Running
<1>2. QED
  BY <1>1, AlwaysRestartInv, PTL

(* The poll that ends control.Restart has found a generation that was not   *)
(* listed before, and not one that is still under its startup probe.        *)
THEOREM RestartFindsSuccessor == RestartSpec => RestartHasSuccessor
<1> DEFINE Ends(c) == rpc[c] # "done" /\ rpc'[c] = "done"
           Found(c) == \E g \in DOMAIN status \ DOMAIN previous[c] :
                         genOf[status[g]] = g /\ proc[status[g]] = "starting" =>
                           ctxDone
<1>1. RestartInv /\ [RestartNext]_restartVars
        => [\A c \in Callers : Ends(c) => Found(c)]_restartVars
  <2> SUFFICES ASSUME RestartInv, RestartNext, NEW c \in Callers, Ends(c)
               PROVE  Found(c)
    OBVIOUS
  <2>1. rpc \in [Callers -> CallerStates]
    BY DEF RestartInv, TypeCallers
  <2>2. Poll(c)
    BY <2>1 DEF RestartNext, DeliverHangup, CallerStep, Expire, Open,
           ReadPrevious, SendHangup, Poll, To, callerVars
  <2>3. status # NoFile /\ GenerationAdvanced(previous[c], status)
    BY <2>1, <2>2 DEF Poll, To
  <2>4. QED
    BY <2>3 DEF GenerationAdvanced, RestartInv, FileInv
<1>2. QED
  BY <1>1, AlwaysRestartInv, PTL DEF RestartSpec, RestartHasSuccessor

(* Nothing a caller of control.Restart does disturbs the run it restarts:   *)
(* workers are neither lost nor forgotten, and the run ends as it should.   *)
THEOREM RestartsDisturbNothing ==
  RestartSpec => [](NoWorkerLost /\ OneDraining /\ PendingHangupKept
                    /\ StatusExact /\ KilledBeforeRelease /\ RunResult)
<1>1. RestartInv => NoWorkerLost /\ OneDraining /\ PendingHangupKept
                    /\ StatusExact /\ KilledBeforeRelease /\ RunResult
  BY DEF RestartInv, SafetyInv
<1>2. QED
  BY <1>1, AlwaysRestartInv, PTL

-----------------------------------------------------------------------------
(* The refinement.                                                          *)


\* A step in which no process starts, exits or is signalled; what it changes is
\* what has become of processes that have exited.
Quiet ==
  \A w \in Pids : /\ Running(w)' <=> Running(w)
                  /\ Running(w) => /\ genOf'[w] = genOf[w]
                                   /\ signals'[w] = signals[w]

\* The books say the same of every running process.
SameOld ==
  \A w \in Pids : Running(w) => (oldWorkers'[w] # 0 <=> oldWorkers[w] # 0)

\* In a quiet step the generations of any set of processes stay the same, and so
\* do those that have been signalled.
LEMMA QuietStep ==
  ASSUME Quiet
  PROVE  /\ Told' = Told /\ Killed' = Killed
         /\ Generations(Pids)' = Generations(Pids)
         /\ \A w \in Pids \cup {NoPid} : GenerationOf(w)' = GenerationOf(w)
         /\ SameOld => Generations(Entries(oldWorkers))'
                         = Generations(Entries(oldWorkers))
<1>1. Told' = Told
  BY DEF Quiet, Told, Generations
<1>2. Killed' = Killed
  BY DEF Quiet, Killed, Generations
<1>3. Generations(Pids)' = Generations(Pids)
  BY DEF Quiet, Generations
<1>4. \A w \in Pids \cup {NoPid} : GenerationOf(w)' = GenerationOf(w)
  BY NoPidAssumption DEF Quiet, GenerationOf
<1>5. ASSUME SameOld
      PROVE  Generations(Entries(oldWorkers))' = Generations(Entries(oldWorkers))
  BY <1>5 DEF Quiet, SameOld, Generations, Entries
<1> QED
  BY <1>1, <1>2, <1>3, <1>4, <1>5

\* A step that leaves the processes alone is quiet, and so is one that buries a
\* process that has exited.
LEMMA QuietCases ==
  ASSUME TypeProc
  PROVE  /\ UNCHANGED <<proc, genOf, signals>> => Quiet
         /\ \A w \in Pids : proc[w] \in {"zombie", "reaped"} /\ Bury(w) => Quiet
         /\ \A w \in Pids :
              proc[w] = "zombie" /\ proc' = [proc EXCEPT ![w] = "reaped"]
                /\ UNCHANGED <<genOf, signals>> => Quiet
         /\ UNCHANGED oldWorkers => SameOld
  BY DEF TypeProc, ProcStates, Quiet, Running, Bury, SameOld

\* Where the run stands says what it may have: no worker at all before the first
\* start, only old ones beside the current one and the one under probe.
LEMMA WhereWorkersAre ==
  ASSUME SafetyInv
  PROVE  /\ Life = "new" => \A w \in Pids : proc[w] = "free"
         /\ Life = "open" => \A w \in Pids :
              Running(w) => oldWorkers[w] # 0 \/ w = p \/ w = probing
         /\ pc # "probe" => probing = NoPid
         /\ Life = "open" /\ pc \in Starting => p = NoPid
         /\ \A w \in Pids : Running(w) => genOf[w] \in 1..generation
  BY NoPidAssumption DEF SafetyInv, TypeOK, TypeLoop, TypeProc, NoWorkerLost, Tracked,
     Entries, ProbeInv, CurrentInv, BooksInv, EarlyInv, Running, Life, InSetup, Starting,
     InLoop, Released

\* Nobody holds a controller during the setup, so no restart is requested.
SetupInv == pc \in InSetup => ret = "nothing" /\ ~hangup

\* The setup is never entered again, and RunReturn needs a startup report.
LEMMA SetupInvStep ==
  ASSUME SafetyInv, SetupInv, [Next]_vars
  PROVE  SetupInv'
<1> SUFFICES ASSUME pc' \in InSetup PROVE ret' = "nothing" /\ ~hangup'
  BY DEF SetupInv
<1> USE DEF Released, InSetup, Starting, InLoop
<1>1. SetupStep => ret' = ret /\ hangup' = hangup /\ pc \in InSetup
  BY DEF SetupStep, Validate, Acquire, Bind, Launch, ctlVars, runVars
<1>2. ~Top /\ ~KillOld /\ ~ReleaseStep /\ ~ShutdownStep
  BY DEF Top, KillOld, ReleaseStep, ReleasePIDFile, RemoveStatus,
         CloseListeners, Finish, ShutdownStep, Shutdown, WaitExit,
         WaitTimeout, ShutdownReturns
<1>3. ~StartStep
  BY DEF StartStep, StartCancelled, StartFails, StartTransient, Retry,
         RetryCancelled, Spawn, ProbePasses, ProbeCancelled, ProbeFails,
         StartReturnsError, StartReturnsWorker
<1>4. ~SelectStep
  BY DEF SelectStep, RecvCurrentExit, RecvOldExit, CtxDone, RecvHangup,
         RecvTimer, BeginRestart, ReloadAndStart
<1>5. ASSUME NEW w \in Pids, Waiter(w) \/ WorkerExits(w)
      PROVE  ret' = ret /\ hangup' = hangup /\ pc' = pc
  BY <1>5 DEF Waiter, Reap, WaiterAbandons, WorkerExits, ctlVars, runVars
<1>6. RunReturn \/ Hangup => pc' \notin InSetup
  BY DEF SafetyInv, EarlyInv, ResourceInv, SetupInv, RunReturn, Hangup
<1>7. Cancel \/ TimerFires \/ Exited \/ UNCHANGED vars
        => ret' = ret /\ hangup' = hangup /\ pc' = pc
  BY DEF Cancel, TimerFires, Exited, vars, ctlVars, runVars
<1> QED
  BY <1>1, <1>2, <1>3, <1>4, <1>5, <1>6, <1>7
     DEF SetupInv, Next, LoopStep, Environment

\* What a step leaves alone when it changes none of the workers.
SameWorkers ==
  /\ Current' = Current /\ Candidate' = Candidate /\ Draining' = Draining
  /\ Told' = Told /\ Killed' = Killed

\* A quiet step that keeps p, probing and the old workers, and the stage of the
\* run, keeps the workers.
LEMMA SameWorkersStep ==
  ASSUME TypeLoop, Quiet, SameOld, Life' = Life, UNCHANGED <<p, probing>>
  PROVE  SameWorkers
<1>1. Current' = Current /\ Candidate' = Candidate
  BY QuietStep DEF Current, Candidate, TypeLoop, GenerationOf
<1>2. Draining' = Draining
  BY QuietStep DEF Draining
<1> QED
  BY <1>1, <1>2, QuietStep DEF SameWorkers

\* With no process there is no worker, before the step and after it.
LEMMA NoProcessNoWorker ==
  ASSUME TypeLoop, TypeLoop', \A w \in Pids : ~Running(w) /\ ~Running(w)'
  PROVE  SameWorkers /\ GR!Alive = {}
<1>1. /\ Current = 0 /\ Candidate = 0 /\ Draining = {}
      /\ Told = {} /\ Killed = {}
  BY DEF TypeLoop, Current, Candidate, Draining, Told, Killed, Generations,
     GenerationOf, Entries
<1>2. /\ Current' = 0 /\ Candidate' = 0 /\ Draining' = {}
      /\ Told' = {} /\ Killed' = {}
  BY DEF TypeLoop, Current, Candidate, Draining, Told, Killed, Generations,
     GenerationOf, Entries
<1> QED
  BY <1>1, <1>2 DEF SameWorkers, GR!Alive

\* A step that changes nothing the abstract specification speaks of.
LEMMA StutterStep ==
  ASSUME SameWorkers,
         UNCHANGED <<Life, ctxDone, generation, InRestart, Owed>>
  PROVE  UNCHANGED GR!vars
  BY DEF SameWorkers, GR!vars, GR!workers

\* The steps of run: nothing but Launch and the failures is visible.
LEMMA SetupRefines ==
  ASSUME SafetyInv, SafetyInv', SetupInv, SetupStep
  PROVE  [GR!Next]_(GR!vars)
<1>1. /\ UNCHANGED <<trackVars, flagVars, ctlVars, procVars>>
      /\ pc \in InSetup /\ phase = "setup"
      /\ \/ pc' \in InSetup /\ phase' = phase
         \/ pc' \in Released /\ phase' = phase
         \/ pc' = "start" /\ phase' = "initial"
  BY DEF SafetyInv, EarlyInv, SetupStep, Validate, Acquire, Bind, Launch, InSetup, Released
<1>2. /\ TypeLoop /\ TypeProc /\ TypeLoop' /\ TypeProc'
      /\ Life = "new" /\ InRestart = "none" /\ InRestart' = "none" /\ Owed = FALSE
  BY <1>1 DEF SafetyInv, TypeOK, Life, Owed, InSetup, Released, InRestart, Starting
<1>3. \A w \in Pids : ~Running(w) /\ ~Running(w)'
  BY <1>1, <1>2, WhereWorkersAre DEF Running, procVars
<1>4. SameWorkers /\ GR!Alive = {}
  BY <1>2, <1>3, NoProcessNoWorker
<1>5. UNCHANGED <<ctxDone, generation>>
  BY <1>1 DEF trackVars, ctlVars
<1>6. CASE pc' \in InSetup /\ phase' = phase
  <2>1. Life' = "new" /\ Owed' = FALSE
    BY <1>1, <1>6 DEF Life, Owed, InSetup, Released
  <2> QED
    BY <2>1, <1>2, <1>4, <1>5, StutterStep
<1>7. CASE pc' \in Released /\ phase' = phase
  <2>1. Life' = "closed" /\ Owed' = FALSE
    BY <1>7 DEF Life, Owed
  <2> QED
    BY <2>1, <1>2, <1>4, <1>5 DEF SameWorkers, GR!Close, GR!Next, GR!workers
<1>8. CASE pc' = "start" /\ phase' = "initial"
  <2>1. Life' = "open" /\ Owed' = FALSE
    BY <1>1, <1>8 DEF SafetyInv, EarlyInv, SetupInv, Life, Owed, InSetup,
       Released, flagVars, ctlVars
  <2> QED
    BY <2>1, <1>2, <1>4, <1>5 DEF SameWorkers, GR!Open, GR!Next, GR!workers
<1> QED
  BY <1>1, <1>6, <1>7, <1>8

\* While the run serves, the running processes are the old workers, the current
\* one and the one under probe.
LEMMA OpenWorkers ==
  ASSUME SafetyInv, Life = "open"
  PROVE  Generations(Pids) = GR!Alive
<1>1. TypeLoop
  BY DEF SafetyInv, TypeOK
<1>2. ASSUME NEW w \in Pids, Running(w) PROVE genOf[w] \in GR!Alive
  <2>1. genOf[w] # 0
    BY <1>2, WhereWorkersAre
  <2>2. CASE oldWorkers[w] # 0
    BY <1>2, <2>1, <2>2 DEF GR!Alive, Draining, Generations, Entries
  <2>3. CASE w = p \/ w = probing
    BY <1>2, <2>1, <2>3, NoPidAssumption DEF GR!Alive, Current, Candidate, GenerationOf
  <2> QED
    BY <1>2, <2>2, <2>3, WhereWorkersAre
<1>3. ASSUME NEW g \in GR!Alive PROVE \E w \in Pids : Running(w) /\ genOf[w] = g
  <2>1. g # 0
    BY DEF GR!Alive
  <2>2. CASE g \in Draining
    BY <2>2 DEF Draining, Generations, Entries
  <2>3. CASE g = Current \/ g = Candidate
    BY <2>1, <2>3, <1>1 DEF Current, Candidate, GenerationOf, TypeLoop
  <2> QED
    BY <2>2, <2>3 DEF GR!Alive
<1> QED
  BY <1>2, <1>3 DEF Generations

\* loop decides to shut down.
LEMMA StopStep ==
  ASSUME SafetyInv, Quiet, Life = "open", pc' = "shutdown",
         UNCHANGED ctxDone, probing = NoPid, probing' = NoPid,
         generation' \in {generation, generation + 1}
  PROVE  GR!Stop
<1>1. /\ Life' = "stopping" /\ InRestart' = "none" /\ Owed' = FALSE
      /\ Current' = 0 /\ Candidate = 0 /\ Candidate' = 0
  BY DEF Life, InRestart, Owed, Current, Candidate, GenerationOf, Released, Starting
<1>2. Draining' = GR!Alive
  BY <1>1, OpenWorkers, QuietStep DEF Draining
<1>3. Told' = Told /\ Killed' = Killed
  BY QuietStep
<1> QED
  BY <1>1, <1>2, <1>3 DEF GR!Stop

\* startWorker returns an error: the run closes if it never had a worker, and
\* stops otherwise.
LEMMA StartReturnsErrorRefines ==
  ASSUME SafetyInv, SafetyInv', pc \in Starting, Quiet,
         NEW e, StartReturnsError(e), ~Running(probing) \/ probing = NoPid,
         probing' = NoPid, probing = NoPid \/ phase = "initial",
         generation' \in {generation, generation + 1}
  PROVE  [GR!Next]_(GR!vars)
<1>1. /\ TypeLoop /\ TypeLoop' /\ Life = "open" /\ p = NoPid
      /\ UNCHANGED <<ctxDone, oldWorkers>>
  BY DEF SafetyInv, TypeOK, EarlyInv, CurrentInv, Life, Starting, Released,
     StartReturnsError
<1>2. CASE phase = "initial"
  <2>1. \A w \in Pids : ~Running(w) /\ ~Running(w)'
    BY <1>1, <1>2, NoPidAssumption, WhereWorkersAre
       DEF SafetyInv, EarlyInv, Entries, Quiet
  <2>2. /\ Life' = "closed" /\ InRestart' = "none" /\ Owed' = FALSE
    BY <1>2 DEF StartReturnsError, Life, InRestart, Owed, Released, Starting
  <2> QED
    BY <1>1, <2>1, <2>2, NoProcessNoWorker
       DEF SameWorkers, GR!Close, GR!Next, GR!workers
<1>3. CASE phase # "initial"
  BY <1>1, <1>3, StopStep DEF StartReturnsError, GR!Next
<1> QED
  BY <1>2, <1>3

\* A step invisible to the abstract specification.
LEMMA Invisible ==
  ASSUME TypeLoop, Quiet, SameOld, Life' = Life, InRestart' = InRestart,
         Owed' = Owed, UNCHANGED <<p, probing, generation, ctxDone>>
  PROVE  [GR!Next]_(GR!vars)
  BY SameWorkersStep, StutterStep

\* cmd.Start succeeds: the new process is the candidate.
LEMMA SpawnRefines ==
  ASSUME SafetyInv, SafetyInv', NEW w \in Pids, Spawn(w)
  PROVE  GR!Attempt
<1>1. /\ TypeLoop /\ TypeProc /\ proc[w] = "free" /\ oldWorkers[w] = 0
      /\ p = NoPid /\ p' = NoPid /\ probing = NoPid /\ probing' = w
  BY DEF Spawn, SafetyInv, TypeOK, ProbeInv, CurrentInv, BooksInv, Starting, Released
<1>2. /\ Life = "open" /\ Life' = "open" /\ Owed' = Owed
      /\ InRestart' = InRestart /\ InRestart # "up"
  BY DEF Spawn, SafetyInv, EarlyInv, Life, Owed, InRestart, Starting, Released,
     flagVars, ctlVars
<1>3. /\ \A v \in Pids : v # w => /\ proc'[v] = proc[v] /\ genOf'[v] = genOf[v]
                                  /\ signals'[v] = signals[v]
      /\ proc'[w] = "starting" /\ genOf'[w] = generation + 1 /\ signals'[w] = {}
  BY <1>1 DEF Spawn, TypeProc
<1>4. /\ Current = 0 /\ Current' = 0 /\ Candidate = 0
      /\ Candidate' = generation + 1
  BY <1>1, <1>3, NoPidAssumption DEF Current, Candidate, GenerationOf, Running
<1>5. Told' = Told /\ Killed' = Killed
  BY <1>1, <1>3 DEF Told, Killed, Generations, Running
<1>6. Draining' = Draining
  <2>1. oldWorkers' = oldWorkers
    BY DEF Spawn
  <2> QED
    BY <1>1, <1>2, <1>3, <2>1 DEF Draining, Generations, Entries, Running
<1> QED
  BY <1>2, <1>4, <1>5, <1>6 DEF Spawn, GR!Attempt, ctlVars

\* startWorker returns the process it has probed: the candidate serves.
LEMMA StartReturnsWorkerRefines ==
  ASSUME SafetyInv, SafetyInv', pc = "probe", Quiet, StartReturnsWorker,
         ctxDone \/ Running(probing)
  PROVE  GR!Ready
<1>1. /\ TypeLoop /\ TypeLoop' /\ p = NoPid /\ Life = "open" /\ Life' = "open"
      /\ probing \in Pids /\ genOf[probing] # 0
  BY NoPidAssumption DEF StartReturnsWorker, SafetyInv, TypeOK, TypeLoop, ProbeInv,
     CurrentInv, BooksInv, EarlyInv, Life, Starting, InLoop, Released
<1>2. /\ Current = 0 /\ Candidate' = 0 /\ Current' = Candidate
      /\ Candidate = IF Running(probing) THEN genOf[probing] ELSE 0
  <2>1. Current' = IF proc'[probing] \in {"starting", "live"}
                   THEN genOf'[probing] ELSE 0
    BY <1>1, NoPidAssumption DEF StartReturnsWorker, Current, GenerationOf, Running
  <2>2. Candidate = IF Running(probing) THEN genOf[probing] ELSE 0
    BY <1>1, NoPidAssumption DEF Candidate, GenerationOf
  <2>3. Current = 0 /\ Candidate' = 0
    BY <1>1 DEF StartReturnsWorker, Current, Candidate, GenerationOf
  <2> QED
    BY <1>1, <2>1, <2>2, <2>3 DEF Quiet, Running
<1>3. Draining' = Draining /\ Told' = Told /\ Killed' = Killed
  <2>1. SameOld
    BY DEF StartReturnsWorker, SameOld
  <2> QED
    BY <1>1, <2>1, QuietStep DEF Draining
<1>4. /\ InRestart' = IF InRestart = "begun" THEN "up" ELSE InRestart
      /\ Owed' \in {Owed, Owed /\ InRestart # "none"}
  BY <1>1 DEF StartReturnsWorker, SafetyInv, EarlyInv, TypeOK, TypeRun, TypeLoop, InRestart,
     Owed, Starting
<1> QED
  BY <1>1, <1>2, <1>3, <1>4 DEF StartReturnsWorker, GR!Ready

\* The steps of startWorker.
LEMMA StartRefines ==
  ASSUME SafetyInv, SafetyInv', StartStep
  PROVE  [GR!Next]_(GR!vars)
<1>1. TypeLoop /\ TypeProc
  BY DEF SafetyInv, TypeOK
<1>2. CASE StartCancelled \/ StartFails \/ RetryCancelled
  <2>1. /\ pc \in {"start", "retry"} /\ UNCHANGED <<probing, procVars>>
        /\ generation' \in {generation, generation + 1}
        /\ \E e : StartReturnsError(e)
    BY <1>2 DEF StartCancelled, StartFails, RetryCancelled
  <2>2. probing = NoPid /\ probing' = NoPid /\ Quiet
    BY <1>1, <2>1, WhereWorkersAre, QuietCases DEF procVars
  <2> QED
    BY <2>1, <2>2, StartReturnsErrorRefines DEF Starting
<1>3. CASE StartTransient
  <2>1. /\ Quiet /\ SameOld /\ UNCHANGED <<p, probing, ctxDone>>
        /\ generation' = generation + 1
    BY <1>1, <1>3, QuietCases DEF StartTransient, procVars, ctlVars
  <2>2. /\ Life = "open" /\ Life' = "open" /\ InRestart' = InRestart
        /\ InRestart # "up" /\ Owed' = Owed /\ Current = 0 /\ Candidate = 0
    BY <1>3, WhereWorkersAre DEF StartTransient, SafetyInv, EarlyInv, CurrentInv, Life, InRestart,
       Owed, Current, Candidate, GenerationOf, Starting, Released, flagVars, ctlVars
  <2> QED
    BY <1>1, <2>1, <2>2, SameWorkersStep DEF SameWorkers, GR!Attempt, GR!Next
<1>4. CASE Retry
  <2>1. /\ Quiet /\ SameOld /\ UNCHANGED <<p, probing, generation, ctxDone>>
    BY <1>1, <1>4, QuietCases DEF Retry, procVars, ctlVars, trackVars
  <2>2. Life' = Life /\ InRestart' = InRestart /\ Owed' = Owed
    BY <1>4 DEF Retry, Life, InRestart, Owed, Starting, Released, flagVars, ctlVars
  <2> QED
    BY <1>1, <2>1, <2>2, Invisible
<1>5. ASSUME NEW w \in Pids, Spawn(w) PROVE GR!Next
  BY <1>5, SpawnRefines DEF GR!Next
<1>6. CASE ProbePasses
  <2>1. Quiet /\ Running(probing)
    BY <1>1, <1>6 DEF ProbePasses, StartReturnsWorker, Quiet, Running, TypeProc
  <2> QED
    BY <1>6, <2>1, StartReturnsWorkerRefines DEF ProbePasses, GR!Next
<1>7. CASE ProbeCancelled
  <2>1. Quiet
    BY <1>1, <1>7 DEF ProbeCancelled, StartReturnsWorker, Quiet, Running
  <2> QED
    BY <1>7, <2>1, StartReturnsWorkerRefines DEF ProbeCancelled, GR!Next
<1>8. CASE ProbeFails
  <2>1. /\ pc = "probe" /\ probing \in Pids /\ proc[probing] = "zombie"
        /\ ~Running(probing) /\ probing' = NoPid /\ generation' = generation
    BY <1>8 DEF ProbeFails, SafetyInv, TypeOK, TypeLoop, ProbeInv, Running
  <2>2. Quiet
    BY <1>1, <1>8, <2>1, QuietCases DEF ProbeFails
  <2>3. CASE phase = "initial" /\ cfg.checked
    BY <1>8, <2>1, <2>2, <2>3, StartReturnsErrorRefines
       DEF ProbeFails, Starting, SafetyInv, TypeOK, TypeLoop
  <2>4. CASE ~(phase = "initial" /\ cfg.checked)
    <3>1. /\ pc' = "start"
          /\ UNCHANGED <<phase, p, oldWorkers, hangupPending, hangup, ctxDone>>
      BY <1>8, <2>4 DEF ProbeFails, flagVars, ctlVars
    <3>2. Life' = Life /\ InRestart' = InRestart /\ Owed' = Owed
      BY <2>1, <3>1 DEF Life, InRestart, Owed, Starting, Released
    <3>3. Candidate = 0 /\ Candidate' = 0
      BY <2>1 DEF Candidate, GenerationOf
    <3>4. Current' = Current
      BY <1>1, <3>1, <3>2, <2>2, QuietStep DEF Current, GenerationOf, TypeLoop
    <3>5. Draining' = Draining /\ Told' = Told /\ Killed' = Killed
      BY <1>1, <2>2, <3>1, <3>2, QuietStep, QuietCases DEF Draining
    <3> QED
      BY <2>1, <3>1, <3>2, <3>3, <3>4, <3>5, StutterStep DEF SameWorkers
  <2> QED
    BY <2>3, <2>4
<1> QED
  BY <1>2, <1>3, <1>4, <1>5, <1>6, <1>7, <1>8 DEF StartStep

\* The restart block up to startWorker, entered with no old worker running: the
\* current worker, if it runs, is the old one now, or the run stops.
LEMMA BeginRestartRefines ==
  ASSUME SafetyInv, SafetyInv', pc = "select", Quiet,
         NEW old, NEW sig, BeginRestart(old, sig), old \in [Pids -> Nat],
         \A w \in Pids : Running(w) => oldWorkers[w] = 0 /\ old[w] = 0,
         UNCHANGED <<probing, generation, ctxDone>>,
         pc' = "start" => Owed' \in {Owed, FALSE}
  PROVE  GR!Next
<1>1. /\ TypeLoop /\ TypeLoop' /\ Life = "open" /\ InRestart = "none"
      /\ p \in Pids /\ p' = NoPid /\ probing = NoPid /\ probing' = NoPid
  BY WhereWorkersAre DEF SafetyInv, TypeOK, TypeLoop, CurrentInv, EarlyInv, InLoop,
     Starting, Released, Life, InRestart, BeginRestart
<1>2. CASE pc' = "shutdown"
  BY <1>1, <1>2, StopStep DEF GR!Next
<1>3. CASE pc' = "start" /\ phase' = "restart"
  <2>1. /\ Life' = "open" /\ InRestart' = "begun"
        /\ Candidate = 0 /\ Candidate' = 0 /\ Current' = 0
    BY <1>1, <1>3 DEF Life, InRestart, Candidate, Current, GenerationOf, Starting, Released
  <2>2. Draining = {}
    BY <1>1 DEF Draining, Generations, Entries
  <2>3. Current = (IF Running(p) THEN genOf[p] ELSE 0) /\ (Running(p) => genOf[p] # 0)
    BY <1>1, NoPidAssumption, WhereWorkersAre DEF Current, GenerationOf
  <2>4. \A w \in Pids : Running(w) => (oldWorkers'[w] # 0 <=> w = p)
    <3>1. oldWorkers' = [old EXCEPT ![p] = generation]
      BY <1>1, NoPidAssumption DEF BeginRestart
    <3>2. Running(p) => generation # 0
      <4>1. Running(p) => genOf[p] \in 1..generation
        BY <1>1, WhereWorkersAre, Zenon
      <4>2. generation \in Nat
        BY <1>1 DEF TypeLoop
      <4>3. QED
        BY <4>1, <4>2
    <3> QED
      BY <1>1, <3>1, <3>2
  <2>5. Draining' = {Current} \ {0}
    <3>1. Draining' = {genOf'[w] : w \in {v \in Pids : oldWorkers'[v] # 0 /\ Running(v)'}}
      BY <2>1 DEF Draining, Generations, Entries
    <3>2. \A w \in Pids : oldWorkers'[w] # 0 /\ Running(w)' <=> w = p /\ Running(p)
      BY <2>4 DEF Quiet
    <3>3. CASE Running(p)
      <4>1. Draining' = {genOf[p]}
        BY <1>1, <3>1, <3>2, <3>3 DEF Quiet
      <4> QED
        BY <2>3, <3>3, <4>1
    <3>4. CASE ~Running(p)
      BY <2>3, <3>1, <3>2, <3>4
    <3> QED
      BY <3>3, <3>4
  <2> QED
    BY <1>1, <1>3, <2>1, <2>2, <2>5, QuietStep DEF GR!Retire, GR!Next
<1> QED
  BY <1>2, <1>3 DEF BeginRestart, ReloadAndStart

\* The cases of the select.
LEMMA SelectRefines ==
  ASSUME SafetyInv, SafetyInv', SelectStep
  PROVE  [GR!Next]_(GR!vars)
<1>1. /\ TypeLoop /\ TypeProc /\ Life = "open" /\ InRestart = "none"
      /\ pc = "select" /\ p \in Pids /\ probing = NoPid
      /\ hangup \in BOOLEAN /\ hangupPending \in BOOLEAN
  <2>1. pc = "select"
    BY DEF SelectStep, RecvCurrentExit, RecvOldExit, CtxDone, RecvHangup, RecvTimer
  <2> QED
    BY <2>1, WhereWorkersAre DEF SafetyInv, TypeOK, TypeLoop, TypeRun, CurrentInv,
       EarlyInv, InLoop, Starting, Released, Life, InRestart
<1>2. CASE CtxDone
  BY <1>1, <1>2, StopStep, QuietCases DEF CtxDone, trackVars, procVars, GR!Next
<1>3. ASSUME NEW w \in Pids, RecvCurrentExit(w) PROVE [GR!Next]_(GR!vars)
  <2>1. /\ w = p /\ proc[w] = "reaped" /\ Bury(w) /\ p' = NoPid
        /\ UNCHANGED <<probing, oldWorkers, generation, hangupPending, hangup, ctxDone>>
        /\ \/ pc' = "start" /\ phase' = "respawn"
           \/ pc' = "shutdown"
    BY <1>3 DEF RecvCurrentExit, ReloadAndStart
  <2>2. Quiet /\ SameOld
    BY <1>1, <2>1, QuietCases
  <2>3. CASE pc' = "shutdown"
    BY <1>1, <2>1, <2>2, <2>3, StopStep DEF GR!Next
  <2>4. CASE pc' = "start" /\ phase' = "respawn"
    <3>1. Life' = "open" /\ InRestart' = "none" /\ Owed' = Owed
      BY <1>1, <2>1, <2>4 DEF Life, InRestart, Owed, Starting, Released
    <3>2. Current = 0 /\ Current' = 0 /\ Candidate = 0 /\ Candidate' = 0
      BY <1>1, <2>1 DEF Current, Candidate, GenerationOf, Running
    <3>3. Draining' = Draining /\ Told' = Told /\ Killed' = Killed
      BY <1>1, <2>2, <3>1, QuietStep DEF Draining
    <3> QED
      BY <1>1, <2>1, <3>1, <3>2, <3>3, StutterStep DEF SameWorkers
  <2> QED
    BY <2>1, <2>3, <2>4
<1>4. ASSUME NEW w \in Pids, RecvOldExit(w) PROVE [GR!Next]_(GR!vars)
  <2> DEFINE old == [oldWorkers EXCEPT ![w] = 0]
  <2>1. /\ proc[w] = "reaped" /\ Bury(w) /\ ~Running(w)
        /\ UNCHANGED <<probing, generation, ctxDone>>
    BY <1>4 DEF RecvOldExit, Running
  <2>2. Quiet
    BY <1>1, <2>1, QuietCases
  <2>3. old \in [Pids -> Nat] /\ \A v \in Pids : Running(v) => old[v] = oldWorkers[v]
    BY <1>1, <2>1 DEF TypeLoop
  <2>4. CASE PendingDue(old)
    <3>1. BeginRestart(old, "HUP") /\ hangup' = FALSE /\ hangupPending' = FALSE
      BY <1>4, <2>4 DEF RecvOldExit
    <3>2. Owed' = FALSE
      BY <3>1 DEF Owed
    <3>3. \A v \in Pids : Running(v) => oldWorkers[v] = 0 /\ old[v] = 0
      BY <2>3, <2>4 DEF PendingDue, Entries
    <3> HIDE DEF old
    <3> QED
      BY <1>1, <2>1, <2>2, <2>3, <3>1, <3>2, <3>3, BeginRestartRefines
  <2>5. CASE ~PendingDue(old)
    <3>1. /\ oldWorkers' = old /\ pc' = "top"
          /\ UNCHANGED <<p, phase, hangup, hangupPending>>
      BY <1>4, <2>5 DEF RecvOldExit
    <3>2. Life' = Life /\ InRestart' = InRestart /\ Owed' = Owed
      BY <1>1, <3>1 DEF Life, InRestart, Owed, Starting, Released
    <3>3. SameOld
      BY <2>3, <3>1 DEF SameOld
    <3> QED
      BY <1>1, <2>1, <2>2, <3>1, <3>2, <3>3, Invisible
  <2> QED
    BY <2>4, <2>5
<1>5. CASE RecvHangup \/ RecvTimer
  <2>1. /\ UNCHANGED <<probing, generation, ctxDone, procVars>>
        /\ Quiet
    BY <1>1, <1>5, QuietCases DEF RecvHangup, RecvTimer, procVars
  <2>2. CASE MayRestart
    <3>1. \E sig : BeginRestart(oldWorkers, sig)
      BY <1>5, <2>2 DEF RecvHangup, RecvTimer
    <3>2. pc' = "start" => Owed' \in {Owed, FALSE}
      <4>1. hangupPending' = hangupPending /\ hangup' \in {hangup, FALSE}
        BY <1>5, <2>2 DEF RecvHangup, RecvTimer
      <4>2. pc' = "start" => Life' = "open"
        BY DEF SafetyInv, EarlyInv, Life, Starting, Released
      <4> QED
        BY <1>1, <4>1, <4>2 DEF Owed
    <3>3. \A w \in Pids : Running(w) => oldWorkers[w] = 0
      BY <2>2 DEF MayRestart, Entries
    <3> QED
      BY <1>1, <2>1, <3>1, <3>2, <3>3, BeginRestartRefines DEF TypeLoop
  <2>3. CASE ~MayRestart
    <3>1. /\ pc' = "top" /\ UNCHANGED <<p, phase, oldWorkers>>
          /\ (hangup' \/ hangupPending') = (hangup \/ hangupPending)
      BY <1>1, <1>5, <2>3 DEF RecvHangup, RecvTimer
    <3>2. Life' = Life /\ InRestart' = InRestart /\ Owed' = Owed
      BY <1>1, <3>1 DEF Life, InRestart, Owed, Starting, Released
    <3> QED
      BY <1>1, <2>1, <3>1, <3>2, QuietCases, Invisible
  <2> QED
    BY <2>2, <2>3
<1> QED
  BY <1>2, <1>3, <1>4, <1>5 DEF SelectStep

\* A signal to the old workers reaches those of them that run.
LEMMA SignalTells ==
  ASSUME TypeLoop, TypeProc, NEW sig, NEW ws \in SUBSET Pids,
         Signal(sig, ws), UNCHANGED <<proc, genOf>>
  PROVE  /\ Told' = Told \cup Generations(ws)
         /\ sig = "KILL" => Killed' = Killed \cup Generations(ws)
         /\ sig # "KILL" => Killed' = Killed
<1>1. \A w \in Pids : /\ Running(w)' <=> Running(w)
                      /\ Running(w) => signals'[w] = IF w \in ws THEN signals[w] \cup {sig}
                                                                 ELSE signals[w]
  BY DEF Signal, Running
<1>2. Told' = Told \cup Generations(ws)
  BY <1>1 DEF Told, Generations
<1>3. sig = "KILL" => Killed' = Killed \cup Generations(ws)
  BY <1>1 DEF Killed, Generations
<1>4. sig # "KILL" => Killed' = Killed
  BY <1>1 DEF Killed, Generations
<1> QED
  BY <1>2, <1>3, <1>4

\* The end of the restart block.
LEMMA KillOldRefines ==
  ASSUME SafetyInv, KillOld
  PROVE  GR!Tell
<1>1. /\ TypeLoop /\ TypeProc /\ Life = "open" /\ Life' = "open"
      /\ InRestart = "up" /\ InRestart' = "none" /\ Owed' \in {Owed, FALSE}
  BY DEF SafetyInv, TypeOK, TypeLoop, TypeRun, EarlyInv, KillOld, Life, InRestart, Owed, InLoop,
     Starting, Released, flagVars
<1>2. /\ Signal("HUP", Entries(oldWorkers)) /\ UNCHANGED <<proc, genOf>>
      /\ UNCHANGED <<p, probing, oldWorkers, generation, ctxDone>>
  BY DEF KillOld, trackVars
<1>3. Told' = Told \cup Draining /\ Killed' = Killed
  BY <1>1, <1>2, SignalTells DEF Draining, Entries
<1>4. Current' = Current /\ Candidate' = Candidate /\ Draining' = Draining
  BY <1>1, <1>2 DEF Current, Candidate, Draining, GenerationOf, Generations, Running,
     Entries
<1> QED
  BY <1>1, <1>2, <1>3, <1>4 DEF GR!Tell, GR!workers

\* shutdownWorkers: both signals go to every worker that runs, and it returns
\* when none is left but those that were killed.
LEMMA ShutdownRefines ==
  ASSUME SafetyInv, SafetyInv', ShutdownStep
  PROVE  [GR!Next]_(GR!vars)
<1>1. /\ TypeLoop /\ TypeProc /\ pc \in {"shutdown", "drain", "reap"}
      /\ UNCHANGED <<p, probing, generation, ctxDone>> /\ probing = NoPid
  <2>1. /\ pc \in {"shutdown", "drain", "reap"}
        /\ UNCHANGED <<p, probing, generation, ctxDone>>
    BY DEF ShutdownStep, Shutdown, WaitExit, WaitTimeout, ShutdownReturns,
       trackVars, ctlVars
  <2> QED
    BY <2>1, WhereWorkersAre DEF SafetyInv, TypeOK
<1>2. /\ Life = "stopping" /\ InRestart = "none" /\ Owed = FALSE
      /\ Current = 0 /\ Candidate = 0 /\ Candidate' = 0
      /\ Draining = Generations(Pids)
  BY <1>1 DEF Life, InRestart, Owed, Current, Candidate, Draining, GenerationOf,
     Released, Starting
<1>3. CASE Shutdown \/ WaitTimeout
  <2>1. /\ Life' = "stopping" /\ InRestart' = "none" /\ Owed' = FALSE /\ Current' = 0
        /\ UNCHANGED <<proc, genOf>>
    BY <1>3 DEF Shutdown, WaitTimeout, Life, InRestart, Owed, Current, Released, Starting
  <2>2. Draining' = Draining
    BY <1>2, <2>1 DEF Draining, Generations, Running
  <2>3. PICK sig \in {"TERM", "KILL"} : Signal(sig, Entries(oldWorkers'))
    BY <1>3 DEF Shutdown, WaitTimeout, SafetyInv, ShutdownInv, Entries, trackVars
  <2>4. \A w \in Pids : Running(w) => w \in Entries(oldWorkers')
    BY <1>3, <2>1 DEF Shutdown, WaitTimeout, SafetyInv, ShutdownInv, Entries, Running
  <2>5. Generations(Entries(oldWorkers')) = Draining
    BY <1>2, <2>4 DEF Generations, Entries
  <2>6. Told \subseteq Draining /\ Killed \subseteq Draining
    BY <1>2 DEF Told, Killed, Generations
  <2>7. Told' = Draining /\ Killed' \in {Killed, Draining}
    <3>1. Entries(oldWorkers') \in SUBSET Pids
      BY DEF Entries
    <3> HIDE DEF Entries
    <3> QED
      BY <1>1, <2>1, <2>3, <2>5, <2>6, <3>1, SignalTells
  <2> QED
    BY <1>1, <1>2, <2>1, <2>2, <2>7 DEF GR!Terminate, GR!Next, GR!workers
<1>4. ASSUME NEW w \in Pids, WaitExit(w) PROVE [GR!Next]_(GR!vars)
  <2>1. /\ proc[w] = "reaped" /\ Bury(w) /\ UNCHANGED <<pc, phase, ctlVars>>
        /\ oldWorkers' = [oldWorkers EXCEPT ![w] = 0]
    BY <1>4 DEF WaitExit
  <2>2. Quiet /\ SameOld
    BY <1>1, <2>1, QuietCases DEF SameOld, Running, TypeLoop
  <2>3. Life' = Life /\ InRestart' = InRestart /\ Owed' = Owed
    BY <1>1, <2>1 DEF Life, InRestart, Owed, Released
  <2> QED
    BY <1>1, <2>2, <2>3, Invisible
<1>5. CASE ShutdownReturns
  <2>1. /\ Life' = "closed" /\ InRestart' = "none" /\ Owed' = FALSE /\ Current' = 0
        /\ UNCHANGED <<proc, genOf, signals, oldWorkers>>
    BY <1>5 DEF ShutdownReturns, Life, InRestart, Owed, Current, Released, Starting,
       procVars, trackVars
  <2>2. Draining' = Draining /\ Told' = Told /\ Killed' = Killed
    BY <1>1, <1>2, <2>1, QuietCases, QuietStep DEF Draining
  <2>3. \A w \in Pids : Running(w) => "KILL" \in signals[w]
    BY <1>5, <2>1 DEF ShutdownReturns, SafetyInv, KilledBeforeRelease, Released, Running
  <2>4. GR!Alive \subseteq Killed
    BY <1>2, <2>3 DEF GR!Alive, Killed, Generations
  <2> QED
    BY <1>1, <1>2, <2>1, <2>2, <2>4 DEF GR!Close, GR!Next, GR!workers
<1> QED
  BY <1>3, <1>4, <1>5 DEF ShutdownStep

\* A worker exits: it is no longer among the workers, nor among those told.
LEMMA WorkerExitsRefines ==
  ASSUME SafetyInv, NEW w \in Pids, WorkerExits(w)
  PROVE  GR!Next
<1>1. /\ TypeLoop /\ TypeProc /\ Running(w)
      /\ proc' = [proc EXCEPT ![w] = "zombie"]
      /\ UNCHANGED <<pc, phase, trackVars, flagVars, ctlVars, genOf, signals>>
  BY DEF SafetyInv, TypeOK, WorkerExits
<1>2. /\ Life' = Life /\ InRestart' = InRestart /\ Owed' = Owed
      /\ UNCHANGED <<p, probing, oldWorkers, generation, ctxDone>>
  BY <1>1 DEF Life, InRestart, Owed, trackVars, flagVars, ctlVars
<1>3. \A v \in Pids : Running(v)' <=> Running(v) /\ v # w
  BY <1>1 DEF TypeProc, Running
<1>4. \A v \in Pids : Running(v) /\ genOf[v] = genOf[w] => v = w
  <2>1. genOf[w] # 0
    <3>1. genOf[w] \in 1..generation
      BY <1>1, WhereWorkersAre, Zenon
    <3>2. QED
      BY <3>1
  <2> QED
    BY <2>1 DEF SafetyInv, BooksInv
<1>5. ASSUME NEW ws \in SUBSET Pids
      PROVE  {genOf[v] : v \in {u \in ws : Running(u) /\ u # w}}
               = Generations(ws) \ {genOf[w]}
  BY <1>1, <1>4 DEF Generations
<1>6. Draining' = Draining \ {genOf[w]}
  <2>1. Draining' = {genOf[v] : v \in {u \in (IF Life = "open" THEN Entries(oldWorkers)
                                              ELSE Pids) : Running(u) /\ u # w}}
    BY <1>1, <1>2, <1>3 DEF Draining, Generations, Entries
  <2>2. (IF Life = "open" THEN Entries(oldWorkers) ELSE Pids) \in SUBSET Pids
    BY DEF Entries
  <2> QED
    BY <1>5, <2>1, <2>2 DEF Draining
<1>7. Told' = Told \ {genOf[w]}
  BY <1>1, <1>3, <1>4 DEF Told, Generations
<1>8. Killed' = Killed \ {genOf[w]}
  BY <1>1, <1>3, <1>4 DEF Killed, Generations
<1>9. \A v \in Pids \cup {NoPid} :
        (IF v # NoPid /\ Running(v)' THEN genOf[v] ELSE 0)
          = IF genOf[w] = GenerationOf(v) THEN 0 ELSE GenerationOf(v)
  BY <1>1, <1>3, <1>4, NoPidAssumption DEF GenerationOf
<1>10. /\ Current' = IF genOf[w] = Current THEN 0 ELSE Current
       /\ Candidate' = IF genOf[w] = Candidate THEN 0 ELSE Candidate
  <2>1. Candidate' = IF probing # NoPid /\ proc'[probing] \in {"starting", "live"}
                     THEN genOf[probing] ELSE 0
    BY <1>1, <1>2 DEF Candidate, GenerationOf, Running
  <2>2. Current' = IF Life = "open"
                   THEN IF p # NoPid /\ proc'[p] \in {"starting", "live"} THEN genOf[p] ELSE 0
                   ELSE 0
    BY <1>1, <1>2 DEF Current, GenerationOf, Running
  <2> QED
    BY <1>1, <1>9, <2>1, <2>2 DEF Current, Candidate, TypeLoop, Running
<1>11. genOf[w] \in GR!Alive
  <2>1. genOf[w] # 0
    <3>1. genOf[w] \in 1..generation
      BY <1>1, WhereWorkersAre, Zenon
    <3>2. QED
      BY <3>1
  <2>2. CASE Life = "open"
    BY <1>1, <2>2, OpenWorkers DEF Generations
  <2>3. CASE Life # "open"
    BY <1>1, <2>1, <2>3 DEF Draining, Generations, GR!Alive
  <2> QED
    BY <2>2, <2>3
<1> QED
  BY <1>2, <1>6, <1>7, <1>8, <1>10, <1>11 DEF GR!Exit, GR!Next

\* Every step of the supervisor is a step of the abstract specification.
LEMMA NextRefines ==
  ASSUME SafetyInv, SafetyInv', SetupInv, [Next]_vars
  PROVE  [GR!Next]_(GR!vars)
<1>1. TypeLoop /\ TypeProc
  BY DEF SafetyInv, TypeOK
<1>2. CASE Top \/ RunReturn \/ TimerFires \/ Exited \/ UNCHANGED vars
  <2>1. /\ UNCHANGED <<phase, p, probing, oldWorkers, generation, hangupPending, ctxDone,
                       hangup, proc, genOf, signals>>
        /\ pc' = pc \/ (pc = "top" /\ pc' = "select")
    BY <1>2 DEF Top, RunReturn, TimerFires, Exited, vars, trackVars, flagVars, ctlVars,
       procVars
  <2>2. Life' = Life /\ InRestart' = InRestart /\ Owed' = Owed
    BY <2>1 DEF Life, InRestart, Owed, Released, Starting
  <2> QED
    BY <1>1, <2>1, <2>2, QuietCases, Invisible
<1>3. CASE ReleaseStep
  <2>1. /\ UNCHANGED <<trackVars, flagVars, ctlVars, procVars>>
        /\ pc \in Released /\ pc' \in Released
    BY <1>3 DEF ReleaseStep, ReleasePIDFile, RemoveStatus, CloseListeners, Finish, Released
  <2>2. Life' = Life /\ InRestart' = InRestart /\ Owed' = Owed
    BY <2>1 DEF Life, InRestart, Owed, Released, Starting
  <2> QED
    BY <1>1, <2>1, <2>2, QuietCases, Invisible DEF trackVars, ctlVars, procVars
<1>4. ASSUME NEW w \in Pids, Waiter(w) PROVE [GR!Next]_(GR!vars)
  <2>1. /\ UNCHANGED <<pc, phase, trackVars, flagVars, ctlVars>> /\ Quiet
    BY <1>1, <1>4, QuietCases DEF Waiter, Reap, WaiterAbandons
  <2>2. Life' = Life /\ InRestart' = InRestart /\ Owed' = Owed
    BY <2>1 DEF Life, InRestart, Owed, flagVars, ctlVars
  <2> QED
    BY <1>1, <2>1, <2>2, QuietCases, Invisible DEF trackVars, ctlVars
<1>5. CASE Hangup
  <2>1. /\ UNCHANGED <<pc, phase, trackVars, procVars, ctxDone>> /\ hangup' = TRUE
        /\ Quiet /\ SameOld
    BY <1>1, <1>5, QuietCases DEF Hangup, procVars, trackVars
  <2>2. Life' = Life /\ InRestart' = InRestart
    BY <2>1 DEF Life, InRestart
  <2>3. SameWorkers
    BY <1>1, <2>1, <2>2, SameWorkersStep DEF trackVars
  <2>4. CASE Life = "open"
    BY <2>1, <2>2, <2>3, <2>4 DEF Owed, SameWorkers, GR!Request, GR!Next, GR!workers,
       trackVars
  <2>5. CASE Life # "open"
    BY <2>1, <2>2, <2>3, <2>5, StutterStep DEF Owed, trackVars
  <2> QED
    BY <2>4, <2>5
<1>6. CASE Cancel
  <2>1. /\ UNCHANGED <<pc, phase, trackVars, flagVars, procVars, hangup>> /\ ctxDone' = TRUE
        /\ Quiet /\ SameOld
    BY <1>1, <1>6, QuietCases DEF Cancel, procVars, trackVars
  <2>2. Life' = Life /\ InRestart' = InRestart /\ Owed' = Owed
    BY <2>1 DEF Life, InRestart, Owed, flagVars
  <2>3. SameWorkers
    BY <1>1, <2>1, <2>2, SameWorkersStep DEF trackVars
  <2> QED
    BY <2>1, <2>2, <2>3 DEF SameWorkers, GR!Cancel, GR!Next, GR!workers, trackVars
<1>7. KillOld => GR!Next
  BY KillOldRefines DEF GR!Next
<1> QED
  BY <1>2, <1>3, <1>4, <1>5, <1>6, <1>7, SetupRefines, StartRefines, SelectRefines,
     ShutdownRefines, WorkerExitsRefines DEF Next, LoopStep, Environment

\* A run of the supervisor implements the specification of graceful restarts:
\* every step of loop, startWorker, their goroutines and the workers is a step
\* GracefulRestart allows, or changes nothing it speaks of.
THEOREM SupervisorImplements == Spec => ImplementsGracefulRestart
<1>1. Init => GR!Init
  BY DEF Init, GR!Init, Life, Current, Candidate, Draining, Told, Killed, InRestart, Owed,
     Generations, GenerationOf, Running, Released, Starting
<1>2. Init => SetupInv
  BY DEF Init, SetupInv
<1> QED
  BY <1>1, <1>2, AlwaysSafetyInv, SetupInvStep, NextRefines, PTL
     DEF Spec, GR!Spec, ImplementsGracefulRestart

\* What GracefulRestart says of order is inductive together with StageInv.
LEMMA OrderlyStep ==
  GR!TypeOK /\ GR!Orderly /\ GR!StageInv /\ [GR!Next]_(GR!vars)
    => GR!TypeOK' /\ GR!Orderly' /\ GR!StageInv'
<1> SUFFICES ASSUME GR!TypeOK, GR!Orderly, GR!StageInv, [GR!Next]_(GR!vars)
             PROVE  GR!TypeOK' /\ GR!Orderly' /\ GR!StageInv'
  OBVIOUS
<1> USE DEF GR!TypeOK, GR!Orderly, GR!StageInv
<1>1. CASE GR!Open
  BY <1>1 DEF GR!Open, GR!workers
<1>2. CASE GR!Attempt
  BY <1>2 DEF GR!Attempt
<1>3. CASE GR!Ready
  BY <1>3 DEF GR!Ready
<1>4. CASE GR!Retire
  BY <1>4 DEF GR!Retire
<1>5. CASE GR!Tell
  BY <1>5 DEF GR!Tell, GR!workers
<1>6. CASE GR!Request
  BY <1>6 DEF GR!Request, GR!workers
<1>7. CASE GR!Cancel
  BY <1>7 DEF GR!Cancel, GR!workers
<1>8. CASE GR!Stop
  BY <1>8 DEF GR!Stop, GR!Alive
<1>9. CASE GR!Terminate
  BY <1>9 DEF GR!Terminate, GR!workers
<1>10. CASE GR!Close
  BY <1>10 DEF GR!Close, GR!workers, GR!Alive
<1>11. ASSUME NEW g \in GR!Alive, GR!Exit(g)
       PROVE  GR!TypeOK' /\ GR!Orderly' /\ GR!StageInv'
  BY <1>11 DEF GR!Exit, GR!Alive
<1>12. CASE UNCHANGED GR!vars
  BY <1>12 DEF GR!vars, GR!workers
<1> QED
  BY <1>1, <1>2, <1>3, <1>4, <1>5, <1>6, <1>7, <1>8, <1>9, <1>10, <1>11, <1>12
     DEF GR!Next

\* A run that behaves as specified signals only workers that have a successor,
\* one at a time, until it stops.
THEOREM OrderlyRestarts == GR!Spec => []GR!Orderly
<1>1. GR!Init => GR!TypeOK /\ GR!Orderly /\ GR!StageInv
  BY DEF GR!Init, GR!TypeOK, GR!Orderly, GR!StageInv
<1> QED
  BY <1>1, OrderlyStep, PTL DEF GR!Spec

\* So what is proved of the abstract specification holds of the processes: only
\* a replaced worker is signalled, and in a restart not before its successor.
THEOREM WorkersOrderly == Spec => []OrderlyWorkers
  BY SupervisorImplements, OrderlyRestarts, PTL
     DEF ImplementsGracefulRestart, OrderlyWorkers

\* SIGHUP delivered to Controller.Hangup is a request, or one of several.
LEMMA DeliverRefines ==
  ASSUME SafetyInv, DeliverHangup
  PROVE  [GR!Next]_(GR!vars)
<1>1. TypeLoop /\ TypeProc
  BY DEF SafetyInv, TypeOK
<1>2. /\ UNCHANGED <<pc, phase, trackVars, procVars, ctxDone>>
      /\ hangup' = TRUE
  BY DEF DeliverHangup
<1>3. Quiet /\ SameOld
  BY <1>1, <1>2, QuietCases DEF procVars, trackVars
<1>4. Life' = Life /\ InRestart' = InRestart
  BY <1>2 DEF Life, InRestart
<1>5. SameWorkers
  BY <1>1, <1>2, <1>3, <1>4, SameWorkersStep DEF trackVars
<1>6. CASE Life = "open"
  BY <1>2, <1>4, <1>5, <1>6 DEF Owed, SameWorkers, GR!Request, GR!Next,
     GR!workers, trackVars
<1>7. CASE Life # "open"
  BY <1>2, <1>4, <1>5, <1>7, StutterStep DEF Owed, trackVars
<1> QED
  BY <1>6, <1>7

\* The run that is restarted implements the specification as well, however many
\* callers send it SIGHUP, at whatever moment.
THEOREM RestartImplements == RestartSpec => ImplementsGracefulRestart
<1>1. RestartInit => GR!Init
  BY DEF RestartInit, Init, GR!Init, Life, Current, Candidate, Draining, Told,
     Killed, InRestart, Owed, Generations, GenerationOf, Running, Released,
     Starting
<1>2. RestartInit => SetupInv
  BY DEF RestartInit, Init, SetupInv
<1>3. RestartInv /\ RestartInv' => SafetyInv /\ SafetyInv'
  BY DEF RestartInv
<1>4. [RestartNext]_restartVars => [Next]_vars \/ DeliverHangup
  BY DEF RestartNext, restartVars, CallerStep, Open, ReadPrevious, SendHangup,
     Poll, Expire
<1>5. SafetyInv /\ SetupInv /\ DeliverHangup => SetupInv'
  BY DEF SetupInv, DeliverHangup, runVars
<1>6. RestartInv /\ RestartInv' /\ SetupInv /\ [RestartNext]_restartVars
        => SetupInv' /\ [GR!Next]_(GR!vars)
  BY <1>3, <1>4, <1>5, SetupInvStep, NextRefines, DeliverRefines
<1> QED
  BY <1>1, <1>2, <1>6, AlwaysRestartInv, PTL
     DEF RestartSpec, GR!Spec, ImplementsGracefulRestart
=============================================================================
