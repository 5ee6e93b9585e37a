--------------------------- MODULE HandoverProofs ---------------------------
(***************************************************************************)
(* Proofs that supervisors which follow one another over one pid file and  *)
(* one status file keep the status file truthful, for any number of them   *)
(* and any number of workers and crashes.                                  *)
(***************************************************************************)
EXTENDS Handover, TLAPS

(* What a step of a supervisor does to the others: nothing, but that the    *)
(* pid file may pass to it or from it.                                      *)
LEMMA SupervisorFrame ==
  ASSUME HandoverTypes, NEW s \in Supervisors, SupervisorStep(s)
  PROVE  /\ UNCHANGED callerVars
         /\ HandoverTypes'
         /\ \A r \in Supervisors : r # s =>
              /\ spc'[r] = spc[r] /\ generation'[r] = generation[r]
              /\ oldWorkers'[r] = oldWorkers[r] /\ worker'[r] = worker[r]
<1> DEFINE Others == \A r \in Supervisors : r # s =>
              /\ spc'[r] = spc[r] /\ generation'[r] = generation[r]
              /\ oldWorkers'[r] = oldWorkers[r] /\ worker'[r] = worker[r]
<1> USE DEF HandoverTypes, Goto, Serving, runVars
<1>1. UNCHANGED callerVars
  BY DEF SupervisorStep, Acquire, SetupFails, StartFirst, Write,
     ReplaceWorker, BeginRestart, Shutdown, KillRemaining,
     ReleasePIDFile, Teardown, Crash, OldWorkerExit, DrainExit,
     WorkerExits
<1>2. CASE Acquire(s) \/ SetupFails(s) \/ ReleasePIDFile(s) \/ Write(s)
  BY <1>1, <1>2 DEF Acquire, SetupFails, ReleasePIDFile, Write
<1>3. ASSUME NEW old \in SUBSET Nat, StartWorker(s, old), Goto(s, "write")
      PROVE  HandoverTypes' /\ Others
  <2>1. PICK g \in Generations :
          /\ g > generation[s] /\ generation' = [generation EXCEPT ![s] = g]
          /\ worker' = [worker EXCEPT ![s][g] = "running"]
    BY <1>3 DEF StartWorker
  <2>2. oldWorkers' = [oldWorkers EXCEPT ![s] = old]
    BY <1>3 DEF StartWorker
  <2>3. g \in Nat
    BY DEF Generations
  <2>4. QED
    BY <1>3, <2>1, <2>2, <2>3
<1>4. CASE StartFirst(s) \/ ReplaceWorker(s) \/ BeginRestart(s)
  <2>1. PICK old \in SUBSET Nat : StartWorker(s, old)
    BY <1>4 DEF StartFirst, ReplaceWorker, BeginRestart
  <2>2. Goto(s, "write")
    BY <1>4 DEF StartFirst, ReplaceWorker, BeginRestart
  <2> HIDE DEF Goto, HandoverTypes
  <2>3. QED
    BY <1>1, <1>3, <2>1, <2>2
<1>5. CASE Shutdown(s)
  BY <1>1, <1>5 DEF Shutdown
<1>6. CASE KillRemaining(s)
  <2> DEFINE left == [g \in Generations |->
                        IF g \in oldWorkers[s] THEN "dead" ELSE worker[s][g]]
  <2>1. /\ worker' = [worker EXCEPT ![s] = left]
        /\ UNCHANGED <<generation, oldWorkers>> /\ Goto(s, "reap")
    BY <1>6 DEF KillRemaining
  <2>2. left \in [Generations -> {"none", "running", "dead"}]
    OBVIOUS
  <2> HIDE DEF left
  <2>3. QED
    BY <1>1, <2>1, <2>2
<1>7. CASE Teardown(s) \/ Crash(s)
  BY <1>1, <1>7 DEF Teardown, Crash, Forget
<1>8. ASSUME NEW g \in Generations,
             OldWorkerExit(s, g) \/ DrainExit(s, g) \/ WorkerExits(s, g)
      PROVE  HandoverTypes' /\ Others
  <2>1. CASE OldWorkerExit(s, g) \/ DrainExit(s, g)
    BY <2>1 DEF OldWorkerExit, DrainExit
  <2>2. CASE WorkerExits(s, g)
    BY <2>2 DEF WorkerExits
  <2>3. QED
    BY <1>8, <2>1, <2>2
<1>9. QED
  BY <1>1, <1>2, <1>4, <1>5, <1>6, <1>7, <1>8 DEF SupervisorStep

(* The pid file has the owner that has taken it and not released it.        *)
LEMMA OwnerStep ==
  ASSUME HandoverTypes, OwnerInv, NEW s \in Supervisors, SupervisorStep(s)
  PROVE  OwnerInv'
<1> USE DEF HandoverTypes, Goto
<1> SUFFICES ASSUME NEW r \in Supervisors, spc'[r] \in Serving \cup {"setup"}
             PROVE  owner' = r
  BY DEF OwnerInv
<1>1. CASE Acquire(s)
  BY <1>1, NoOneAssumption DEF Acquire, OwnerInv, Serving
<1>2. CASE SetupFails(s) \/ ReleasePIDFile(s)
  BY <1>2 DEF SetupFails, ReleasePIDFile, Drained, OwnerInv, Serving
<1>3. CASE StartFirst(s) \/ ReplaceWorker(s) \/ BeginRestart(s) \/ Write(s)
           \/ Shutdown(s) \/ KillRemaining(s)
  BY <1>3 DEF StartFirst, ReplaceWorker, BeginRestart, Write,
     Shutdown, KillRemaining, OwnerInv, Serving
<1>4. CASE Teardown(s) \/ Crash(s)
  BY <1>4 DEF Teardown, Crash, OwnerInv, Serving
<1>5. ASSUME NEW g \in Generations,
             OldWorkerExit(s, g) \/ DrainExit(s, g) \/ WorkerExits(s, g)
      PROVE  owner' = r
  BY <1>5 DEF OldWorkerExit, DrainExit, WorkerExits, OwnerInv,
     Serving
<1>6. QED
  BY <1>1, <1>2, <1>3, <1>4, <1>5 DEF SupervisorStep

(* The books of a supervisor that serves: its workers, and no others.       *)
LEMMA BooksStep ==
  ASSUME HandoverTypes, CountInv, WorkersInv, NEW s \in Supervisors,
         SupervisorStep(s)
  PROVE  CountInv' /\ WorkersInv'
<1> DEFINE
      Count == spc'[s] \in Serving =>
        /\ generation'[s] \in Generations
        /\ \A g \in oldWorkers'[s] : g \in Generations /\ g <= generation'[s]
      Books == \A g \in Generations : worker'[s][g] = "running" =>
        /\ spc'[s] \in {"write", "select", "drain", "crashed"}
        /\ spc'[s] \in {"write", "select"} =>
             g \in oldWorkers'[s] \cup {generation'[s]}
        /\ spc'[s] = "drain" => g \in oldWorkers'[s]
<1>1. Count /\ Books => CountInv' /\ WorkersInv'
  BY SupervisorFrame DEF CountInv, WorkersInv
<1>2. /\ spc[s] \in Serving =>
           /\ generation[s] \in Generations
           /\ \A g \in oldWorkers[s] : g \in Generations /\ g <= generation[s]
      /\ \A g \in Generations : worker[s][g] = "running" =>
           /\ spc[s] \in {"write", "select", "drain", "crashed"}
           /\ spc[s] \in {"write", "select"} =>
                g \in oldWorkers[s] \cup {generation[s]}
           /\ spc[s] = "drain" => g \in oldWorkers[s]
  BY DEF CountInv, WorkersInv
<1> HIDE DEF Count, Books
<1> USE DEF HandoverTypes, Goto, Serving, runVars
<1>3. CASE Acquire(s) \/ SetupFails(s) \/ ReleasePIDFile(s) \/ Write(s)
  BY <1>1, <1>2, <1>3 DEF Acquire, SetupFails, ReleasePIDFile,
     Drained, Write,
     Count, Books
<1>4. ASSUME NEW old, StartWorker(s, old), Goto(s, "write"),
             \A g \in old : g \in Generations /\ g <= generation[s],
             \A g \in Generations : worker[s][g] = "running" => g \in old
      PROVE  Count /\ Books
  <2>1. PICK g \in Generations :
          /\ g > generation[s] /\ generation' = [generation EXCEPT ![s] = g]
          /\ worker' = [worker EXCEPT ![s][g] = "running"]
    BY <1>4 DEF StartWorker
  <2>2. oldWorkers'[s] = old /\ spc'[s] = "write" /\ generation'[s] = g
    BY <1>4, <2>1 DEF StartWorker
  <2>3. \A h \in Generations : h # g => worker'[s][h] = worker[s][h]
    BY <2>1
  <2>4. Books
    BY <1>4, <2>2, <2>3 DEF Books
  <2>5. g \in Nat /\ generation[s] \in Nat /\ \A h \in Generations : h \in Nat
    BY DEF Generations
  <2>6. ASSUME NEW h \in old PROVE h \in Generations /\ h <= g
    <3>1. h \in Generations /\ h <= generation[s]
      BY <1>4
    <3>2. QED
      BY <2>1, <2>5, <3>1
  <2>7. Count
    BY <2>2, <2>6 DEF Count
  <2>8. QED
    BY <2>4, <2>7
<1>5. CASE StartFirst(s)
  <2>1. StartWorker(s, {}) /\ Goto(s, "write") /\ spc[s] = "setup"
    BY <1>5 DEF StartFirst
  <2>2. \A g \in Generations : worker[s][g] # "running"
    BY <1>2, <2>1
  <2> HIDE DEF Goto
  <2>3. QED
    BY <1>1, <1>4, <2>1, <2>2
<1>6. CASE ReplaceWorker(s)
  <2>1. /\ StartWorker(s, oldWorkers[s]) /\ Goto(s, "write")
        /\ spc[s] = "select" /\ worker[s][generation[s]] = "dead"
    BY <1>6 DEF ReplaceWorker
  <2>2. \A g \in Generations : worker[s][g] = "running" => g \in oldWorkers[s]
    BY <1>2, <2>1
  <2>3. \A g \in oldWorkers[s] : g \in Generations /\ g <= generation[s]
    BY <1>2, <2>1
  <2> HIDE DEF Goto
  <2>4. QED
    BY <1>1, <1>4, <2>1, <2>2, <2>3
<1>7. CASE BeginRestart(s)
  <2>1. /\ StartWorker(s, {generation[s]}) /\ Goto(s, "write")
        /\ spc[s] = "select" /\ oldWorkers[s] = {}
    BY <1>7 DEF BeginRestart
  <2>2. \A g \in Generations : worker[s][g] = "running" => g \in {generation[s]}
    BY <1>2, <2>1
  <2>3. \A g \in {generation[s]} : g \in Generations /\ g <= generation[s]
    BY <1>2, <2>1 DEF Generations
  <2> HIDE DEF Goto
  <2>4. QED
    BY <1>1, <1>4, <2>1, <2>2, <2>3
<1>8. CASE Shutdown(s)
  BY <1>1, <1>2, <1>8 DEF Shutdown, Count, Books, Generations
<1>9. CASE KillRemaining(s)
  BY <1>1, <1>2, <1>9 DEF KillRemaining, Count, Books
<1>10. CASE Teardown(s) \/ Crash(s)
  BY <1>1, <1>2, <1>10 DEF Teardown, Crash, Count, Books
<1>11. ASSUME NEW g \in Generations,
              OldWorkerExit(s, g) \/ DrainExit(s, g) \/ WorkerExits(s, g)
       PROVE  Count /\ Books
  <2>1. CASE OldWorkerExit(s, g) \/ DrainExit(s, g)
    BY <1>2, <2>1 DEF OldWorkerExit, DrainExit, Count, Books
  <2>2. CASE WorkerExits(s, g)
    BY <1>2, <2>2 DEF WorkerExits, Count, Books
  <2>3. QED
    BY <1>11, <2>1, <2>2
<1>12. QED
  BY <1>1, <1>3, <1>5, <1>6, <1>7, <1>8, <1>9, <1>10, <1>11 DEF
     SupervisorStep

(* No supervisor gives out a generation again that a status has listed.     *)
LEMMA KnownStep ==
  ASSUME HandoverTypes, NEW s \in Supervisors, SupervisorStep(s),
         NEW m, Known(m)
  PROVE  /\ Known(m)'
         /\ \A g \in DOMAIN m :
              worker'[m[g]][g] = "running" => worker[m[g]][g] = "running"
         /\ \A g \in DOMAIN m : spc'[m[g]] \in Serving => spc[m[g]] \in Serving
         /\ \A g \in DOMAIN m : spc[m[g]] = "crashed" => spc'[m[g]] = "crashed"
<1> SUFFICES ASSUME NEW g \in DOMAIN m
             PROVE  /\ spc'[m[g]] \notin {"idle", "setup"}
                    /\ spc'[m[g]] \in Serving =>
                         spc[m[g]] \in Serving /\ g <= generation'[m[g]]
                    /\ worker'[m[g]][g] = "running" => worker[m[g]][g] = "running"
                    /\ spc[m[g]] = "crashed" => spc'[m[g]] = "crashed"
  BY DEF Known
<1>1. /\ g \in Generations /\ m[g] \in Supervisors
      /\ spc[m[g]] \notin {"idle", "setup"}
      /\ spc[m[g]] \in Serving => g <= generation[m[g]]
  BY DEF Known
<1>2. CASE m[g] # s
  BY <1>1, <1>2, SupervisorFrame
<1>3. CASE m[g] = s
  <2> USE DEF HandoverTypes, Goto, Serving, runVars
  <2>1. CASE Acquire(s) \/ SetupFails(s) \/ StartFirst(s)
    BY <1>1, <1>3, <2>1 DEF Acquire, SetupFails, StartFirst
  <2>2. CASE ReleasePIDFile(s) \/ Write(s)
    BY <1>1, <1>3, <2>2 DEF ReleasePIDFile, Drained, Write
  <2>3. CASE ReplaceWorker(s) \/ BeginRestart(s)
    <3>1. /\ spc[s] = "select" /\ spc'[s] = "write"
          /\ \E old : StartWorker(s, old)
      BY <2>3 DEF ReplaceWorker, BeginRestart
    <3>2. PICK h \in Generations :
            /\ h > generation[s] /\ generation'[s] = h
            /\ worker' = [worker EXCEPT ![s][h] = "running"]
      BY <3>1 DEF StartWorker
    <3>3. g \in Nat /\ h \in Nat /\ generation[s] \in Nat /\ g <= generation[s]
      BY <1>1, <1>3, <3>1 DEF Generations
    <3>4. g <= h /\ g # h
      BY <3>2, <3>3
    <3>5. worker'[s][g] = worker[s][g]
      BY <1>1, <3>2, <3>4
    <3>6. QED
      BY <1>3, <3>1, <3>2, <3>4, <3>5
  <2>4. CASE Shutdown(s)
    BY <1>1, <1>3, <2>4 DEF Shutdown
  <2>5. CASE KillRemaining(s)
    BY <1>1, <1>3, <2>5 DEF KillRemaining
  <2>6. CASE Teardown(s) \/ Crash(s)
    BY <1>1, <1>3, <2>6 DEF Teardown, Crash
  <2>7. ASSUME NEW h \in Generations,
               OldWorkerExit(s, h) \/ DrainExit(s, h) \/ WorkerExits(s, h)
        PROVE  /\ spc'[s] \notin {"idle", "setup"}
               /\ spc'[s] \in Serving =>
                    spc[s] \in Serving /\ g <= generation'[s]
               /\ worker'[s][g] = "running" => worker[s][g] = "running"
               /\ spc[s] = "crashed" => spc'[s] = "crashed"
    BY <1>1, <1>3, <2>7 DEF OldWorkerExit, DrainExit, WorkerExits
  <2>8. QED
    BY <1>3, <2>1, <2>2, <2>3, <2>4, <2>5, <2>6, <2>7 DEF SupervisorStep
<1>4. QED
  BY <1>2, <1>3

(* The status file is written by a supervisor that serves, and lists all of *)
(* its workers that run.                                                    *)
LEMMA FileStep ==
  ASSUME HandoverTypes, CountInv, WorkersInv, NEW s \in Supervisors,
         SupervisorStep(s)
  PROVE  \/ UNCHANGED fileVars
         \/ status' = NoFile /\ writer' = NoOne
         \/ /\ writer' = s /\ spc[s] \in Serving /\ spc'[s] \in Serving
            /\ \A g \in DOMAIN status' :
                 g \in Generations /\ status'[g] = s /\ g <= generation'[s]
            /\ \A g \in Generations :
                 worker'[s][g] = "running" => g \in DOMAIN status'
<1> USE DEF HandoverTypes, Goto, Serving, runVars
<1>1. /\ spc[s] \in Serving =>
           /\ generation[s] \in Generations
           /\ \A g \in oldWorkers[s] : g \in Generations /\ g <= generation[s]
      /\ \A g \in Generations : worker[s][g] = "running" =>
           /\ spc[s] \in {"write", "select"} =>
                g \in oldWorkers[s] \cup {generation[s]}
           /\ spc[s] = "drain" => g \in oldWorkers[s]
           /\ spc[s] # "reap"
  BY DEF CountInv, WorkersInv
<1>2. generation[s] \in Generations => generation[s] <= generation[s]
  BY DEF Generations
<1>3. CASE Write(s)
  <2> DEFINE listed == oldWorkers[s] \cup {generation[s]}
  <2>1. /\ spc[s] = "write" /\ spc'[s] = "select"
        /\ UNCHANGED <<generation, worker>>
        /\ UNCHANGED fileVars \/ (status' = [g \in listed |-> s] /\ writer' = s)
    BY <1>3 DEF Write, WriteStatus
  <2>2. \A g \in listed : g \in Generations /\ g <= generation[s]
    BY <1>1, <1>2, <2>1
  <2>3. \A g \in Generations : worker[s][g] = "running" => g \in listed
    BY <1>1, <2>1
  <2> HIDE DEF listed
  <2>4. QED
    BY <2>1, <2>2, <2>3
<1>4. ASSUME NEW h \in Generations, DrainExit(s, h)
      PROVE  \/ UNCHANGED fileVars
             \/ /\ writer' = s /\ spc[s] \in Serving /\ spc'[s] \in Serving
                /\ \A g \in DOMAIN status' :
                     g \in Generations /\ status'[g] = s /\ g <= generation'[s]
                /\ \A g \in Generations :
                     worker'[s][g] = "running" => g \in DOMAIN status'
  <2> DEFINE listed == oldWorkers[s] \ {h}
  <2>1. /\ spc[s] \in {"drain", "reap"} /\ worker[s][h] = "dead"
        /\ UNCHANGED <<spc, generation, worker>>
        /\ UNCHANGED fileVars \/ (status' = [g \in listed |-> s] /\ writer' = s)
    BY <1>4 DEF DrainExit, WriteStatus
  <2>2. \A g \in listed : g \in Generations /\ g <= generation[s]
    BY <1>1, <1>2, <2>1
  <2>3. \A g \in Generations : worker[s][g] = "running" => g \in listed
    BY <1>1, <2>1
  <2> HIDE DEF listed
  <2>4. QED
    BY <2>1, <2>2, <2>3
<1>5. CASE Teardown(s)
  BY <1>5 DEF Teardown
<1>6. CASE ~Write(s) /\ ~Teardown(s) /\ ~\E g \in Generations : DrainExit(s, g)
  BY <1>6 DEF SupervisorStep, Acquire, SetupFails, StartFirst,
     ReplaceWorker, BeginRestart, Shutdown, KillRemaining,
     ReleasePIDFile, Crash, OldWorkerExit, WorkerExits
<1>7. QED
  BY <1>3, <1>4, <1>5, <1>6

(* What the caller knows of the workers it has found in the status file.    *)
LEMMA CallerKeptStep ==
  ASSUME HandoverTypes, OwnerInv, CountInv, WorkersInv, CallerInv,
         HandoverSound, NEW s \in Supervisors, SupervisorStep(s)
  PROVE  CallerInv' /\ HandoverSound'
<1> DEFINE Listed(m) == \A g \in DOMAIN previous :
              spc[previous[g]] \in Serving /\ worker[previous[g]][g] = "running"
                => g \in DOMAIN m /\ m[g] = previous[g]
           ListedNow == \A g \in DOMAIN previous :
              spc'[previous[g]] \in Serving /\ worker'[previous[g]][g] = "running"
                => g \in DOMAIN status' /\ status'[g] = previous[g]
<1>1. UNCHANGED <<rpc, target, previous>>
  BY SupervisorFrame DEF callerVars
<1>2. ASSUME rpc \in {"signal", "poll", "done"}
      PROVE  /\ Known(previous) /\ Known(previous)'
             /\ \A g \in DOMAIN previous :
                  /\ worker'[previous[g]][g] = "running" =>
                       worker[previous[g]][g] = "running"
                  /\ spc'[previous[g]] \in Serving => spc[previous[g]] \in Serving
                  /\ spc[previous[g]] = "crashed" => spc'[previous[g]] = "crashed"
  <2>1. Known(previous)
    BY <1>2 DEF CallerInv
  <2>2. UNCHANGED previous
    BY <1>1
  <2>3. QED
    BY <2>1, <2>2, KnownStep
<1>3. ASSUME rpc \in {"signal", "poll"}
      PROVE  status' \in {NoFile, previous} \/ ListedNow
  <2>1. CASE UNCHANGED fileVars
    BY <1>2, <1>3, <2>1 DEF CallerInv, fileVars
  <2>2. CASE status' = NoFile
    BY <2>2
  <2>3. CASE /\ writer' = s /\ spc[s] \in Serving /\ spc'[s] \in Serving
             /\ \A g \in DOMAIN status' :
                  g \in Generations /\ status'[g] = s /\ g <= generation'[s]
             /\ \A g \in Generations :
                  worker'[s][g] = "running" => g \in DOMAIN status'
    <3> SUFFICES ASSUME NEW g \in DOMAIN previous,
                        spc'[previous[g]] \in Serving,
                        worker'[previous[g]][g] = "running"
                 PROVE  g \in DOMAIN status' /\ status'[g] = previous[g]
      OBVIOUS
    <3>1. g \in Generations /\ previous[g] \in Supervisors
      BY <1>2, <1>3 DEF Known
    <3>2. spc[previous[g]] \in Serving
      BY <1>2, <1>3
    <3>3. previous[g] = s
      BY <2>3, <3>1, <3>2 DEF OwnerInv
    <3>4. QED
      BY <2>3, <3>1, <3>3
  <2>4. QED
    BY <2>1, <2>2, <2>3, FileStep
<1>4. CallerInv'
  BY <1>1, <1>2, <1>3 DEF CallerInv
<1>5. HandoverSound'
  BY <1>1, <1>2 DEF HandoverSound
<1>6. QED
  BY <1>4, <1>5

(* control.Restart: the poll that ends it.                                  *)
LEMMA CallerMoves ==
  ASSUME HandoverInv, Open \/ ReadPrevious \/ SendHangup \/ Poll
  PROVE  HandoverInv'
<1>1. UNCHANGED <<spc, owner, generation, oldWorkers, worker, status, writer>>
  BY DEF Open, ReadPrevious, SendHangup, Poll, runVars, fileVars
<1>2. /\ HandoverTypes' /\ OwnerInv' /\ CountInv' /\ WorkersInv'
      /\ status' # NoFile => Known(status)'
  BY <1>1 DEF HandoverInv, HandoverTypes, OwnerInv, CountInv,
     WorkersInv, Known
<1>3. CASE Open
  BY <1>2, <1>3 DEF Open, HandoverInv, CallerInv, HandoverSound
<1>4. CASE ReadPrevious
  <2>1. /\ previous' = status
        /\ rpc' = "failed" \/ (rpc' = "signal" /\ status # NoFile)
    BY <1>4 DEF ReadPrevious
  <2>2. CallerInv' /\ HandoverSound'
    BY <1>1, <1>2, <2>1 DEF CallerInv, HandoverSound, Known
  <2>3. QED
    BY <1>2, <2>2 DEF HandoverInv
<1>5. CASE SendHangup
  <2>1. rpc = "signal" /\ rpc' \in {"failed", "poll"} /\ previous' = previous
    BY <1>5 DEF SendHangup
  <2>2. CallerInv' /\ HandoverSound'
    BY <1>1, <2>1 DEF HandoverInv, CallerInv, HandoverSound, Known
  <2>3. QED
    BY <1>2, <2>2 DEF HandoverInv
<1>6. CASE Poll
  <2>1. /\ rpc = "poll" /\ previous' = previous
        /\ \/ rpc' \in {"failed", "timeout"}
           \/ /\ rpc' = "done" /\ status # NoFile
              /\ GenerationAdvanced /\ OldWorkersGone
    BY <1>6 DEF Poll
  <2>2. CASE rpc' \in {"failed", "timeout"}
    BY <1>2, <2>2 DEF HandoverInv, CallerInv, HandoverSound
  <2>3. CASE rpc' = "done"
    <3>1. status # previous
      BY <2>1, <2>3 DEF GenerationAdvanced
    <3>2. Known(previous) /\ Known(previous)'
      BY <1>1, <2>1 DEF HandoverInv, CallerInv, Known
    <3>3. ASSUME NEW g \in DOMAIN previous, spc[previous[g]] # "crashed",
                 worker[previous[g]][g] = "running"
          PROVE  FALSE
      <4>1. g \in Generations /\ previous[g] \in Supervisors
        BY <3>2 DEF Known
      <4>2. spc[previous[g]] \in Serving
        BY <3>3, <4>1 DEF HandoverInv, WorkersInv, Serving
      <4>3. g \in DOMAIN status /\ status[g] = previous[g]
        BY <2>1, <2>3, <3>1, <3>3, <4>2 DEF HandoverInv, CallerInv
      <4>4. QED
        BY <2>1, <2>3, <4>3 DEF OldWorkersGone
    <3>4. CallerInv' /\ HandoverSound'
      BY <1>1, <2>1, <2>3, <3>2, <3>3 DEF CallerInv, HandoverSound
    <3>5. QED
      BY <1>2, <3>4 DEF HandoverInv
  <2>4. QED
    BY <2>1, <2>2, <2>3
<1>7. QED
  BY <1>3, <1>4, <1>5, <1>6

LEMMA HandoverInitInv == Init => HandoverInv
  BY DEF Init, HandoverInv, HandoverTypes, OwnerInv, CountInv,
     WorkersInv, CallerInv, HandoverSound, Serving

LEMMA HandoverNextInv == HandoverInv /\ [Next]_vars => HandoverInv'
<1> SUFFICES ASSUME HandoverInv, [Next]_vars PROVE HandoverInv'
  OBVIOUS
<1>1. /\ HandoverTypes /\ OwnerInv /\ CountInv /\ WorkersInv
      /\ status # NoFile => Known(status)
      /\ CallerInv /\ HandoverSound
  BY DEF HandoverInv
<1>2. ASSUME NEW s \in Supervisors, SupervisorStep(s) PROVE HandoverInv'
  <2>1. HandoverTypes' /\ OwnerInv' /\ CountInv' /\ WorkersInv'
    BY <1>1, <1>2, SupervisorFrame, OwnerStep, BooksStep
  <2>2. CallerInv' /\ HandoverSound'
    BY <1>1, <1>2, CallerKeptStep
  <2>3. ASSUME status' # NoFile PROVE Known(status)'
    <3>1. CASE UNCHANGED fileVars
      <4>1. status' = status
        BY <3>1 DEF fileVars
      <4>2. QED
        BY <1>1, <1>2, <2>3, <4>1, KnownStep
    <3>2. CASE /\ spc'[s] \in Serving
               /\ \A g \in DOMAIN status' :
                    g \in Generations /\ status'[g] = s /\ g <= generation'[s]
      BY <3>2 DEF Known, Serving
    <3>3. QED
      BY <1>1, <1>2, <2>3, <3>1, <3>2, FileStep
  <2>4. QED
    BY <2>1, <2>2, <2>3 DEF HandoverInv
<1>3. CASE Open \/ ReadPrevious \/ SendHangup \/ Poll
  BY <1>3, CallerMoves
<1>4. CASE UNCHANGED vars
  <2>1. /\ UNCHANGED <<spc, owner, generation, oldWorkers, worker>>
        /\ UNCHANGED <<status, writer, rpc, previous>>
    BY <1>4 DEF vars, runVars, fileVars, callerVars
  <2>2. HandoverTypes' /\ OwnerInv' /\ CountInv' /\ WorkersInv'
    BY <1>1, <2>1 DEF HandoverTypes, OwnerInv, CountInv, WorkersInv
  <2>3. /\ status' # NoFile => Known(status)'
        /\ CallerInv' /\ HandoverSound'
    BY <1>1, <2>1 DEF Known, CallerInv, HandoverSound
  <2>4. QED
    BY <2>2, <2>3 DEF HandoverInv
<1>5. QED
  BY <1>2, <1>3, <1>4 DEF Next

LEMMA HandoverAlwaysInv == Spec => []HandoverInv
  BY HandoverInitInv, HandoverNextInv, PTL DEF Spec

(* A Restart that returns nil leaves no worker running that it found in the *)
(* status file, unless its supervisor crashed, whichever supervisor has the *)
(* pid file by then: control.Restart over the status files that startWorker *)
(* and waitForWorkers write.                                                *)
THEOREM HandoverIsSound == Spec => []HandoverSound
<1>1. HandoverInv => HandoverSound
  BY DEF HandoverInv
<1>2. QED
  BY <1>1, HandoverAlwaysInv, PTL

(* The status file of the supervisor that serves is not written over by one *)
(* that came before it or is refused: WriteStatus of several supervisors.   *)
THEOREM StatusStaysOwn == Spec => StatusOwn
<1> DEFINE Own == \A s \in Supervisors :
       spc[s] \in Serving /\ writer = s => writer' \in {s, NoOne} \/ spc'[s] \notin Serving
<1>1. HandoverInv /\ [Next]_vars => [Own]_vars
  <2> SUFFICES ASSUME HandoverInv, Next, NEW r \in Supervisors,
                      spc[r] \in Serving, writer = r
               PROVE  writer' \in {r, NoOne}
    OBVIOUS
  <2>1. CASE Open \/ ReadPrevious \/ SendHangup \/ Poll
    BY <2>1 DEF Open, ReadPrevious, SendHangup, Poll, fileVars
  <2>2. ASSUME NEW s \in Supervisors, SupervisorStep(s)
        PROVE  writer' \in {r, NoOne}
    <3>1. CASE UNCHANGED fileVars \/ writer' = NoOne
      BY <3>1 DEF fileVars
    <3>2. CASE writer' = s /\ spc[s] \in Serving
      BY <3>2 DEF HandoverInv, OwnerInv
    <3>3. QED
      BY <2>2, <3>1, <3>2, FileStep DEF HandoverInv
  <2>3. QED
    BY <2>1, <2>2 DEF Next
<1>2. QED
  BY <1>1, HandoverAlwaysInv, PTL DEF Spec, StatusOwn
=============================================================================
