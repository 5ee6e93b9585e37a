---------------------------- MODULE WorkerProofs ----------------------------
(***************************************************************************)
(* Proofs about the start of a worker: its environment (WorkerEnv), for    *)
(* every set of variables, every number of edits and every number of       *)
(* workers; the attempts of startWorker (Launch), whatever becomes of the  *)
(* files; and the launcher that a daemon reports to (Daemon), whatever     *)
(* signals are sent.                                                       *)
(***************************************************************************)
EXTENDS WorkerEnv, Launch, Daemon, TLAPS

Kinds == {"absent", "line", "noline", "unreadable", "other"}
Entries == [kind : Kinds, value : Nat]

\* Types, and the clocks of the three stamps.
EnvTypes ==
  /\ dirExists \in BOOLEAN /\ dir \in [Names -> Entries]
  /\ now \in Nat /\ readAt \in 0..now /\ askedAt \in 0..now
  /\ entries \subseteq Names
  /\ file \in [name : Names, linked : BOOLEAN, entry : Entries]

\* The values of the names in ns, as the directory has them.
ValuesOf(ns) == [n \in {m \in ns : dir[m].kind = "line"} |-> dir[n].value]

\* While nobody edits the directory, the map holds the entries read so far, and
\* those that are left are still regular files.
LoadInv ==
  now = readAt =>
    /\ pc = "entries" => /\ entries \subseteq Listed
                         /\ loading = ValuesOf(Listed \ entries)
    /\ pc = "read" => /\ entries \subseteq Listed
                      /\ file.name \in Listed \ entries
                      /\ file.entry = dir[file.name]
                      /\ loading = ValuesOf((Listed \ entries) \ {file.name})
    /\ pc \in {"start", "probe"} => envOverlay = Contents

\* Only a restart signals an old worker.
PhaseInv ==
  /\ pc \in {"load", "entries", "read", "start", "probe", "kill", "select", "stopped"}
  /\ pc = "kill" => phase = "restart"

\* A request that was not folded is in the buffer, pending, about to be answered
\* by a load, or has been.
FreshInv ==
  \/ readAt >= askedAt
  \/ pc \in {"load", "stopped"}
  \/ pc = "select" /\ (hangup \/ hangupPending)
  \/ phase = "first" /\ pc \in {"start", "probe"} /\ hangup

\* An entry that is still to be read is a regular file, or has been edited since
\* it was listed.
TouchInv ==
  pc \in {"entries", "read"} =>
    \A n \in entries : n \in Names \ DotFiles /\ (Regular(dir[n]) \/ n \in touched)

EnvInv == EnvTypes /\ PhaseInv /\ LoadInv /\ FreshInv /\ TouchInv /\ ProtocolOwn

\* An entry that an edit may leave is an entry.
LEMMA EditedType ==
  ASSUME NEW v \in Nat PROVE Edited(v) \subseteq Entries
BY DEF Edited, Entries, Kinds, Entry, Absent

\* The initial states.
LEMMA EnvInit == Init => EnvInv
<1> SUFFICES ASSUME Init PROVE EnvInv
  OBVIOUS
<1>1. dir \in [Names -> Entries]
  BY EditedType DEF Init, Edited, Absent
<1>2. NoFile \in [name : Names, linked : BOOLEAN, entry : Entries]
  BY NamesAssumption DEF NoFile, Absent, Entry, Entries, Kinds
<1>3. EnvTypes
  BY <1>1, <1>2 DEF Init, EnvTypes
<1> QED
  BY <1>3 DEF Init, EnvInv, PhaseInv, LoadInv, FreshInv, TouchInv,
              ProtocolOwn

\* The types.
LEMMA EnvTypesStep == EnvTypes /\ [Next]_vars => EnvTypes'
<1> SUFFICES ASSUME EnvTypes, [Next]_vars PROVE EnvTypes'
  OBVIOUS
<1> USE DEF EnvTypes
<1>0. NoFile \in [name : Names, linked : BOOLEAN, entry : Entries]
  BY NamesAssumption DEF NoFile, Absent, Entry, Entries, Kinds
<1>1. CASE ReadDir
  BY <1>0, <1>1 DEF ReadDir, LoadFails, Listed, dirVars, startVars, loopVars
<1>2. CASE ReadEntry
  BY <1>0, <1>2 DEF ReadEntry, dirVars, startVars, loopVars
<1>3. ASSUME NEW n \in Names, OpenEntry(n) PROVE EnvTypes'
  <2>0. dir[n] \in Entries
    OBVIOUS
  <2>1. file' \in [name : Names, linked : BOOLEAN, entry : Entries]
    <3>1. CASE file' = NoFile
      BY <1>0, <3>1
    <3>2. CASE file' = [name |-> n, linked |-> TRUE, entry |-> dir[n]]
      BY <2>0, <3>2
    <3> QED
      BY <1>3, <3>1, <3>2 DEF OpenEntry, LoadFails
  <2> QED
    BY <1>3, <2>1 DEF OpenEntry, LoadFails, dirVars, loopVars
<1>4. CASE Hangup
  BY <1>4 DEF Hangup, dirVars, loadVars, startVars
<1>5. ASSUME NEW n \in Names, NEW e \in Edited(now + 1), Replace(n, e) \/ Rewrite(n, e)
      PROVE  EnvTypes'
  <2>1. e \in Entries
    BY EditedType
  <2>2. Edit(n, e)
    BY <1>5 DEF Replace, Rewrite
  <2>3. file' \in [name : Names, linked : BOOLEAN, entry : Entries]
    BY <1>5, <2>1 DEF Replace, Rewrite
  <2> QED
    BY <2>1, <2>2, <2>3 DEF Edit, loopVars
<1>6. CASE RemoveDir
  <2>1. Absent \in Entries
    BY DEF Absent, Entry, Entries, Kinds
  <2>2. file' \in [name : Names, linked : BOOLEAN, entry : Entries]
    BY <1>6 DEF RemoveDir
  <2>3. dir' \in [Names -> Entries] /\ dirExists' \in BOOLEAN
    BY <1>6, <2>1 DEF RemoveDir
  <2>4. now' = now + 1 /\ readAt' = readAt /\ askedAt' = askedAt /\ entries' = entries
    BY <1>6 DEF RemoveDir, loopVars
  <2> QED
    BY <2>2, <2>3, <2>4
<1>7. CASE LoadDone \/ Attempt \/ ProbeFails \/ ProbePasses \/ KillOld
  BY <1>7 DEF LoadDone, Attempt, ProbeFails, ProbePasses, KillOld, dirVars, loadVars,
              loopVars
<1>8. CASE WorkerDies \/ OldWorkerExit \/ RecvHangup \/ TimerRestart
  BY <1>8 DEF WorkerDies, OldWorkerExit, RecvHangup, TimerRestart, dirVars, loadVars
<1>9. CASE UNCHANGED vars
  BY <1>9 DEF vars, dirVars, loadVars, loopVars
<1> QED
  BY <1>1, <1>2, <1>3, <1>4, <1>5, <1>6, <1>7, <1>8, <1>9 DEF Next

\* What a load has read.
LEMMA LoadStep == EnvTypes /\ LoadInv /\ [Next]_vars => LoadInv'
<1> SUFFICES ASSUME EnvTypes, LoadInv, [Next]_vars PROVE LoadInv'
  OBVIOUS
<1>0. ASSUME dir' = dir PROVE Listed' = Listed /\ Contents' = Contents
  BY <1>0 DEF Listed, Contents
<1>1. CASE ReadDir
  <2>1. dir' = dir
    BY <1>1 DEF ReadDir, dirVars
  <2>2. CASE pc' = "stopped"
    BY <2>2 DEF LoadInv
  <2>3. CASE pc' # "stopped"
    <3>1. pc' = "entries" /\ entries' = Listed /\ loading' = NoValues
      BY <1>1, <2>3 DEF ReadDir, LoadFails
    <3>2. loading' = ValuesOf(Listed \ entries)'
      BY <1>0, <2>1, <3>1 DEF ValuesOf, NoValues
    <3> QED
      BY <1>0, <2>1, <3>1, <3>2 DEF LoadInv
  <2> QED
    BY <2>2, <2>3
<1>2. CASE ReadEntry
  <2>1. dir' = dir /\ now' = now /\ readAt' = readAt /\ entries' = entries
        /\ pc = "read" /\ pc' = "entries"
    BY <1>2 DEF ReadEntry, dirVars
  <2>2. ASSUME now = readAt PROVE loading' = ValuesOf(Listed \ entries)'
    <3> DEFINE f == file.name
    <3>1. /\ f \in Listed \ entries /\ file.entry = dir[f]
          /\ loading = ValuesOf((Listed \ entries) \ {f})
      BY <2>1, <2>2 DEF LoadInv
    <3>2. ValuesOf(Listed \ entries)' = ValuesOf(Listed \ entries)
      BY <1>0, <2>1 DEF ValuesOf
    <3>3. CASE dir[f].kind = "line"
      <4>1. loading' = [n \in DOMAIN loading \cup {f} |->
                          IF n = f THEN dir[f].value ELSE loading[n]]
        BY <1>2, <3>1, <3>3 DEF ReadEntry
      <4>2. DOMAIN loading = {m \in (Listed \ entries) \ {f} : dir[m].kind = "line"}
        BY <3>1 DEF ValuesOf
      <4>3. DOMAIN loading \cup {f} = {m \in Listed \ entries : dir[m].kind = "line"}
        BY <3>1, <3>3, <4>2
      <4>4. \A n \in DOMAIN loading : loading[n] = dir[n].value
        BY <3>1 DEF ValuesOf
      <4> QED
        BY <3>2, <4>1, <4>3, <4>4 DEF ValuesOf
    <3>4. CASE dir[f].kind # "line"
      <4>1. loading' = loading
        BY <1>2, <3>1, <3>4 DEF ReadEntry
      <4>2. {m \in (Listed \ entries) \ {f} : dir[m].kind = "line"}
            = {m \in Listed \ entries : dir[m].kind = "line"}
        BY <3>4
      <4> QED
        BY <3>1, <3>2, <4>1, <4>2 DEF ValuesOf
    <3> QED
      BY <3>3, <3>4
  <2> QED
    BY <1>0, <2>1, <2>2 DEF LoadInv
<1>3. ASSUME NEW n \in Names, OpenEntry(n) PROVE LoadInv'
  <2>1. dir' = dir /\ now' = now /\ readAt' = readAt /\ loading' = loading
        /\ pc = "entries" /\ n \in entries
    BY <1>3 DEF OpenEntry, LoadFails, dirVars
  <2>2. CASE pc' = "stopped"
    BY <2>2 DEF LoadInv
  <2>3. CASE pc' # "stopped"
    <3>1. /\ file' = [name |-> n, linked |-> TRUE, entry |-> dir[n]]
          /\ entries' = entries \ {n} /\ pc' = "read"
      BY <1>3, <2>3 DEF OpenEntry, LoadFails
    <3>2. file'.name = n /\ file'.entry = dir[n]
      BY <3>1
    <3>3. ASSUME now = readAt
          PROVE  loading' = ValuesOf((Listed \ entries) \ {file.name})'
      <4>1. (Listed \ entries') \ {n} = Listed \ entries
        BY <2>1, <3>1
      <4>2. loading = ValuesOf(Listed \ entries)
        BY <2>1, <3>3 DEF LoadInv
      <4> QED
        BY <1>0, <2>1, <3>2, <4>1, <4>2 DEF ValuesOf
    <3>4. now = readAt => n \in Listed /\ entries' \subseteq Listed
      BY <2>1, <3>1 DEF LoadInv
    <3> QED
      BY <1>0, <2>1, <3>1, <3>2, <3>3, <3>4 DEF LoadInv
  <2> QED
    BY <2>2, <2>3
<1>4. CASE LoadDone
  <2>1. dir' = dir /\ now' = now /\ readAt' = readAt /\ pc = "entries"
        /\ entries = {} /\ envOverlay' = loading /\ pc' = "start"
    BY <1>4 DEF LoadDone, dirVars
  <2>2. ASSUME now = readAt PROVE loading = Contents
    <3>1. loading = ValuesOf(Listed \ {})
      BY <2>1, <2>2 DEF LoadInv
    <3>2. {m \in Listed \ {} : dir[m].kind = "line"}
          = {m \in Names \ DotFiles : dir[m].kind = "line"}
      BY DEF Listed, Regular
    <3> QED
      BY <3>1, <3>2 DEF ValuesOf, Contents
  <2> QED
    BY <1>0, <2>1, <2>2 DEF LoadInv
<1>5. CASE Attempt \/ ProbeFails \/ ProbePasses \/ KillOld
  <2>1. /\ dir' = dir /\ now' = now /\ readAt' = readAt /\ envOverlay' = envOverlay
        /\ pc' \notin {"entries", "read"}
        /\ pc' \in {"start", "probe"} => pc \in {"start", "probe"}
    BY <1>5 DEF Attempt, ProbeFails, ProbePasses, KillOld, dirVars, loadVars
  <2> QED
    BY <1>0, <2>1 DEF LoadInv
<1>6. CASE WorkerDies \/ OldWorkerExit \/ RecvHangup \/ TimerRestart
  <2>1. pc' \in {"load", "select"}
    BY <1>6 DEF WorkerDies, OldWorkerExit, RecvHangup, TimerRestart, BeginRestart
  <2> QED
    BY <2>1 DEF LoadInv
<1>7. CASE Hangup \/ UNCHANGED vars
  <2>1. /\ dir' = dir /\ now' = now /\ readAt' = readAt /\ envOverlay' = envOverlay
        /\ pc' = pc /\ entries' = entries /\ loading' = loading /\ file' = file
    BY <1>7 DEF Hangup, vars, dirVars, loadVars
  <2> QED
    BY <1>0, <2>1 DEF LoadInv, ValuesOf
<1>8. ASSUME NEW n \in Names, NEW e \in Edited(now + 1), Replace(n, e) \/ Rewrite(n, e)
      PROVE  LoadInv'
  <2>1. now' # readAt'
    BY <1>8 DEF Replace, Rewrite, Edit, EnvTypes
  <2> QED
    BY <2>1 DEF LoadInv
<1>9. CASE RemoveDir
  <2>1. now' # readAt'
    BY <1>9 DEF RemoveDir, EnvTypes
  <2> QED
    BY <2>1 DEF LoadInv
<1> QED
  BY <1>1, <1>2, <1>3, <1>4, <1>5, <1>6, <1>7, <1>8, <1>9 DEF Next

\* Where the loop stands.
LEMMA PhaseStep == PhaseInv /\ [Next]_vars => PhaseInv'
<1> SUFFICES ASSUME PhaseInv, [Next]_vars PROVE PhaseInv'
  OBVIOUS
<1> USE DEF PhaseInv
<1>1. CASE ReadDir \/ ReadEntry \/ LoadDone \/ \E n \in Names : OpenEntry(n)
  BY <1>1 DEF ReadDir, ReadEntry, LoadDone, OpenEntry, LoadFails
<1>2. CASE Attempt \/ ProbeFails \/ ProbePasses \/ KillOld
  BY <1>2 DEF Attempt, ProbeFails, ProbePasses, KillOld
<1>3. CASE WorkerDies \/ OldWorkerExit \/ RecvHangup \/ TimerRestart
  BY <1>3 DEF WorkerDies, OldWorkerExit, RecvHangup, TimerRestart, BeginRestart
<1>4. CASE \E n \in Names : \E e \in Edited(now + 1) : Replace(n, e) \/ Rewrite(n, e)
  BY <1>4 DEF Replace, Rewrite, Edit, loopVars
<1>5. CASE RemoveDir \/ Hangup \/ UNCHANGED vars
  BY <1>5 DEF RemoveDir, Hangup, vars, loopVars
<1> QED
  BY <1>1, <1>2, <1>3, <1>4, <1>5 DEF Next

\* Which requests are still owed.
LEMMA FreshStep == EnvTypes /\ PhaseInv /\ FreshInv /\ [Next]_vars => FreshInv'
<1> SUFFICES ASSUME EnvTypes, PhaseInv, FreshInv, [Next]_vars PROVE FreshInv'
  OBVIOUS
<1> USE DEF EnvTypes, FreshInv
<1>1. CASE ReadDir
  BY <1>1 DEF ReadDir, LoadFails, dirVars, loopVars
<1>2. CASE Hangup
  BY <1>2 DEF Hangup, Folding, PhaseInv, dirVars, loadVars
<1>3. ASSUME NEW n \in Names, OpenEntry(n) PROVE FreshInv'
  BY <1>3 DEF OpenEntry, LoadFails, loopVars
<1>4. CASE ReadEntry \/ LoadDone \/ Attempt \/ ProbeFails
  BY <1>4 DEF ReadEntry, LoadDone, Attempt, ProbeFails, loadVars, loopVars
<1>5. CASE ProbePasses \/ KillOld
  BY <1>5 DEF ProbePasses, KillOld, loadVars
<1>6. CASE WorkerDies \/ OldWorkerExit \/ RecvHangup \/ TimerRestart
  BY <1>6 DEF WorkerDies, OldWorkerExit, RecvHangup, TimerRestart, BeginRestart, loadVars
<1>7. ASSUME NEW n \in Names, NEW e \in Edited(now + 1), Replace(n, e) \/ Rewrite(n, e)
      PROVE  FreshInv'
  BY <1>7 DEF Replace, Rewrite, Edit, loopVars
<1>8. CASE RemoveDir \/ UNCHANGED vars
  BY <1>8 DEF RemoveDir, vars, loadVars, loopVars
<1> QED
  BY <1>1, <1>2, <1>3, <1>4, <1>5, <1>6, <1>7, <1>8 DEF Next

\* What is still to be read.
LEMMA TouchStep == EnvTypes /\ TouchInv /\ [Next]_vars => TouchInv'
<1> SUFFICES ASSUME EnvTypes, TouchInv, [Next]_vars PROVE TouchInv'
  OBVIOUS
<1>0. ASSUME dir' = dir, touched' = touched, entries' \subseteq entries,
             pc \in {"entries", "read"}
      PROVE  TouchInv'
  BY <1>0 DEF TouchInv, Regular
<1>1. CASE ReadDir
  <2>1. pc' = "stopped" \/ (entries' = Listed /\ dir' = dir)
    BY <1>1 DEF ReadDir, LoadFails, dirVars
  <2> QED
    BY <2>1 DEF TouchInv, Listed, Regular
<1>2. CASE ReadEntry
  BY <1>0, <1>2 DEF ReadEntry, dirVars
<1>3. ASSUME NEW n \in Names, OpenEntry(n) PROVE TouchInv'
  <2>1. /\ dir' = dir /\ touched' = touched /\ entries' \subseteq entries
        /\ pc = "entries"
    BY <1>3 DEF OpenEntry, LoadFails, dirVars
  <2> QED
    BY <1>0, <2>1
<1>4. CASE \/ LoadDone \/ Attempt \/ ProbeFails \/ ProbePasses \/ KillOld
           \/ WorkerDies \/ OldWorkerExit \/ RecvHangup \/ TimerRestart
  <2>1. pc' \notin {"entries", "read"}
    BY <1>4 DEF LoadDone, Attempt, ProbeFails, ProbePasses, KillOld, WorkerDies,
                OldWorkerExit, RecvHangup, TimerRestart, BeginRestart
  <2> QED
    BY <2>1 DEF TouchInv
<1>5. ASSUME NEW n \in Names, NEW e \in Edited(now + 1), Replace(n, e) \/ Rewrite(n, e)
      PROVE  TouchInv'
  <2>1. Edit(n, e)
    BY <1>5 DEF Replace, Rewrite
  <2>2. /\ pc' = pc /\ entries' = entries /\ touched' = touched \cup {n}
        /\ \A m \in Names : m # n => dir'[m] = dir[m]
    BY <2>1 DEF Edit, EnvTypes
  <2> QED
    BY <2>2 DEF TouchInv, Regular
<1>6. CASE RemoveDir
  <2>1. pc' = pc /\ entries' = entries /\ touched' = Names
    BY <1>6 DEF RemoveDir
  <2> QED
    BY <2>1 DEF TouchInv
<1>7. CASE Hangup \/ UNCHANGED vars
  <2>1. /\ dir' = dir /\ touched' = touched /\ entries' = entries /\ pc' = pc
    BY <1>7 DEF Hangup, vars, dirVars, loadVars
  <2> QED
    BY <2>1 DEF TouchInv, Regular
<1> QED
  BY <1>1, <1>2, <1>3, <1>4, <1>5, <1>6, <1>7 DEF Next

\* Why the run ends.
LEMMA StopStep ==
  ASSUME TouchInv, [Next]_vars, pc # "stopped", pc' = "stopped"
  PROVE  \/ ~dirExists
         \/ \E n \in Names \ DotFiles :
              \/ dir[n].kind = "unreadable"
              \/ n \in touched /\ dir[n].kind \in {"absent", "other"}
<1>1. CASE ReadDir
  BY <1>1 DEF ReadDir
<1>2. ASSUME NEW n \in Names, OpenEntry(n)
      PROVE  /\ n \in Names \ DotFiles
             /\ \/ dir[n].kind = "unreadable"
                \/ n \in touched /\ dir[n].kind \in {"absent", "other"}
  <2>1. n \in Names \ DotFiles /\ (Regular(dir[n]) \/ n \in touched)
    BY <1>2 DEF OpenEntry, TouchInv
  <2>2. dir[n].kind \in {"absent", "unreadable", "other"}
    BY <1>2 DEF OpenEntry
  <2> QED
    BY <2>1, <2>2 DEF Regular
<1>3. CASE \/ ReadEntry \/ LoadDone \/ Attempt \/ ProbeFails \/ ProbePasses \/ KillOld
           \/ WorkerDies \/ OldWorkerExit \/ RecvHangup \/ TimerRestart
  BY <1>3 DEF ReadEntry, LoadDone, Attempt, ProbeFails, ProbePasses, KillOld,
              WorkerDies, OldWorkerExit, RecvHangup, TimerRestart, BeginRestart
<1>4. ASSUME NEW n \in Names, NEW e \in Edited(now + 1), Replace(n, e) \/ Rewrite(n, e)
      PROVE  FALSE
  BY <1>4 DEF Replace, Rewrite, Edit
<1>5. CASE RemoveDir \/ Hangup \/ UNCHANGED vars
  BY <1>5 DEF RemoveDir, Hangup, vars
<1> QED
  BY <1>1, <1>2, <1>3, <1>4, <1>5 DEF Next

\* What buildWorkerEnv gives, whatever is laid over.
LEMMA BuiltEnv ==
  ASSUME NEW overlay, NEW g
  PROVE  LET e == buildWorkerEnv(overlay, g)
         IN  /\ \A n \in Protocol : e[n] = FromProtocol(g)
             /\ ReadyFD \in DOMAIN e => e[ReadyFD].from = "envdir"
<1> DEFINE D == (Ambient \ {ReadyFD}) \cup DOMAIN overlay \cup Protocol
           e == buildWorkerEnv(overlay, g)
<1>1. DOMAIN e = D
  BY DEF buildWorkerEnv
<1>2. \A n \in Protocol : e[n] = FromProtocol(g)
  BY DEF buildWorkerEnv
<1>3. ReadyFD \in D => e[ReadyFD] = FromEnvdir(overlay[ReadyFD])
  BY NamesAssumption DEF buildWorkerEnv
<1>4. FromEnvdir(overlay[ReadyFD]).from = "envdir"
  BY DEF FromEnvdir
<1>5. ReadyFD \in DOMAIN e => e[ReadyFD].from = "envdir"
  BY <1>1, <1>3, <1>4, Zenon
<1> QED
  BY <1>2, <1>5, Zenon

\* The environment of the worker.
LEMMA ProtocolStep == ProtocolOwn /\ [Next]_vars => ProtocolOwn'
<1> SUFFICES ASSUME ProtocolOwn, [Next]_vars PROVE ProtocolOwn'
  OBVIOUS
<1>1. CASE Attempt
  <2>1. CASE pc' = "probe"
    <3>1. env' = buildWorkerEnv(envOverlay, generation')
      BY <1>1, <2>1 DEF Attempt
    <3> QED
      BY <3>1, BuiltEnv DEF ProtocolOwn, FromProtocol
  <2>2. CASE pc' # "probe"
    BY <1>1, <2>2 DEF Attempt, ProtocolOwn
  <2> QED
    BY <2>1, <2>2
<1>2. ASSUME ~Attempt
      PROVE  /\ env' = env /\ generation' = generation
             /\ pc' \in {"probe", "kill", "select"} => pc \in {"probe", "kill", "select"}
  <2>1. CASE ReadDir \/ ReadEntry \/ LoadDone \/ \E n \in Names : OpenEntry(n)
    BY <2>1 DEF ReadDir, ReadEntry, LoadDone, OpenEntry, LoadFails, startVars
  <2>2. CASE ProbeFails \/ ProbePasses \/ KillOld
    BY <2>2 DEF ProbeFails, ProbePasses, KillOld, startVars
  <2>3. CASE WorkerDies \/ OldWorkerExit \/ RecvHangup \/ TimerRestart \/ Hangup
    BY <2>3 DEF WorkerDies, OldWorkerExit, RecvHangup, TimerRestart, Hangup,
                BeginRestart, startVars
  <2>4. CASE \E n \in Names : \E e \in Edited(now + 1) : Replace(n, e) \/ Rewrite(n, e)
    BY <2>4 DEF Replace, Rewrite, Edit, startVars
  <2>5. CASE RemoveDir \/ UNCHANGED vars
    BY <2>5 DEF RemoveDir, vars, startVars
  <2> QED
    BY <1>2, <2>1, <2>2, <2>3, <2>4, <2>5 DEF Next
<1> QED
  BY <1>1, <1>2 DEF ProtocolOwn

\* The invariant is inductive.
LEMMA EnvInvariant == Spec => []EnvInv
<1>1. EnvInv /\ [Next]_vars => EnvInv'
  BY EnvTypesStep, PhaseStep, LoadStep, FreshStep, TouchStep, ProtocolStep DEF EnvInv
<1> QED
  BY EnvInit, <1>1, PTL DEF Spec

\* A load that nobody disturbs gives exactly the values in the directory, however
\* many entries it has and whatever earlier loads have read.
THEOREM LoadIsExact == Spec => []LoadExact
<1>1. EnvInv => LoadExact
  BY DEF EnvInv, LoadInv, LoadExact
<1> QED
  BY <1>1, EnvInvariant, PTL

\* Nothing but a missing directory, an entry that cannot be opened, or one that has
\* changed between the listing and its turn ends a load and with it the run,
\* whatever else is in the directory and whatever else is edited meanwhile.
THEOREM StopHasCause == Spec => StopsOnlyForCause
<1>1. EnvInv /\ [Next]_vars =>
        [pc # "stopped" /\ pc' = "stopped" =>
           \/ ~dirExists
           \/ \E n \in Names \ DotFiles :
                \/ dir[n].kind = "unreadable"
                \/ n \in touched /\ dir[n].kind \in {"absent", "other"}]_vars
  BY StopStep DEF EnvInv
<1> QED
  BY <1>1, EnvInvariant, PTL DEF Spec, StopsOnlyForCause

\* No envdir and no outer start_server reaches the variables of the protocol.
THEOREM ProtocolIsOwn == Spec => []ProtocolOwn
<1>1. EnvInv => ProtocolOwn
  BY DEF EnvInv
<1> QED
  BY <1>1, EnvInvariant, PTL

\* A hangup request makes the edits before it take effect, unless it comes between
\* the listing and the end of a respawn or restart, which it is then part of.
THEOREM HangupIsFresh == Spec => []HangupFresh
<1>1. EnvInv => HangupFresh
  BY DEF EnvInv, FreshInv, HangupFresh
<1> QED
  BY <1>1, EnvInvariant, PTL

-----------------------------------------------------------------------------
(* Launch.                                                                  *)

\* Nothing has been tried yet.
LEMMA LaunchInitInv == LaunchInit => LaunchInv
  BY DEF LaunchInit, LaunchInv, CauseInv, ReapInv, GivenUpForCause,
     ReapedOnce, WorkDirs, Commands, Interps

\* What an attempt has met is not forgotten before the next.
LEMMA CauseStays ==
  ASSUME args' = args, had.dirs \subseteq had'.dirs,
         had.commands \subseteq had'.commands, had.interps \subseteq had'.interps, Cause
  PROVE  Cause'
  BY DEF Cause, CmdStart, Execve

\* The errors of the lists are never those of a fault.
LEMMA FaultNotTerminal ==
  ASSUME NEW e \in StartErrors, e \in TerminalErrors
  PROVE  e = CmdStart(args, workDir, command, interp) /\ e # "ok"
  BY DEF StartErrors, TerminalErrors

(* Which errors are permanent, over which files.                            *)
LEMMA CauseStep ==
  ASSUME CauseInv, ReapInv, GivenUpForCause, [LaunchNext]_launchVars
  PROVE  CauseInv' /\ GivenUpForCause'
<1> USE DEF CauseInv, ReapInv, GivenUpForCause, Return,
   attemptVars, procVars, diskVars
<1>0. ASSUME UNCHANGED <<had, args>> PROVE Cause' = Cause
  BY <1>0 DEF Cause, CmdStart, Execve
<1>1. CASE Prepare
  BY <1>1 DEF Prepare
<1>2. CASE StartProcess
  <2>1. /\ UNCHANGED <<args, workDir, command, interp, result, had>>
        /\ errno' \in StartErrors /\ spc = "start" /\ spc' \in {"probe", "failed"}
    BY <1>2 DEF StartProcess
  <2>2. errno' \in TerminalErrors => Cause
    BY <2>1, FaultNotTerminal DEF Cause
  <2>3. Cause' = Cause /\ result' # "terminal"
    BY <1>0, <2>1
  <2>4. QED
    BY <2>1, <2>2, <2>3 DEF TerminalErrors
<1>3. CASE Classify
  BY <1>0, <1>3 DEF Classify, TerminalErrors
<1>4. CASE InspectCommand
  BY <1>0, <1>4 DEF InspectCommand
<1>5. CASE OpenInterp
  BY <1>0, <1>5 DEF OpenInterp
<1>6. CASE ParseInterp
  <2>1. /\ UNCHANGED <<args, workDir, command, interp, had>> /\ spc = "parse"
        /\ \/ spc' = "done" /\ Content = "short"
           \/ spc' = "retry" /\ result' = result
    BY <1>6 DEF ParseInterp, MalformedELF
  <2>2. CASE Content = "short"
    <3>1. /\ "short" \in had.interps /\ "dynamic" \in had.commands
          /\ workDir \in had.dirs
      BY <2>1, <2>2 DEF Content
    <3>2. CmdStart(args, workDir, "dynamic", "short") # "ok"
      BY PathErrorsAssumption DEF CmdStart, Execve, Args, WorkDirs, Lookups
    <3>3. Cause
      BY <3>1, <3>2 DEF Cause
    <3>4. QED
      BY <1>0, <2>1, <3>3
  <2>3. QED
    BY <1>0, <2>1, <2>2
<1>7. CASE Cancelled \/ RetryDue \/ RetryCancelled \/ ProbeDue \/ ProbeCancelled
           \/ FindWorker \/ ReportFailedStart
  BY <1>0, <1>7 DEF Cancelled, RetryDue, RetryCancelled, ProbeDue,
     ProbeCancelled, FindWorker, ReportFailedStart
<1>8. CASE ReplaceCommand \/ ChangeDir \/ ChangeInterp
  <2>1. CASE ReplaceCommand
    <3>1. /\ had'.dirs = had.dirs /\ had'.interps = had.interps
          /\ had'.commands = had.commands \cup {command'} /\ args' = args
          /\ had' \in [dirs : SUBSET WorkDirs, commands : SUBSET Commands,
                       interps : SUBSET Interps]
      BY <2>1 DEF ReplaceCommand
    <3>2. Cause => Cause'
      BY <3>1, CauseStays
    <3>3. QED
      BY <2>1, <3>1, <3>2 DEF ReplaceCommand
  <2>2. CASE ChangeDir
    <3>1. /\ had'.commands = had.commands /\ had'.interps = had.interps
          /\ had'.dirs = had.dirs \cup {workDir'} /\ args' = args
          /\ had' \in [dirs : SUBSET WorkDirs, commands : SUBSET Commands,
                       interps : SUBSET Interps]
      BY <2>2 DEF ChangeDir
    <3>2. Cause => Cause'
      BY <3>1, CauseStays
    <3>3. QED
      BY <2>2, <3>1, <3>2 DEF ChangeDir
  <2>3. CASE ChangeInterp
    <3>1. /\ had'.commands = had.commands /\ had'.dirs = had.dirs
          /\ had'.interps = had.interps \cup {interp'} /\ args' = args
          /\ had' \in [dirs : SUBSET WorkDirs, commands : SUBSET Commands,
                       interps : SUBSET Interps]
      BY <2>3 DEF ChangeInterp
    <3>2. Cause => Cause'
      BY <3>1, CauseStays
    <3>3. QED
      BY <2>3, <3>1, <3>2 DEF ChangeInterp
  <2>4. QED
    BY <1>8, <2>1, <2>2, <2>3
<1>9. CASE WaiterReaps \/ ProcessExits \/ Cancel \/ FaultBegins \/ FaultEnds
           \/ UNCHANGED launchVars
  BY <1>0, <1>9 DEF WaiterReaps, ProcessExits, Cancel, FaultBegins,
     FaultEnds, launchVars
<1>10. QED
  BY <1>1, <1>2, <1>3, <1>4, <1>5, <1>6, <1>7, <1>8, <1>9 DEF LaunchNext,
     StartStep, Returned

(* Who reaps the process, and when.                                         *)
LEMMA ReapStep ==
  ASSUME ReapInv, ReapedOnce, [LaunchNext]_launchVars
  PROVE  ReapInv' /\ ReapedOnce'
<1> USE DEF ReapInv, ReapedOnce, Return, attemptVars, procVars,
   diskVars
<1>1. CASE \/ Prepare \/ StartProcess \/ Classify \/ InspectCommand \/ OpenInterp
           \/ ParseInterp
  BY <1>1 DEF Prepare, StartProcess, Classify, InspectCommand, OpenInterp,
     ParseInterp
<1>2. CASE Cancelled \/ RetryDue \/ RetryCancelled \/ ProbeDue \/ ProbeCancelled
  BY <1>2 DEF Cancelled, RetryDue, RetryCancelled, ProbeDue,
     ProbeCancelled
<1>3. CASE FindWorker \/ ReportFailedStart
  BY <1>3 DEF FindWorker, ReportFailedStart
<1>4. CASE WaiterReaps
  BY <1>4 DEF WaiterReaps
<1>5. CASE ProcessExits
  BY <1>5 DEF ProcessExits
<1>6. CASE Cancel \/ ReplaceCommand \/ ChangeDir \/ ChangeInterp \/ FaultBegins
           \/ FaultEnds \/ UNCHANGED launchVars
  BY <1>6 DEF Cancel, ReplaceCommand, ChangeDir, ChangeInterp, FaultBegins,
     FaultEnds, launchVars
<1>7. QED
  BY <1>1, <1>2, <1>3, <1>4, <1>5, <1>6 DEF LaunchNext, StartStep, Returned

\* The invariant is inductive.
LEMMA LaunchAlwaysInv == LaunchSpec => []LaunchInv
<1>1. LaunchInv /\ [LaunchNext]_launchVars => LaunchInv'
  BY CauseStep, ReapStep DEF LaunchInv
<1>2. QED
  BY <1>1, LaunchInitInv, PTL DEF LaunchSpec

\* Whatever directories and files come and go under it, an error of cmd.Start ends
\* a run only over a directory, a command and an interpreter, each there at some
\* moment of the attempt, or arguments, with which no process can be started.
THEOREM GivenUpOnlyForCause == LaunchSpec => []GivenUpForCause
<1>1. LaunchInv => GivenUpForCause
  BY DEF LaunchInv
<1>2. QED
  BY <1>1, LaunchAlwaysInv, PTL

\* The process that startWorker returns is left for its waiter to reap, and the one
\* that findWorker has reaped is reported with the status it exited with.
THEOREM AlwaysReapedOnce == LaunchSpec => []ReapedOnce
<1>1. LaunchInv => ReapedOnce
  BY DEF LaunchInv
<1>2. QED
  BY <1>1, LaunchAlwaysInv, PTL

-----------------------------------------------------------------------------
(* Daemon.                                                                  *)

\* Nothing has been launched yet.
LEMMA DaemonInitInv == DaemonInit => DaemonInv
  BY DEF DaemonInit, DaemonInv, StartupInv, ReportInv, LauncherInv,
     ContextInv, LauncherTruthful, CleanExit, Ended

\* Every step of the launcher, of run, of watchSignals and of the supervisor
\* keeps the invariant.
LEMMA DaemonNextInv == DaemonInv /\ [DaemonNext]_daemonVars => DaemonInv'
<1> SUFFICES ASSUME DaemonInv, [DaemonNext]_daemonVars PROVE DaemonInv'
  OBVIOUS
<1> USE DEF DaemonInv, StartupInv, ReportInv, LauncherInv,
   ContextInv, LauncherTruthful, CleanExit, Ended, launcherVars,
   pipeVars, runVars, watchVars, supVars, sendVars
<1>1. CASE Launch
  BY <1>1 DEF Launch
<1>2. CASE ReadStatus
  BY <1>2 DEF ReadStatus
<1>3. CASE LauncherKilled
  BY <1>3 DEF LauncherKilled
<1>4. CASE Setup
  BY <1>4 DEF Setup, ExitWith
<1>5. CASE StartRun
  BY <1>5 DEF StartRun
<1>6. CASE LaunchLoop
  BY <1>6 DEF LaunchLoop
<1>7. CASE RunReturnsController
  BY <1>7 DEF RunReturnsController, Reported
<1>8. CASE RunReturnsError
  BY <1>8 DEF RunReturnsError
<1>9. CASE ReportFailure
  BY <1>9 DEF ReportFailure
<1>10. CASE ReportFailureBody
  BY <1>10 DEF ReportFailureBody
<1>11. CASE ExitFailed
  BY <1>11 DEF ExitFailed, ExitWith
<1>12. CASE ReportReady
  <2>1. /\ cpc = "ready" /\ cpc' \in {"wait", "abort"}
        /\ ctx' => ctx \/ cpc' = "abort"
        /\ daemon => ~wopen'
        /\ pipe' = pipe \/ (daemon /\ pipe' = "ready")
        /\ daemon /\ (cpc' = "wait" \/ lpc = "read") => pipe' = "ready"
    <3>1. CASE ~daemon
      BY <1>12, <3>1 DEF ReportReady
    <3>2. CASE daemon /\ lpc = "read"
      BY <1>12, <3>2, Zenon DEF ReportReady
    <3>3. CASE daemon /\ lpc # "read"
      BY <1>12, <3>3 DEF ReportReady
    <3>4. QED
      BY <3>1, <3>2, <3>3
  <2>2. UNCHANGED <<launcherVars, code, watchVars, hangupCh, supVars, sendVars>>
    BY <1>12 DEF ReportReady
  <2>3. QED
    BY <2>1, <2>2
<1>13. CASE WaitReturns
  BY <1>13 DEF WaitReturns, ExitWith, CleanEnd
<1>14. CASE WatchEnds
  BY <1>14 DEF WatchEnds
<1>15. CASE WatchController
  BY <1>15 DEF WatchController
<1>16. CASE WatchHUP
  BY <1>16 DEF WatchHUP
<1>17. CASE WatchTERM
  BY <1>17 DEF WatchTERM
<1>18. CASE WorkerUp
  BY <1>18 DEF WorkerUp
<1>19. CASE SupEnds
  BY <1>19 DEF SupEnds
<1>20. CASE ServeHangup
  BY <1>20 DEF ServeHangup
<1>21. CASE \E sig \in {"HUP", "TERM"} : SendSignal(sig)
  <2>1. /\ termSent => termSent'
        /\ sigCh' = "TERM" => sigCh = "TERM" \/ termSent'
    BY <1>21 DEF SendSignal
  <2>2. UNCHANGED <<launcherVars, pipeVars, runVars, ctx, supVars>>
    BY <1>21 DEF SendSignal
  <2>3. QED
    BY <2>1, <2>2
<1>22. CASE Killed
  BY <1>22 DEF Killed
<1>23. CASE UNCHANGED daemonVars
  BY <1>23 DEF daemonVars
<1>24. QED
  BY <1>1, <1>2, <1>3, <1>4, <1>5, <1>6, <1>7, <1>8, <1>9, <1>10, <1>11, <1>12,
     <1>13, <1>14, <1>15, <1>16, <1>17, <1>18, <1>19, <1>20, <1>21, <1>22,
     <1>23 DEF DaemonNext, RunStep, AllOver

\* The invariant is inductive.
LEMMA DaemonAlwaysInv == DaemonSpec => []DaemonInv
  BY DaemonInitInv, DaemonNextInv, PTL DEF DaemonSpec

\* The launcher of --daemonize exits with success only if the first worker passed
\* its startup check, and with a failure only when no supervisor runs.
THEOREM LauncherIsTruthful == DaemonSpec => []LauncherTruthful
<1>1. DaemonInv => LauncherTruthful
  BY DEF DaemonInv
<1>2. QED
  BY <1>1, DaemonAlwaysInv, PTL

\* run exits with 0 only when a shutdown signal has ended it, and its launcher had
\* been told of its success.
THEOREM ExitIsClean == DaemonSpec => []CleanExit
<1>1. DaemonInv => CleanExit
  BY DEF DaemonInv
<1>2. QED
  BY <1>1, DaemonAlwaysInv, PTL
=============================================================================
