------------------------------ MODULE WorkerEnv ------------------------------
(***************************************************************************)
(* The environment of a worker: reloadEnv reads the envdir, one file per   *)
(* variable, while others edit it, and buildWorkerEnv lays the result over *)
(* the supervisor's own environment at every attempt to start a worker.    *)
(*                                                                         *)
(* The loop is reduced to what decides when the directory is read and for  *)
(* whom; module Supervisor has it in full.  A value is the number of the   *)
(* edit that wrote it.                                                     *)
(***************************************************************************)
EXTENDS Naturals

CONSTANTS
  Names,          \* the names of variables and of files in the envdir
  DotFiles,       \* those that begin with a dot
  Protocol,       \* SERVER_STARTER_PORT, LSS2_SOCKET_TYPES, ..._GENERATION
  ReadyFD,        \* SERVER_STARTER_DAEMON_READY_FD
  Ambient,        \* the variables in the supervisor's own environment
  MaxEdits,       \* bound on edits of the directory
  MaxGeneration   \* bound on attempts to start a worker

ASSUME NamesAssumption ==
  /\ DotFiles \subseteq Names /\ Protocol \subseteq Names /\ Ambient \subseteq Names
  /\ ReadyFD \in Names \ Protocol
ASSUME EnvBounds == MaxEdits \in Nat /\ MaxGeneration \in Nat

VARIABLES
  dirExists, dir,  \* the envdir and its entries
  now,             \* edits so far
  pc,              \* "load", "entries", "read", "start", "probe", "kill", ...
  phase,           \* what the load is for: "first", "respawn", "restart"
  entries,         \* the listed entries still to be read
  file,            \* the open file
  loading,         \* the map being read
  envOverlay,      \* rs.envOverlay
  generation,      \* rs.generation
  env,             \* the environment of the worker started last
  old,             \* an old worker drains
  hangup, hangupPending,
  readAt,          \* edits when the directory was listed last
  touched,         \* the names edited since
  triedAt,         \* edits at the last attempt to start a worker, or NotTried
  askedAt          \* edits at the last hangup request that was not folded

dirVars == <<dirExists, dir, now>>
loadVars == <<entries, file, loading, envOverlay, readAt, touched>>
startVars == <<generation, env, triedAt>>
loopVars == <<phase, old, hangup, hangupPending, askedAt>>
vars == <<dirVars, pc, loadVars, startVars, loopVars>>

NotTried == MaxEdits + 1

\* What the name of a variable can stand for in the directory: nothing, a file
\* with a first line, one that is empty or whose first line is too long, one
\* that cannot be opened or read, or a symbolic link, directory, pipe and the like.
Entry(kind, value) == [kind |-> kind, value |-> value]
Absent == Entry("absent", 0)
Edited(value) ==
  {Absent, Entry("line", value), Entry("noline", 0), Entry("unreadable", 0),
   Entry("other", 0)}

Regular(e) == e.kind \in {"line", "noline", "unreadable"}

NoFile == [name |-> ReadyFD, linked |-> FALSE, entry |-> Absent]
NoValues == [n \in {} |-> 0]

Init ==
  /\ dirExists \in BOOLEAN
  /\ dir \in [Names -> IF dirExists THEN Edited(0) ELSE {Absent}]
  /\ now = 0
  /\ pc = "load" /\ phase = "first"
  /\ entries = {} /\ file = NoFile /\ loading = NoValues /\ envOverlay = NoValues
  /\ generation = 0 /\ env = NoValues
  /\ old = FALSE /\ hangup = FALSE /\ hangupPending = FALSE
  /\ readAt = 0 /\ touched = {} /\ triedAt = NotTried /\ askedAt = 0

-----------------------------------------------------------------------------
(* reloadEnv.                                                               *)

\* Mutant of Listed: the type of an entry is not looked at.
ListedAll == {n \in Names \ DotFiles : dir[n] # Absent}

\* The entries that are not skipped by name or type.
Listed == {n \in Names \ DotFiles : Regular(dir[n])}

\* The loop, or Run, returns the error, and the overlay is left as it was.
LoadFails ==
  /\ pc' = "stopped" /\ file' = NoFile
  /\ UNCHANGED <<entries, loading, envOverlay, readAt, touched>>

ReadDir ==
  /\ pc = "load"
  /\ \/ ~dirExists /\ LoadFails
     \/ /\ dirExists
        /\ entries' = Listed /\ loading' = NoValues
        /\ readAt' = now /\ touched' = {}
        /\ pc' = "entries"
        /\ UNCHANGED <<file, envOverlay>>
  /\ UNCHANGED <<dirVars, startVars, loopVars>>

\* openEnvFile: the entry may have changed since it was listed.
OpenEntry(n) ==
  /\ pc = "entries" /\ n \in entries
  /\ \/ /\ dir[n].kind \in {"absent", "unreadable", "other"}
        /\ LoadFails
     \/ /\ dir[n].kind \in {"line", "noline"}
        /\ file' = [name |-> n, linked |-> TRUE, entry |-> dir[n]]
        /\ entries' = entries \ {n}
        /\ pc' = "read"
        /\ UNCHANGED <<loading, envOverlay, readAt, touched>>
  /\ UNCHANGED <<dirVars, startVars, loopVars>>

\* readEnvValue: a file without a first line is skipped.
ReadEntry ==
  /\ pc = "read"
  /\ loading' = IF file.entry.kind = "line"
                THEN [n \in DOMAIN loading \cup {file.name} |->
                        IF n = file.name THEN file.entry.value ELSE loading[n]]
                ELSE loading
  /\ file' = NoFile /\ pc' = "entries"
  /\ UNCHANGED <<dirVars, entries, envOverlay, readAt, touched, startVars, loopVars>>

\* reloadEnvdir, and on to startWorker.
LoadDone ==
  /\ pc = "entries" /\ entries = {}
  /\ envOverlay' = loading
  /\ triedAt' = NotTried /\ pc' = "start"
  /\ UNCHANGED <<dirVars, entries, file, loading, readAt, touched, generation, env,
                 loopVars>>

-----------------------------------------------------------------------------
(* startWorker.                                                             *)

Inherited(n) == [from |-> "ambient", value |-> 0]
FromEnvdir(value) == [from |-> "envdir", value |-> value]
FromProtocol(g) == [from |-> "protocol", value |-> g]

buildWorkerEnv(overlay, g) ==
  [n \in (Ambient \ {ReadyFD}) \cup DOMAIN overlay \cup Protocol |->
     IF n \in Protocol THEN FromProtocol(g)
     ELSE IF n \in DOMAIN overlay THEN FromEnvdir(overlay[n]) ELSE Inherited(n)]

\* One attempt: the process cannot be started and a retry follows, or it runs
\* and is probed.
Attempt ==
  /\ pc = "start" /\ generation < MaxGeneration
  /\ generation' = generation + 1 /\ triedAt' = now
  /\ \/ pc' = "start" /\ env' = env
     \/ pc' = "probe" /\ env' = buildWorkerEnv(envOverlay, generation')
  /\ UNCHANGED <<dirVars, loadVars, loopVars>>

\* The worker has died early: it is started again.
ProbeFails ==
  /\ pc = "probe" /\ pc' = "start"
  /\ UNCHANGED <<dirVars, loadVars, startVars, loopVars>>

\* The worker is up.  One that replaces a dead worker answers the hangup request
\* in the buffer.
ProbePasses ==
  /\ pc = "probe"
  /\ pc' = IF phase = "restart" THEN "kill" ELSE "select"
  /\ hangup' = (hangup /\ phase # "respawn")
  /\ UNCHANGED <<dirVars, loadVars, startVars, phase, old, hangupPending, askedAt>>

-----------------------------------------------------------------------------
(* The loop.                                                                *)

\* killOldDelay has passed and the old worker is signalled; the request in the
\* buffer belongs to this restart.
KillOld ==
  /\ pc = "kill" /\ pc' = "select"
  /\ hangup' = FALSE
  /\ UNCHANGED <<dirVars, loadVars, startVars, phase, old, hangupPending, askedAt>>

\* Mutant of BeginRestart: the envdir is not read again.
BeginRestartStale ==
  pc' = "start" /\ phase' = "restart" /\ old' = TRUE

BeginRestart ==
  pc' = "load" /\ phase' = "restart" /\ old' = TRUE

WorkerDies ==
  /\ pc = "select"
  /\ pc' = "load" /\ phase' = "respawn"
  /\ UNCHANGED <<dirVars, loadVars, startVars, old, hangup, hangupPending, askedAt>>

\* An old worker's exit is received; it may have been the one a hangup waited for.
OldWorkerExit ==
  /\ pc = "select" /\ old
  /\ \/ /\ ~hangupPending /\ old' = FALSE
        /\ UNCHANGED <<pc, phase, hangup, hangupPending>>
     \/ /\ hangupPending /\ BeginRestart
        /\ hangup' = FALSE /\ hangupPending' = FALSE
  /\ UNCHANGED <<dirVars, loadVars, startVars, askedAt>>

RecvHangup ==
  /\ pc = "select" /\ hangup
  /\ hangup' = FALSE
  /\ \/ ~old /\ BeginRestart /\ hangupPending' = hangupPending
     \/ old /\ hangupPending' = TRUE /\ UNCHANGED <<pc, phase, old>>
  /\ UNCHANGED <<dirVars, loadVars, startVars, askedAt>>

TimerRestart ==
  /\ pc = "select" /\ ~old
  /\ BeginRestart
  /\ UNCHANGED <<dirVars, loadVars, startVars, hangup, hangupPending, askedAt>>

\* A respawn or a restart has listed the directory: a request that comes now is
\* folded into it.
Folding == phase # "first" /\ pc \in {"entries", "read", "start", "probe", "kill"}

\* Controller.Hangup; Run returns the controller once the first load is done.
Hangup ==
  /\ pc # "stopped" /\ ~(phase = "first" /\ pc \in {"load", "entries", "read"})
  /\ hangup' = TRUE
  /\ askedAt' = IF Folding THEN askedAt ELSE now
  /\ UNCHANGED <<dirVars, pc, loadVars, startVars, phase, old, hangupPending>>

-----------------------------------------------------------------------------
(* Whoever edits the directory.                                             *)

Edit(n, e) ==
  /\ dirExists /\ now < MaxEdits /\ now' = now + 1
  /\ e # dir[n] /\ dir' = [dir EXCEPT ![n] = e]
  /\ touched' = touched \cup {n}
  /\ UNCHANGED <<dirExists, pc, entries, loading, envOverlay, readAt, startVars,
                 loopVars>>

\* The entry is created, removed or replaced by rename.
Replace(n, e) ==
  /\ Edit(n, e)
  /\ file' = IF file.name = n THEN [file EXCEPT !.linked = FALSE] ELSE file

\* The file is truncated or written in place.
Rewrite(n, e) ==
  /\ dir[n].kind \in {"line", "noline"} /\ e.kind \in {"line", "noline"}
  /\ Edit(n, e)
  /\ file' = IF file.name = n /\ file.linked THEN [file EXCEPT !.entry = e] ELSE file

RemoveDir ==
  /\ dirExists /\ now < MaxEdits /\ now' = now + 1
  /\ dirExists' = FALSE /\ dir' = [n \in Names |-> Absent] /\ touched' = Names
  /\ file' = [file EXCEPT !.linked = FALSE]
  /\ UNCHANGED <<pc, entries, loading, envOverlay, readAt, startVars, loopVars>>

-----------------------------------------------------------------------------
Next ==
  \/ ReadDir \/ ReadEntry \/ LoadDone \/ Attempt \/ ProbeFails \/ ProbePasses
  \/ KillOld \/ WorkerDies \/ OldWorkerExit \/ RecvHangup \/ TimerRestart \/ Hangup
  \/ RemoveDir
  \/ \E n \in Names : \/ OpenEntry(n)
                      \/ \E e \in Edited(now + 1) : Replace(n, e) \/ Rewrite(n, e)

Spec == Init /\ [][Next]_vars

-----------------------------------------------------------------------------
(* Properties.                                                              *)

\* The values a directory gives that nobody edits while it is read.
Contents ==
  [n \in {m \in Names \ DotFiles : dir[m].kind = "line"} |-> dir[n].value]

\* A load during which nobody edits the directory gives exactly its values: in
\* particular none that an earlier load has left behind.
LoadExact == pc = "start" /\ now = readAt => envOverlay = Contents

\* A load ends the run only over a directory that is missing, an entry that cannot
\* be opened, or one that has been removed or has become something else since the
\* directory was listed.  Links, pipes and subdirectories found there, files that
\* begin with a dot, and edits of other entries do not end it.
StopsOnlyForCause ==
  [][pc # "stopped" /\ pc' = "stopped" =>
       \/ ~dirExists
       \/ \E n \in Names \ DotFiles :
            \/ dir[n].kind = "unreadable"
            \/ n \in touched /\ dir[n].kind \in {"absent", "other"}]_vars

\* The variables of the protocol are the supervisor's, whatever the envdir and an
\* outer start_server say, and its readiness descriptor is not inherited.
ProtocolOwn ==
  pc \in {"probe", "kill", "select"} =>
    /\ \A n \in Protocol : env[n] = FromProtocol(generation)
    /\ ReadyFD \in DOMAIN env => env[ReadyFD].from = "envdir"

\* Once the loop owes no restart, the worker has seen every edit made before the
\* last hangup request that was not folded: coalescing requests with deaths, with
\* the timer and with drains loses none of these, nor does a request during the
\* first start or before a load.  One that comes after the listing of a respawn or
\* restart "belongs to the restart already in progress", and promises nothing about
\* the edits since the listing: they wait for the next restart.
HangupFresh ==
  pc = "select" /\ ~hangup /\ ~hangupPending => readAt >= askedAt

\* "the worker's environment is built fresh on every spawn from the envdir
\* contents": an attempt sees at least the edits made before the attempt before.
\* It does not: the envdir is read once, before the retry loop.
FreshOnEverySpawn ==
  [][pc = "start" /\ pc' = "probe" /\ triedAt = now =>
       env' = buildWorkerEnv(Contents, generation')]_vars
=============================================================================
