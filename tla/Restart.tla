------------------------------- MODULE Restart -------------------------------
(***************************************************************************)
(* control.Restart against a running supervisor: callers of                *)
(* start_server --restart, each a process of its own, composed with the    *)
(* run of module Supervisor.  A caller reads the status file, sends SIGHUP *)
(* and polls the file until it lists a new generation and none of the      *)
(* workers it listed at first.  The supervisor rewrites and finally        *)
(* removes that file under it, and SIGHUP travels through the signal       *)
(* channel and watchSignals of the command before it is a hangup.          *)
(***************************************************************************)
EXTENDS Supervisor

CONSTANT Callers   \* processes that call control.Restart, once each

VARIABLES
  sighup,     \* TRUE while a SIGHUP is on its way to Controller.Hangup
  rpc,        \* where each caller stands, see CallerStates
  previous    \* the status each caller read before it signalled

callerVars == <<rpc, previous>>
restartVars == <<vars, sighup, callerVars>>

\* "failed": an error other than the expiry of the caller's context; "done":
\* Restart returned nil.
CallerStates ==
  {"idle", "read", "signal", "poll", "done", "failed", "timeout"}

RestartInit ==
  /\ Init
  /\ sighup = FALSE
  /\ rpc = [c \in Callers |-> "idle"]
  /\ previous = [c \in Callers |-> NoFile]

-----------------------------------------------------------------------------
(* The caller.                                                              *)

To(c, state) == rpc' = [rpc EXCEPT ![c] = state]

\* The check of ctx, then OpenRunningPID: it succeeds while a supervisor holds
\* the pid file.
Open(c) ==
  /\ rpc[c] = "idle"
  /\ \/ pidFile /\ To(c, "read")
     \/ ~pidFile /\ To(c, "failed")
     \/ To(c, "timeout")
  /\ UNCHANGED <<vars, sighup, previous>>

\* ReadStatus: a missing file is an error.
ReadPrevious(c) ==
  /\ rpc[c] = "read"
  /\ previous' = [previous EXCEPT ![c] = status]
  /\ To(c, IF status = NoFile THEN "failed" ELSE "signal")
  /\ UNCHANGED <<vars, sighup>>

\* SIGHUP, to a process that may be gone by now.
SendHangup(c) ==
  /\ rpc[c] = "signal"
  /\ \/ pc # "exited" /\ sighup' = TRUE /\ To(c, "poll")
     \/ pc = "exited" /\ sighup' = sighup /\ To(c, "failed")
  /\ UNCHANGED <<vars, previous>>

\* Mutant of GenerationAdvanced: a file that has changed will do.
FileChanged(old, new) == old # new

GenerationAdvanced(old, new) == DOMAIN new \ DOMAIN old # {}

\* Mutant of OldWorkersGone: only the oldest worker is looked at.
OldestGone(old, new) ==
  \A g \in DOMAIN old :
    (\A h \in DOMAIN old : g <= h) /\ g \in DOMAIN new =>
      new[g] # old[g]

OldWorkersGone(old, new) ==
  \A g \in DOMAIN old : g \in DOMAIN new => new[g] # old[g]

\* Mutant of Poll: a missing file is polled again.
PollPatient(c) ==
  /\ rpc[c] = "poll" /\ status # NoFile
  /\ GenerationAdvanced(previous[c], status)
  /\ OldWorkersGone(previous[c], status)
  /\ To(c, "done")
  /\ UNCHANGED <<vars, sighup, previous>>

\* One round of the polling loop.
Poll(c) ==
  /\ rpc[c] = "poll"
  /\ \/ status = NoFile /\ To(c, "failed")
     \/ /\ status # NoFile
        /\ GenerationAdvanced(previous[c], status)
        /\ OldWorkersGone(previous[c], status)
        /\ To(c, "done")
  /\ UNCHANGED <<vars, sighup, previous>>

\* The caller's context expires.
Expire(c) ==
  /\ rpc[c] \in {"read", "poll"}
  /\ To(c, "timeout")
  /\ UNCHANGED <<vars, sighup, previous>>

\* watchSignals calls Controller.Hangup, once it has a controller; a full
\* channel absorbs the request.
DeliverHangup ==
  /\ sighup /\ ret = "controller"
  /\ sighup' = FALSE /\ hangup' = TRUE
  /\ UNCHANGED <<cfg, pc, phase, trackVars, flagVars, heldVars, fileVars,
                 ctxDone, err, runVars, procVars, events, callerVars>>

CallerStep(c) ==
  Open(c) \/ ReadPrevious(c) \/ SendHangup(c) \/ Poll(c)

RestartNext ==
  \/ Next /\ UNCHANGED <<sighup, callerVars>>
  \/ \E c \in Callers : CallerStep(c) \/ Expire(c)
  \/ DeliverHangup

RestartSpec == RestartInit /\ [][RestartNext]_restartVars
-----------------------------------------------------------------------------
(* Properties.                                                              *)

\* What Restart promises when it returns nil: none of the workers the status
\* file listed before the signal is running, and a later generation than all of
\* them has been started, however the file was rewritten, by whichever of
\* restart, respawn, timer and shutdown, between the polls.
RestartSound ==
  \A c \in Callers : rpc[c] = "done" =>
    /\ \A w \in Pids :
         Running(w) /\ genOf[w] \in DOMAIN previous[c] =>
           previous[c][genOf[w]] # w
    /\ \A g \in DOMAIN previous[c] : g < generation

\* The poll that ends Restart finds in the status file a worker of a generation
\* it did not list before the signal, and not one that is still under its
\* startup probe, unless the run is being cancelled.
RestartHasSuccessor ==
  [][\A c \in Callers : rpc[c] # "done" /\ rpc'[c] = "done" =>
       \E g \in DOMAIN status \ DOMAIN previous[c] :
         genOf[status[g]] = g /\ proc[status[g]] = "starting" =>
           ctxDone]_restartVars

-----------------------------------------------------------------------------
(* The inductive invariant behind the two, beside SafetyInv.                *)

\* A worker that has not passed its probe is the one under probe, unless ctx
\* has ended the probe.
ProbedInv ==
  \A w \in Pids : proc[w] = "starting" => w = probing \/ ctxDone

\* What the status file says, even one that could not be rewritten for a while:
\* it lists generations that were given out and no worker that is still under
\* its probe, and a worker it does not list is younger than all that it does.
FileInv ==
  status # NoFile =>
    /\ \A g \in DOMAIN status :
         /\ g \in 1..generation /\ status[g] \in Pids
         /\ genOf[status[g]] = g /\ proc[status[g]] = "starting" => ctxDone
    /\ \A w \in Pids : proc[w] # "free" =>
         \/ genOf[w] \in DOMAIN status /\ status[genOf[w]] = w
         \/ \A g \in DOMAIN status : g < genOf[w]

\* A worker, or its exit, that a caller has seen in the file.
Seen(c, w) ==
  /\ proc[w] # "free" /\ genOf[w] \in DOMAIN previous[c]

\* The workers that were there when c read the file, and not listed in it, are
\* younger than all it listed.  Unless the file is the one that c has read, those
\* that are still there are listed, and what it lists beside them is younger.
CallerInv(c) ==
  /\ rpc[c] \in {"signal", "poll", "done"} =>
       /\ \A g \in DOMAIN previous[c] : g \in 1..generation
       /\ \A w \in Pids : proc[w] # "free" =>
            Seen(c, w) \/ \A g \in DOMAIN previous[c] : g < genOf[w]
  /\ rpc[c] \in {"signal", "poll"} =>
       \/ status \in {NoFile, previous[c]}
       \/ /\ \A w \in Pids : Seen(c, w) =>
               genOf[w] \in DOMAIN status /\ status[genOf[w]] = w
          /\ \A h \in DOMAIN status \ DOMAIN previous[c] :
               \A g \in DOMAIN previous[c] : g < h
  /\ rpc[c] = "done" =>
       /\ \A w \in Pids : Seen(c, w) => previous[c][genOf[w]] # w
       /\ \A g \in DOMAIN previous[c] : g < generation

TypeCallers ==
  /\ sighup \in BOOLEAN /\ rpc \in [Callers -> CallerStates]
  /\ DOMAIN previous = Callers

RestartInv ==
  /\ SafetyInv /\ TypeCallers /\ ProbedInv /\ FileInv
  /\ \A c \in Callers : CallerInv(c)

-----------------------------------------------------------------------------
(* Liveness.                                                                *)

\* The callers run until they return, and the signal is delivered.
CallerFairness ==
  /\ \A c \in Callers : WF_restartVars(CallerStep(c))
  /\ WF_restartVars(DeliverHangup)

LiveRestartSpec ==
  RestartSpec /\ Fairness /\ CallerFairness

\* With workers that exit when they are told to, Restart returns, and not only
\* by its timeout, unless the status file cannot be written: the hangup it asks
\* for is not lost among those of other callers, respawns and the timer, and
\* the end of the run is noticed.
RestartReturns ==
  WorkersObey =>
    \A c \in Callers : rpc[c] = "poll" ~> (rpc[c] # "poll" \/ statusStale)
=============================================================================
