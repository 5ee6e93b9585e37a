------------------------------ MODULE Settings ------------------------------
(***************************************************************************)
(* From the command line and the environment to the settings of a          *)
(* supervisor: cli.run up to the call of NewStarter, resolveSettings and   *)
(* the defaults of NewStarter.                                             *)
(*                                                                         *)
(* Integers are those of a machine word, -MaxInt - 1 .. MaxInt; a          *)
(* time.Duration is such a number and Second of them are a second.         *)
(***************************************************************************)
EXTENDS Integers

CONSTANTS
  MaxInt,     \* math.MaxInt64
  Second,     \* time.Second
  Inputs      \* the command lines and environments considered

\* Default intervals are durations.
ASSUME WordAssumption ==
  MaxInt \in Nat /\ Second \in Nat \ {0} /\ 360 * Second <= MaxInt

\* A flag is a typed int by the time it is looked at; a variable may spell any
\* number.
ASSUME InputsAssumption ==
  \A i \in Inputs : /\ i.autoRestartInterval.value \in Int
                    /\ i.AUTO_RESTART_INTERVAL.value \in Int

VARIABLES
  input,    \* flags and environment: see Option and Variable
  pc,       \* "validate", "resolve", "create", "supervise", "control", "failed"
  settings  \* opts.resolved, then the fields of the Starter

vars == <<input, pc, settings>>

MinInt == 0 - MaxInt - 1
Word == MinInt .. MaxInt

\* Go's product of two words wraps around.
Wrap(n) == ((n - MinInt) % (2 * MaxInt + 2)) + MinInt
Times(n, unit) == Wrap(n * unit)

\* Division of Go truncates towards zero.
minDurationSeconds == 0 - ((MaxInt + 1) \div Second)
maxDurationSeconds == MaxInt \div Second

defaultAutoRestartInterval == 360 * Second
defaultKillOldDelayWithAutoRestart == 5 * Second

\* A flag: whether it was passed, and its value.
Option(v) == [set |-> TRUE, value |-> v]
Unset == [set |-> FALSE, value |-> 0]

\* A variable: whether it is there, is spelled like a value, and which.
Variable(v) == [present |-> TRUE, wellFormed |-> TRUE, value |-> v]
Malformed == [present |-> TRUE, wellFormed |-> FALSE, value |-> 0]
Absent == [present |-> FALSE, wellFormed |-> FALSE, value |-> 0]

\* strconv.ParseInt: a number that is no word is an error too.
ParsesInt(v) == v.wellFormed /\ v.value \in Word

-----------------------------------------------------------------------------
(* The resolvers: a flag that was passed, else the variable, else a default. *)
(* Each is a pair: when it fails, and what it returns otherwise.            *)

resolveEnvdir ==
  IF input.envdir.set THEN input.envdir.value
  ELSE IF input.ENVDIR.present THEN input.ENVDIR.value ELSE 0

badEnableAutoRestart ==
  /\ ~input.enableAutoRestart.set
  /\ input.ENABLE_AUTO_RESTART.present /\ ~input.ENABLE_AUTO_RESTART.wellFormed

resolveEnableAutoRestart ==
  IF input.enableAutoRestart.set THEN input.enableAutoRestart.value = 1
  ELSE input.ENABLE_AUTO_RESTART.present /\ input.ENABLE_AUTO_RESTART.value = 1

\* Mutant of validInterval: no upper limit.
anyPositive(seconds) == seconds > 0

validInterval(seconds) == seconds > 0 /\ seconds <= maxDurationSeconds

badAutoRestartInterval ==
  /\ ~input.autoRestartInterval.set
  /\ input.AUTO_RESTART_INTERVAL.present
  /\ ~(/\ ParsesInt(input.AUTO_RESTART_INTERVAL)
       /\ validInterval(input.AUTO_RESTART_INTERVAL.value))

\* A flag out of range is replaced by the default.
resolveAutoRestartInterval ==
  IF input.autoRestartInterval.set
  THEN IF validInterval(input.autoRestartInterval.value)
       THEN Times(input.autoRestartInterval.value, Second)
       ELSE defaultAutoRestartInterval
  ELSE IF input.AUTO_RESTART_INTERVAL.present
       THEN Times(input.AUTO_RESTART_INTERVAL.value, Second)
       ELSE defaultAutoRestartInterval

badKillOldDelay ==
  /\ ~input.killOldDelay.set
  /\ input.KILL_OLD_DELAY.present
  /\ ~(/\ ParsesInt(input.KILL_OLD_DELAY)
       /\ input.KILL_OLD_DELAY.value >= minDurationSeconds
       /\ input.KILL_OLD_DELAY.value <= maxDurationSeconds)

\* The flag's value is not checked.
resolveKillOldDelay(enabled) ==
  IF input.killOldDelay.set THEN Times(input.killOldDelay.value, Second)
  ELSE IF input.KILL_OLD_DELAY.present
       THEN Times(input.KILL_OLD_DELAY.value, Second)
       ELSE IF enabled THEN defaultKillOldDelayWithAutoRestart ELSE 0

-----------------------------------------------------------------------------
(* cli.run.                                                                 *)

Init ==
  /\ input \in Inputs
  /\ pc = "validate"
  /\ settings = [interval |-> 0, envdir |-> 0, enableAutoRestart |-> FALSE,
                 autoRestartInterval |-> 0, killOldDelay |-> 0,
                 signalOnHUP |-> "nil", signalOnTERM |-> "nil"]

\* SigFromName: TERM for no name, else the signal, if there is one of that name.
KnownSignal(name) == name # "unknown"
SigFromName(name) == IF name = "" THEN "TERM" ELSE name

\* validateControlActions, validateSignals and the interval.
Validate ==
  /\ pc = "validate"
  /\ LET bad == \/ input.stop /\ input.restart
                \/ ~KnownSignal(input.signalOnHUP)
                \/ ~KnownSignal(input.signalOnTERM)
                \/ (input.stop \/ input.restart) /\ ~input.pidFile
     IN  pc' = IF bad THEN "failed"
               ELSE IF input.stop \/ input.restart THEN "control" ELSE "resolve"
  /\ settings' = [settings EXCEPT !.interval =
                    Times(IF input.interval < 0 THEN 1 ELSE input.interval, Second)]
  /\ UNCHANGED input

\* resolveSettings, then the check for a program to run.
Resolve ==
  /\ pc = "resolve"
  /\ \/ /\ badEnableAutoRestart \/ badAutoRestartInterval \/ badKillOldDelay
        /\ pc' = "failed" /\ settings' = settings
     \/ /\ ~badEnableAutoRestart /\ ~badAutoRestartInterval /\ ~badKillOldDelay
        /\ pc' = IF input.program THEN "create" ELSE "failed"
        /\ settings' = [settings EXCEPT
                          !.envdir = resolveEnvdir,
                          !.enableAutoRestart = resolveEnableAutoRestart,
                          !.autoRestartInterval = resolveAutoRestartInterval,
                          !.killOldDelay = resolveKillOldDelay(resolveEnableAutoRestart)]
  /\ UNCHANGED input

\* NewStarter, which also looks for the command.
Create ==
  /\ pc = "create"
  /\ \/ pc' = "failed" /\ settings' = settings
     \/ /\ pc' = "supervise"
        /\ settings' = [settings EXCEPT
                          !.signalOnHUP = SigFromName(input.signalOnHUP),
                          !.signalOnTERM = SigFromName(input.signalOnTERM)]
  /\ UNCHANGED input

Next == Validate \/ Resolve \/ Create

Spec == Init /\ [][Next]_vars

-----------------------------------------------------------------------------
(* Properties.                                                              *)

\* The auto-restart timer of a supervisor is armed with a whole, positive number
\* of seconds: no flag and no variable, at whichever end of its range, makes
\* time.NewTimer fire at once or never.
IntervalUsable ==
  pc = "supervise" =>
    /\ settings.autoRestartInterval \in Second .. MaxInt
    /\ settings.autoRestartInterval % Second = 0

\* "When it is set, the value is honoured including an explicit 0", which it is
\* not beyond the range of a duration: the product wraps.
KillOldDelayHonoured ==
  pc = "supervise" /\ input.killOldDelay.set =>
    settings.killOldDelay = input.killOldDelay.value * Second

\* "This can be overwritten by environment variable AUTO_RESTART_INTERVAL", which
\* it cannot when the flag is passed.
EnvironmentOverwrites ==
  pc = "supervise" /\ input.AUTO_RESTART_INTERVAL.present =>
    settings.autoRestartInterval = input.AUTO_RESTART_INTERVAL.value * Second
=============================================================================
