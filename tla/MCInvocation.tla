---------------------------- MODULE MCInvocation ----------------------------
(***************************************************************************)
(* Instances of Invocation for TLC.  Command lines and environments have   *)
(* numbers around every limit, for a word that holds 409 seconds; commands *)
(* and configured directories have up to two components before the file,   *)
(* in trees over /, /a and /a/b; the pid file's directory has up to four,  *)
(* in trees over /, /a, /a/b and /b.                                       *)
(***************************************************************************)
EXTENDS Invocation

Edges == {-1, 0, 1, maxDurationSeconds, maxDurationSeconds + 1, MaxInt}

FlagInts == {Unset} \cup {Option(n) : n \in Edges}

VariableInts ==
  {Absent, Malformed} \cup
  {Variable(n) : n \in Edges \cup {minDurationSeconds - 1, minDurationSeconds, MaxInt + 1}}

Defaults ==
  [stop |-> FALSE, restart |-> FALSE, pidFile |-> TRUE, program |-> TRUE,
   signalOnHUP |-> "", signalOnTERM |-> "", interval |-> -1,
   envdir |-> Unset, ENVDIR |-> Absent,
   enableAutoRestart |-> Unset, ENABLE_AUTO_RESTART |-> Absent,
   autoRestartInterval |-> Unset, AUTO_RESTART_INTERVAL |-> Absent,
   killOldDelay |-> Unset, KILL_OLD_DELAY |-> Absent]

\* Every combination of the lifecycle settings.
Lifecycles ==
  {[Defaults EXCEPT !.enableAutoRestart = a, !.ENABLE_AUTO_RESTART = A,
                    !.autoRestartInterval = i, !.AUTO_RESTART_INTERVAL = I,
                    !.killOldDelay = k, !.KILL_OLD_DELAY = K] :
     a \in {Unset, Option(1)}, A \in {Absent, Malformed, Variable(0), Variable(1)},
     i \in FlagInts, I \in VariableInts, k \in FlagInts, K \in VariableInts}

\* Every combination of the others.
CommandLines ==
  {[Defaults EXCEPT !.stop = s, !.restart = r, !.pidFile = p, !.program = c,
                    !.signalOnHUP = h, !.signalOnTERM = t, !.interval = n,
                    !.envdir = d, !.ENVDIR = D] :
     s \in BOOLEAN, r \in BOOLEAN, p \in BOOLEAN, c \in BOOLEAN,
     h \in {"", "USR1", "unknown"}, t \in {"", "QUIT", "unknown"}, n \in {-1, 0, 1},
     d \in {Unset, Option(1)}, D \in {Absent, Variable(2)}}

MCInputs == Lifecycles \cup CommandLines

MCDirs == {"/", "/a", "/a/b"}
MCAbove == [d \in MCDirs |-> IF d = "/a/b" THEN "/a" ELSE "/"]
MCCommandPaths ==
  [abs : BOOLEAN, parts : UNION {[1..n -> {"x", ".."}] : n \in 0..2}]

Directories == {"tight", "sticky", "loose", "foreign"}
Kinds == Directories \cup {"link", "foreignlink", "file", "absent"}
MCTrees ==
  {t \in [{<<>>, <<"a">>, <<"a", "b">>, <<"b">>} -> Kinds] :
     /\ t[<<>>] \in Directories
     /\ t[<<"a">>] \notin Directories => t[<<"a", "b">>] = "absent"}
MCPIDPaths == UNION {[1..n -> {"a", "b", ".."}] : n \in 0..4}

\* What is of no consequence to a part is left at one value while the others vary.
SomeCommand ==
  /\ entry = [d \in Dirs |-> None] /\ cwd = Root
  /\ dir = [abs |-> FALSE, parts |-> <<>>] /\ command = PATH
  /\ cpc = "new" /\ validated = None /\ executed = None /\ inspected = None
SomeTree ==
  /\ class = [n \in {<<>>} |-> "tight"] /\ path = <<>> /\ wpc = "walk" /\ rest = path
  /\ current = [fd |-> 1, node |-> <<>>] /\ directories = <<current>> /\ open = {1}
  /\ next = Nothing /\ resolved = <<>>
  /\ first = Unknown /\ second = Unknown

MCInit ==
  \/ Init /\ SomeCommand /\ SomeTree
  \/ Init /\ input = Defaults /\ CommandInit /\ SomeTree
  \/ Init /\ input = [Defaults EXCEPT !.stop = TRUE] /\ SomeCommand /\ ControlInit

MCSpec == MCInit /\ [][InvocationNext]_invocationVars
=============================================================================
