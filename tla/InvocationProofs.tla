-------------------------- MODULE InvocationProofs --------------------------
(***************************************************************************)
(* Proofs about one invocation of start_server, for every command line and *)
(* environment, every tree of directories, every path and every width of   *)
(* the machine word: the auto-restart interval is usable, the command that *)
(* is validated is the command that is executed, and the walk to the pid   *)
(* file is exact.  Each is proved of its component, and carried over to    *)
(* the composition.                                                        *)
(***************************************************************************)
EXTENDS Invocation, FiniteSetTheorems, WellFoundedInduction, TLAPS

-----------------------------------------------------------------------------
(* The auto-restart interval.                                               *)

\* A number of seconds within maxDurationSeconds is a duration.
LEMMA SecondsFit ==
  ASSUME NEW n \in Nat \ {0}, n <= maxDurationSeconds
  PROVE  n * Second \in Second .. MaxInt
<1>1. (MaxInt \div Second) * Second <= MaxInt
  BY WordAssumption
<1>2. maxDurationSeconds \in Nat
  BY WordAssumption DEF maxDurationSeconds
<1>3. n * Second <= maxDurationSeconds * Second
  BY <1>2, WordAssumption
<1>4. Second <= n * Second /\ n * Second \in Nat
  BY WordAssumption
<1> QED
  BY <1>1, <1>2, <1>3, <1>4, WordAssumption DEF maxDurationSeconds

\* The product does not wrap, and is a whole number of seconds.
LEMMA SecondsExact ==
  ASSUME NEW n \in Nat \ {0}, n * Second \in Second .. MaxInt
  PROVE  Times(n, Second) = n * Second /\ (n * Second) % Second = 0
<1>1. Wrap(n * Second) = n * Second
  BY WordAssumption DEF Wrap, MinInt
<1>2. (n * Second) % Second = 0
  BY WordAssumption
<1> QED
  BY <1>1, <1>2 DEF Times

\* What the timer is armed with is a whole, positive number of seconds.
Usable(d) == d \in Second .. MaxInt /\ d % Second = 0

\* A setting survives from resolveSettings to the Starter.
IntervalInv ==
  /\ input \in Inputs
  /\ "autoRestartInterval" \in DOMAIN settings
  /\ pc \in {"create", "supervise"} => Usable(settings.autoRestartInterval)

\* Whatever resolveAutoRestartInterval returns without an error is usable.
LEMMA ResolvedIntervalUsable ==
  ASSUME input \in Inputs, ~badAutoRestartInterval
  PROVE  Usable(resolveAutoRestartInterval)
<1>1. ASSUME NEW n \in Int, validInterval(n) PROVE Usable(Times(n, Second))
  <2>1. n \in Nat \ {0} /\ n <= maxDurationSeconds
    BY <1>1 DEF validInterval
  <2> QED
    BY <2>1, SecondsFit, SecondsExact DEF Usable
<1>2. Usable(defaultAutoRestartInterval)
  <2>1. 360 * Second \in Second .. MaxInt
    BY WordAssumption
  <2> QED
    BY <2>1, SecondsExact DEF Usable, defaultAutoRestartInterval
<1>3. CASE input.autoRestartInterval.set
  BY <1>1, <1>2, <1>3, InputsAssumption DEF resolveAutoRestartInterval
<1>4. CASE ~input.autoRestartInterval.set
  BY <1>1, <1>2, <1>4, InputsAssumption
     DEF resolveAutoRestartInterval, badAutoRestartInterval, ParsesInt
<1> QED
  BY <1>3, <1>4

\* No command line and no environment starts a supervisor whose auto-restart
\* timer is armed with zero, a negative duration or one that has wrapped round.
THEOREM IntervalAlwaysUsable == Spec => []IntervalUsable
<1>1. Init => IntervalInv
  BY DEF Init, IntervalInv
<1>2. IntervalInv /\ [Next]_vars => IntervalInv'
  <2> SUFFICES ASSUME IntervalInv, [Next]_vars PROVE IntervalInv'
    OBVIOUS
  <2>1. CASE Validate
    BY <2>1 DEF Validate, IntervalInv
  <2>2. CASE Resolve
    <3>1. CASE pc' = "create"
      <4>1. /\ ~badAutoRestartInterval /\ input' = input
            /\ settings' = [settings EXCEPT
                              !.envdir = resolveEnvdir,
                              !.enableAutoRestart = resolveEnableAutoRestart,
                              !.autoRestartInterval = resolveAutoRestartInterval,
                              !.killOldDelay =
                                 resolveKillOldDelay(resolveEnableAutoRestart)]
        BY <2>2, <3>1 DEF Resolve
      <4>2. settings'.autoRestartInterval = resolveAutoRestartInterval
        BY <4>1 DEF IntervalInv
      <4> QED
        BY <4>1, <4>2, ResolvedIntervalUsable DEF IntervalInv
    <3>2. CASE pc' # "create"
      BY <2>2, <3>2 DEF Resolve, IntervalInv
    <3> QED
      BY <3>1, <3>2
  <2>3. CASE Create
    BY <2>3 DEF Create, IntervalInv
  <2>4. CASE UNCHANGED vars
    BY <2>4 DEF vars, IntervalInv
  <2> QED
    BY <2>1, <2>2, <2>3, <2>4 DEF Next
<1>3. IntervalInv => IntervalUsable
  BY DEF IntervalInv, IntervalUsable, Usable
<1> QED
  BY <1>1, <1>2, <1>3, PTL DEF Spec

-----------------------------------------------------------------------------
(* Induction, and the fold that KernelWalk is.                              *)

\* Induction over the natural numbers, for a set that holds 0 and, with each
\* number, the next.
LEMMA SetInduction ==
  ASSUME NEW S, 0 \in S, \A n \in Nat : n \in S => n + 1 \in S
  PROVE  \A n \in Nat : n \in S
<1> DEFINE T == Nat \ S
           R == OpToRel(<, Nat)
<1> SUFFICES ASSUME T # {} PROVE FALSE
  OBVIOUS
<1>1. IsWellFoundedOn(R, Nat)
  BY NatLessThanWellFounded, Zenon
<1>2. PICK x \in T : \A y \in T : ~ (<<y, x>> \in R)
  <2> HIDE DEF R
  <2> QED BY <1>1, WFMin
<1>3. \A y \in Nat : y < x => <<y, x>> \in R
  BY DEF OpToRel
<1>4. x # 0 /\ x - 1 \in Nat
  OBVIOUS
<1>5. x - 1 \in T
  BY <1>4
<1>6. x \in Nat
  OBVIOUS
<1> HIDE DEF T, R
<1>7. ~ (<<x - 1, x>> \in R)
  BY <1>2, <1>5
<1>8. x - 1 < x
  BY <1>6
<1>9. <<x - 1, x>> \in R
  BY <1>3, <1>4, <1>8
<1>10. QED
  BY <1>7, <1>9

\* The function that FoldLeft unfolds to, over the first k components.
IsIter(g, s, k) ==
  g = [t \in SUBSET (1..k) |->
         IF t = {} THEN <<>>
         ELSE Lead(g[t \ {Max(t)}], s[Max(t)])]

\* The directories that a walk comes through, one after the other.
IsTrace(v, s, k) ==
  v[0] = <<>> /\ \A n \in 1..k : v[n] = Lead(v[n - 1], s[n])

LEMMA MaxOfTop ==
  ASSUME NEW k \in Nat, NEW t \in SUBSET (1..(k + 1)), k + 1 \in t
  PROVE  Max(t) = k + 1
<1>1. \A y \in t : y \in Nat /\ k + 1 >= y
  OBVIOUS
<1>2. \A x \in t : (\A y \in t : x >= y) => x = k + 1
  BY <1>1
<1>3. QED
  BY <1>1, <1>2 DEF Max

\* There is one for every number of components.
LEMMA IterExists ==
  ASSUME NEW s
  PROVE  \A k \in Nat : \E g : IsIter(g, s, k)
<1> DEFINE S == {k \in Nat : \E g : IsIter(g, s, k)}
<1>1. 0 \in S
  <2>1. IsIter([t \in SUBSET (1..0) |-> <<>>], s, 0)
    BY DEF IsIter
  <2>2. QED
    BY <2>1
<1>2. ASSUME NEW k \in Nat, k \in S PROVE k + 1 \in S
  <2>1. PICK g : IsIter(g, s, k)
    BY <1>2
  <2> DEFINE G == [t \in SUBSET (1..(k + 1)) |->
                     IF k + 1 \in t THEN Lead(g[t \ {k + 1}], s[k + 1])
                     ELSE g[t]]
             Out(t) == IF t = {} THEN <<>>
                       ELSE Lead(G[t \ {Max(t)}], s[Max(t)])
  <2>2. ASSUME NEW t \in SUBSET (1..(k + 1)) PROVE G[t] = Out(t)
    <3>1. CASE k + 1 \in t
      <4>1. Max(t) = k + 1
        BY <3>1, MaxOfTop
      <4>2. G[t \ {k + 1}] = g[t \ {k + 1}]
        OBVIOUS
      <4>3. QED
        BY <3>1, <4>1, <4>2
    <3>2. CASE k + 1 \notin t
      <4>1. t \in SUBSET (1..k)
        BY <3>2
      <4>2. G[t \ {Max(t)}] = g[t \ {Max(t)}]
        BY <3>2
      <4>3. g[t] = IF t = {} THEN <<>>
                   ELSE Lead(g[t \ {Max(t)}], s[Max(t)])
        BY <2>1, <4>1 DEF IsIter
      <4>4. QED
        BY <3>2, <4>2, <4>3
    <3>3. QED
      BY <3>1, <3>2
  <2>3. G = [t \in SUBSET (1..(k + 1)) |-> Out(t)]
    <3>1. G = [t \in SUBSET (1..(k + 1)) |-> G[t]]
      OBVIOUS
    <3> HIDE DEF G
    <3>2. QED
      BY <2>2, <3>1
  <2>4. IsIter(G, s, k + 1)
    BY <2>3 DEF IsIter
  <2>5. QED
    BY <2>4
<1> HIDE DEF S
<1>3. \A k \in Nat : k \in S
  BY <1>1, <1>2, SetInduction
<1>4. QED
  BY <1>3 DEF S

\* The walk ends where its trace does.
LEMMA WalkTrace ==
  ASSUME NEW s, NEW k \in Nat, DOMAIN s = 1..k
  PROVE  \E v : IsTrace(v, s, k) /\ KernelWalk(s) = v[k]
<1> DEFINE h == CHOOSE h : h = [t \in SUBSET (1..k) |->
                  IF t = {} THEN <<>>
                  ELSE Lead(h[t \ {Max(t)}], s[Max(t)])]
           v == [n \in 0..k |-> h[1..n]]
<1>1. KernelWalk(s) = h[1..k]
  BY DEF KernelWalk, FoldLeft, MapThenFoldSet
<1>2. h = [t \in SUBSET (1..k) |->
             IF t = {} THEN <<>>
             ELSE Lead(h[t \ {Max(t)}], s[Max(t)])]
  <2>1. PICK g : IsIter(g, s, k)
    BY IterExists
  <2>2. QED
    BY <2>1 DEF IsIter
<1> HIDE DEF h
<1>3. v[0] = <<>>
  BY <1>2
<1>4. ASSUME NEW n \in 1..k PROVE v[n] = Lead(v[n - 1], s[n])
  <2>1. Max(1..n) = n
    <3>1. n - 1 \in Nat /\ (n - 1) + 1 = n
      OBVIOUS
    <3>2. 1..n \in SUBSET (1..((n - 1) + 1)) /\ (n - 1) + 1 \in 1..n
      BY <3>1
    <3>3. QED
      BY <3>1, <3>2, MaxOfTop
  <2>2. (1..n) \ {n} = 1..(n - 1)
    <3>1. \A m : m \in (1..n) \ {n} <=> m \in 1..(n - 1)
      OBVIOUS
    <3>2. QED
      BY <3>1, Zenon
  <2>3. h[1..n] = Lead(h[1..(n - 1)], s[n])
    <3>1. n \in 1..n /\ \A m \in 1..n : m \in 1..k
      OBVIOUS
    <3>2. 1..n # {} /\ 1..n \in SUBSET (1..k)
      BY <3>1, Zenon
    <3>3. QED
      BY <1>2, <2>1, <2>2, <3>2
  <2>4. QED
    BY <2>3
<1>5. v[k] = h[1..k]
  OBVIOUS
<1> HIDE DEF v
<1>6. IsTrace(v, s, k)
  BY <1>3, <1>4 DEF IsTrace
<1>7. QED
  BY <1>1, <1>5, <1>6

\* Two traces of a walk are the same.
LEMMA TraceUnique ==
  ASSUME NEW s, NEW k \in Nat, NEW u, NEW v,
         IsTrace(u, s, k), IsTrace(v, s, k)
  PROVE  u[k] = v[k]
<1> DEFINE S == {n \in Nat : n <= k => u[n] = v[n]}
<1>1. 0 \in S
  BY DEF IsTrace
<1>2. ASSUME NEW n \in Nat, n \in S PROVE n + 1 \in S
  <2> SUFFICES ASSUME n + 1 <= k PROVE u[n + 1] = v[n + 1]
    OBVIOUS
  <2>1. u[n] = v[n] /\ n + 1 \in 1..k /\ (n + 1) - 1 = n
    BY <1>2
  <2>2. /\ u[n + 1] = Lead(u[n], s[n + 1])
        /\ v[n + 1] = Lead(v[n], s[n + 1])
    BY <2>1 DEF IsTrace
  <2>3. QED
    BY <2>1, <2>2
<1> HIDE DEF S
<1>3. \A n \in Nat : n \in S
  BY <1>1, <1>2, SetInduction
<1>4. QED
  BY <1>3 DEF S

LEMMA WalkEnds ==
  ASSUME NEW s, NEW k \in Nat, DOMAIN s = 1..k, NEW v, IsTrace(v, s, k)
  PROVE  KernelWalk(s) = v[k]
  BY WalkTrace, TraceUnique

-----------------------------------------------------------------------------
(* The kernel along the path.                                               *)

\* A prefix of a sequence has its elements.
LEMMA PrefixComponents ==
  ASSUME NEW S, NEW p \in Seq(S), NEW n \in 0..Len(p)
  PROVE  /\ SubSeq(p, 1, n) \in Seq(S) /\ Len(SubSeq(p, 1, n)) = n
         /\ DOMAIN SubSeq(p, 1, n) = 1..n
         /\ \A m \in 1..n : SubSeq(p, 1, n)[m] = p[m]
  OBVIOUS

\* The kernel goes one component at a time.
LEMMA AtStep ==
  ASSUME path \in Seq(STRING)
  PROVE  /\ At(0) = <<>> /\ At(Len(path)) = KernelWalk(path)
         /\ \A n \in 1..Len(path) : At(n) = Lead(At(n - 1), path[n])
<1>1. Len(path) \in Nat /\ DOMAIN path = 1..Len(path)
  OBVIOUS
<1>2. PICK v : IsTrace(v, path, Len(path)) /\ KernelWalk(path) = v[Len(path)]
  BY <1>1, WalkTrace
<1>3. ASSUME NEW n \in 0..Len(path) PROVE At(n) = v[n]
  <2> DEFINE s == SubSeq(path, 1, n)
  <2>1. DOMAIN s = 1..n /\ \A m \in 1..n : s[m] = path[m]
    BY PrefixComponents
  <2> HIDE DEF s
  <2>2. IsTrace(v, s, n)
    BY <1>1, <1>2, <2>1 DEF IsTrace
  <2>3. n \in Nat
    BY <1>1
  <2>4. KernelWalk(s) = v[n]
    BY <2>1, <2>2, <2>3, WalkEnds
  <2>5. QED
    BY <2>4 DEF s, At
<1>4. ASSUME NEW n \in 1..Len(path) PROVE At(n) = Lead(At(n - 1), path[n])
  <2>1. n \in 0..Len(path) /\ n - 1 \in 0..Len(path)
    BY <1>1
  <2>2. QED
    BY <1>2, <1>3, <2>1 DEF IsTrace
<1>5. 0 \in 0..Len(path) /\ Len(path) \in 0..Len(path)
  BY <1>1
<1>6. QED
  BY <1>2, <1>3, <1>4, <1>5 DEF IsTrace

\* Once it is nowhere, it stays there.
LEMMA StaysNowhere ==
  ASSUME path \in Seq(STRING), NEW n \in 0..Len(path), At(n) = Nowhere
  PROVE  KernelWalk(path) = Nowhere
<1> DEFINE S == {m \in Nat : n + m <= Len(path) => At(n + m) = Nowhere}
<1>1. Len(path) \in Nat /\ n \in Nat
  OBVIOUS
<1>2. 0 \in S
  <2>1. n + 0 = n
    BY <1>1
  <2>2. QED
    BY <2>1
<1>3. ASSUME NEW m \in Nat, m \in S PROVE m + 1 \in S
  <2> SUFFICES ASSUME n + (m + 1) <= Len(path) PROVE At(n + (m + 1)) = Nowhere
    OBVIOUS
  <2>1. /\ n + (m + 1) \in 1..Len(path) /\ (n + (m + 1)) - 1 = n + m
        /\ n + m <= Len(path)
    BY <1>1
  <2>2. At(n + (m + 1)) = Lead(At(n + m), path[n + (m + 1)])
    BY <2>1, AtStep
  <2>3. At(n + m) = Nowhere
    BY <1>3, <2>1
  <2>4. QED
    BY <2>2, <2>3 DEF Lead
<1> HIDE DEF S
<1>4. \A m \in Nat : m \in S
  BY <1>2, <1>3, SetInduction
<1>5. Len(path) - n \in S
  BY <1>1, <1>4
<1>6. n + (Len(path) - n) = Len(path)
  BY <1>1
<1>7. At(Len(path)) = Nowhere
  BY <1>1, <1>5, <1>6 DEF S
<1>8. QED
  BY <1>7, AtStep

\* A path that is refused leads nowhere or through a directory that is not tight.
LEMMA RefusedForCause ==
  ASSUME path \in Seq(STRING), ~Verdict
  PROVE  \/ KernelWalk(path) = Nowhere
         \/ \E n \in 0..Len(path) : Class(At(n)) # "tight"
<1>1. Len(path) \in Nat /\ Len(path) \in 0..Len(path)
  OBVIOUS
<1>2. CASE ~DirectoryAllowed(KernelWalk(path))
  <2>1. Class(At(Len(path))) # "tight"
    BY <1>2, AtStep DEF DirectoryAllowed
  <2>2. QED
    BY <1>1, <2>1
<1>3. CASE ~Passed(Len(path))
  <2>1. PICK k \in 1..Len(path) :
          /\ path[k] # ".."
          /\ \/ Class(Append(At(k - 1), path[k])) \notin Directory
             \/ ~EntryAllowed(At(k - 1), Append(At(k - 1), path[k]))
    BY <1>3 DEF Passed
  <2>2. k - 1 \in 0..Len(path) /\ k \in 0..Len(path)
    BY <1>1
  <2>3. CASE ~EntryAllowed(At(k - 1), Append(At(k - 1), path[k]))
    BY <2>2, <2>3 DEF EntryAllowed
  <2>4. CASE Class(Append(At(k - 1), path[k])) \notin Directory
    <3>1. At(k) = Nowhere
      BY <2>1, <2>4, AtStep DEF Lead
    <3>2. QED
      BY <2>2, <3>1, StaysNowhere
  <2>5. QED
    BY <2>1, <2>3, <2>4
<1>4. QED
  BY <1>2, <1>3 DEF Verdict

\* Neither walker changes the tree or the path, so the kernel's way stays.
LEMMA SameKernel ==
  ASSUME class' = class, NEW p
  PROVE  KernelWalk(p)' = KernelWalk(p)
  BY DEF KernelWalk, FoldLeft, MapThenFoldSet, Lead, Class

LEMMA SameWay ==
  ASSUME class' = class, path' = path
  PROVE  /\ \A n : At(n)' = At(n)
         /\ \A n : Passed(n)' = Passed(n)
         /\ Verdict' = Verdict
         /\ KernelWalk(path)' = KernelWalk(path)
<1>1. \A n : At(n)' = At(n)
  BY SameKernel DEF At
<1>2. KernelWalk(path)' = KernelWalk(path)
  BY SameKernel
<1>3. ASSUME NEW n PROVE Passed(n)' = Passed(n)
  BY <1>1 DEF Passed, EntryAllowed, Class
<1>4. Verdict' = Verdict
  BY <1>2, <1>3 DEF Verdict, DirectoryAllowed, Class
<1>5. QED
  BY <1>1, <1>2, <1>3, <1>4

\* What has been found stays so.
LEMMA StaysTruthful ==
  ASSUME class' = class, path' = path, NEW r, Truthful(r)
  PROVE  Truthful(r)'
  BY SameWay DEF Truthful

\* The components ahead.
LEMMA Ahead ==
  ASSUME NEW p \in Seq(STRING), NEW n \in 0..Len(p),
         NEW r, r = SubSeq(p, n + 1, Len(p)), r # <<>>
  PROVE  /\ n + 1 \in 1..Len(p) /\ Head(r) = p[n + 1]
         /\ Tail(r) = SubSeq(p, n + 2, Len(p)) /\ Tail(r) \in Seq(STRING)
         /\ Len(Tail(r)) = Len(p) - (n + 1)
<1>1. Len(p) \in Nat /\ n \in Nat
  OBVIOUS
<1>2. n < Len(p)
  OBVIOUS
<1>3. Len(r) = Len(p) - n /\ r \in Seq(STRING)
  BY <1>2
<1>4. \A i \in 1..Len(r) : r[i] = p[n + i]
  OBVIOUS
<1>5. Head(r) = p[n + 1]
  BY <1>1, <1>2, <1>3, <1>4
<1>6. Len(Tail(r)) = Len(p) - (n + 1) /\ Tail(r) \in Seq(STRING)
  BY <1>1, <1>2, <1>3
<1>7. Tail(r) = SubSeq(p, n + 2, Len(p))
  <2>1. Len(SubSeq(p, n + 2, Len(p))) = Len(p) - (n + 1)
    BY <1>1, <1>2
  <2>2. \A i \in 1..(Len(p) - (n + 1)) :
          Tail(r)[i] = SubSeq(p, n + 2, Len(p))[i]
    BY <1>1, <1>2, <1>3, <1>4, <1>6
  <2>3. QED
    BY <1>6, <2>1, <2>2
<1>8. QED
  BY <1>1, <1>2, <1>5, <1>6, <1>7

-----------------------------------------------------------------------------
(* Nodes, the stack and the descriptors.                                    *)

\* A list of names is not Nowhere, and its parent is a list of names.
LEMMA PlainFacts ==
  ASSUME NEW node, Plain(node)
  PROVE  node # Nowhere /\ (node # <<>> => Plain(Front(node)))
<1>1. node # Nowhere
  BY DEF Plain, Nowhere
<1>2. ASSUME node # <<>> PROVE Plain(Front(node))
  <2>1. Len(node) - 1 \in Nat /\ Front(node) = SubSeq(node, 1, Len(node) - 1)
    BY <1>2 DEF Plain, Front
  <2>2. node \in Seq(STRING) /\ Len(node) - 1 \in 0..Len(node)
    BY <2>1 DEF Plain
  <2>3. Front(node) \in Seq(STRING) /\ Len(Front(node)) = Len(node) - 1
    <3>1. \A m \in 0..Len(node) :
            SubSeq(node, 1, m) \in Seq(STRING) /\ Len(SubSeq(node, 1, m)) = m
      BY <2>2
    <3>2. QED
      BY <2>1, <2>2, <3>1
  <2>4. \A i \in 1..(Len(node) - 1) : Front(node)[i] = node[i]
    BY <2>1, <2>2, PrefixComponents
  <2>5. \A i \in 1..(Len(node) - 1) : i \in 1..Len(node)
    BY <2>2
  <2>6. QED
    BY <2>3, <2>4, <2>5 DEF Plain
<1>3. QED
  BY <1>1, <1>2

\* The entry of a name in a directory has that directory as its parent.
LEMMA PlainEntry ==
  ASSUME NEW node, Plain(node), NEW name \in STRING, name # ".."
  PROVE  /\ Plain(Append(node, name)) /\ Append(node, name) # <<>>
         /\ Front(Append(node, name)) = node
<1>1. /\ Append(node, name) \in Seq(STRING)
      /\ Len(Append(node, name)) = Len(node) + 1 /\ Len(node) \in Nat
      /\ \A i \in 1..Len(node) : Append(node, name)[i] = node[i]
      /\ Append(node, name)[Len(node) + 1] = name
  BY DEF Plain
<1>2. Plain(Append(node, name))
  BY <1>1 DEF Plain
<1>3. Append(node, name) # <<>>
  BY <1>1
<1>4. Front(Append(node, name)) = node
  BY <1>1 DEF Front, Plain
<1>5. QED
  BY <1>2, <1>3, <1>4

\* open(2) returns a descriptor that is not in use.
LEMMA FreeIsFree ==
  ASSUME NEW S, IsFiniteSet(S)
  PROVE  Free(S) \in Nat /\ Free(S) \notin S
<1> DEFINE C == Cardinality(S)
           Least(n) == n \notin S /\ \A k \in 1..(n - 1) : k \in S
           T == {n \in Nat : n <= C + 1 => \A k \in 1..n : k \in S}
<1>1. C \in Nat
  BY FS_CardinalityType
<1> HIDE DEF C
<1>2. PICK m \in 1..(C + 1) : m \notin S
  <2> SUFFICES ASSUME \A m \in 1..(C + 1) : m \in S PROVE FALSE
    OBVIOUS
  <2>1. 1..(C + 1) \in SUBSET S
    OBVIOUS
  <2>2. Cardinality(1..(C + 1)) <= C
    BY <2>1, FS_Subset DEF C
  <2>3. Cardinality(1..(C + 1)) = C + 1
    <3>1. 1 \in Int /\ C + 1 \in Int /\ ~(1 > C + 1) /\ (C + 1) - 1 + 1 = C + 1
      BY <1>1
    <3>2. QED
      BY <3>1, FS_Interval
  <2>4. QED
    BY <1>1, <2>2, <2>3
<1>3. \E n \in 1..(C + 1) : Least(n)
  <2> SUFFICES ASSUME \A n \in 1..(C + 1) : ~Least(n) PROVE FALSE
    OBVIOUS
  <2>1. 0 \in T
    OBVIOUS
  <2>2. ASSUME NEW n \in Nat, n \in T PROVE n + 1 \in T
    <3> SUFFICES ASSUME n + 1 <= C + 1 PROVE \A k \in 1..(n + 1) : k \in S
      OBVIOUS
    <3>1. n + 1 \in 1..(C + 1) /\ (n + 1) - 1 = n /\ n <= C + 1
      BY <1>1
    <3>2. \A k \in 1..n : k \in S
      BY <2>2, <3>1
    <3>3. n + 1 \in S
      BY <3>1, <3>2
    <3>4. \A k \in 1..(n + 1) : k \in 1..n \/ k = n + 1
      OBVIOUS
    <3>5. QED
      BY <3>2, <3>3, <3>4
  <2> HIDE DEF T
  <2>3. \A n \in Nat : n \in T
    BY <2>1, <2>2, SetInduction
  <2>4. m \in T /\ m <= C + 1 /\ m \in 1..m
    BY <1>1, <2>3
  <2>5. QED
    BY <1>2, <2>4 DEF T
<1>4. Free(S) = CHOOSE n \in 1..(C + 1) : Least(n)
  BY DEF Free, C
<1> HIDE DEF Least
<1>5. Free(S) \in 1..(C + 1) /\ Least(Free(S))
  BY <1>3, <1>4
<1>6. QED
  BY <1>1, <1>5 DEF Least

Entry == [fd : Nat, node : Seq(STRING)]

\* "..": the stack without its top.
LEMMA PopStack ==
  ASSUME StackInv, FDInv, Len(directories) > 1,
         directories' = Front(directories), current' = Last(directories')
  PROVE  /\ StackInv' /\ FDInv'
         /\ FDs(directories)' = FDs(directories) \ {Last(directories).fd}
         /\ current.node # <<>> /\ current'.node = Front(current.node)
<1> DEFINE len == Len(directories)
<1>1. len \in Nat /\ len > 1 /\ directories \in Seq(Entry)
  BY DEF StackInv, Entry
<1>2. /\ directories' \in Seq(Entry) /\ Len(directories') = len - 1
      /\ \A i \in 1..(len - 1) : directories'[i] = directories[i]
  BY <1>1 DEF Front
<1>3. Last(directories) = directories[len] /\ current = directories[len]
  BY DEF Last, StackInv
<1>4. current' = directories[len - 1] /\ current' = directories'[len - 1]
  BY <1>1, <1>2 DEF Last
<1> HIDE DEF len
<1>5. FDs(directories)' = FDs(directories) \ {Last(directories).fd}
  <2>1. FDs(directories)' = {directories[i].fd : i \in 1..(len - 1)}
    BY <1>2 DEF FDs
  <2>2. FDs(directories) = {directories[i].fd : i \in 1..len}
    BY DEF FDs, len
  <2>3. \A i \in 1..(len - 1) : directories[i].fd # directories[len].fd
    BY <1>1 DEF FDInv, len
  <2>4. QED
    BY <1>1, <1>3, <2>1, <2>2, <2>3
<1>6. current.node # <<>> /\ current'.node = Front(current.node)
  <2>1. len - 1 \in 1..(len - 1) /\ (len - 1) + 1 = len
    BY <1>1
  <2>2. QED
    BY <1>3, <1>4, <2>1 DEF StackInv, len
<1>7. StackInv'
  <2>1. directories'[1].node = <<>>
    BY <1>1, <1>2 DEF StackInv
  <2>2. \A i \in 1..(len - 1) : Plain(directories'[i].node)
    <3>1. \A i \in 1..len : Plain(directories[i].node)
      BY DEF StackInv, len
    <3>2. \A i \in 1..(len - 1) : i \in 1..len
      BY <1>1
    <3>3. QED
      BY <1>2, <3>1, <3>2
  <2>3. \A i \in 1..(len - 2) :
          /\ directories'[i + 1].node # <<>>
          /\ directories'[i].node = Front(directories'[i + 1].node)
    <3>1. \A i \in 1..(len - 1) :
            /\ directories[i + 1].node # <<>>
            /\ directories[i].node = Front(directories[i + 1].node)
      BY DEF StackInv, len
    <3>2. \A i \in 1..(len - 2) : i \in 1..(len - 1) /\ i + 1 \in 1..(len - 1)
      BY <1>1
    <3>3. QED
      BY <1>2, <3>1, <3>2
  <2>4. \A i \in 1..(len - 1) : Plain(directories[i].node)'
    BY <2>2 DEF Plain
  <2>5. Len(directories') = len - 1 /\ Len(directories') - 1 = len - 2
    BY <1>1, <1>2
  <2>6. QED
    BY <1>1, <1>2, <1>4, <2>1, <2>3, <2>4, <2>5 DEF StackInv, Entry
<1>8. FDInv'
  <2>1. /\ IsFiniteSet(FDs(directories)')
        /\ Cardinality(FDs(directories)') = len - 1
    <3>1. Last(directories).fd \in FDs(directories)
      BY <1>1, <1>3 DEF FDs, len
    <3>2. QED
      BY <1>5, <3>1, FS_RemoveElement DEF FDInv, len
  <2>2. \A i, j \in 1..(len - 1) :
          directories'[i].fd = directories'[j].fd => i = j
    BY <1>1, <1>2 DEF FDInv, len
  <2>3. QED
    BY <1>2, <2>1, <2>2 DEF FDInv
<1>9. QED
  BY <1>5, <1>6, <1>7, <1>8

\* A name: next goes on top of the stack.
LEMMA PushStack ==
  ASSUME StackInv, FDInv, next \in Entry, next.fd \notin FDs(directories),
         NEW name \in STRING, name # "..", next.node = Append(current.node, name),
         directories' = Append(directories, next), current' = next
  PROVE  /\ StackInv' /\ FDInv'
         /\ FDs(directories)' = FDs(directories) \cup {next.fd}
<1> DEFINE len == Len(directories)
<1>1. len \in Nat /\ len >= 1 /\ directories \in Seq(Entry)
  BY DEF StackInv, Entry
<1>2. /\ directories' \in Seq(Entry) /\ Len(directories') = len + 1
      /\ directories'[len + 1] = next
      /\ \A i \in 1..len : directories'[i] = directories[i]
  BY <1>1
<1>3. current = directories[len] /\ Plain(current.node)
  BY <1>1 DEF StackInv
<1>4. /\ Plain(next.node) /\ next.node # <<>>
      /\ Front(next.node) = directories[len].node
  BY <1>3, PlainEntry
<1> HIDE DEF len
<1>5. FDs(directories)' = FDs(directories) \cup {next.fd}
  <2>1. FDs(directories)' = {directories'[i].fd : i \in 1..(len + 1)}
    BY <1>2 DEF FDs
  <2>2. FDs(directories) = {directories[i].fd : i \in 1..len}
    BY DEF FDs, len
  <2>3. QED
    BY <1>1, <1>2, <2>1, <2>2
<1>6. StackInv'
  <2>1. directories'[1].node = <<>>
    BY <1>1, <1>2 DEF StackInv
  <2>2. \A i \in 1..(len + 1) : Plain(directories'[i].node)
    <3>1. \A i \in 1..len : Plain(directories'[i].node)
      BY <1>2 DEF StackInv, len
    <3>2. Plain(directories'[len + 1].node)
      BY <1>2, <1>4
    <3>3. \A i \in 1..(len + 1) : i \in 1..len \/ i = len + 1
      BY <1>1
    <3>4. QED
      BY <3>1, <3>2, <3>3
  <2>3. \A i \in 1..len :
          /\ directories'[i + 1].node # <<>>
          /\ directories'[i].node = Front(directories'[i + 1].node)
    <3>1. \A i \in 1..(len - 1) :
            /\ directories[i + 1].node # <<>>
            /\ directories[i].node = Front(directories[i + 1].node)
      BY DEF StackInv, len
    <3>2. \A i \in 1..(len - 1) : i \in 1..len /\ i + 1 \in 1..len
      BY <1>1
    <3>3. \A i \in 1..len : i \in 1..(len - 1) \/ i = len
      BY <1>1
    <3>4. len \in 1..len
      BY <1>1
    <3>5. QED
      BY <1>2, <1>4, <3>1, <3>2, <3>3, <3>4
  <2>4. \A i \in 1..(len + 1) : Plain(directories[i].node)'
    BY <2>2 DEF Plain
  <2>5. Len(directories') = len + 1 /\ Len(directories') - 1 = len
    BY <1>1, <1>2
  <2>6. current' = directories'[Len(directories')] /\ Len(directories') >= 1
    BY <1>1, <1>2, <2>5
  <2>7. QED
    BY <1>2, <2>1, <2>3, <2>4, <2>5, <2>6 DEF StackInv, Entry
<1>7. FDInv'
  <2>1. /\ IsFiniteSet(FDs(directories)')
        /\ Cardinality(FDs(directories)') = len + 1
    <3>1. IsFiniteSet(FDs(directories)) /\ Cardinality(FDs(directories)) = len
      BY DEF FDInv, len
    <3>2. QED
      BY <1>5, <3>1, FS_AddElement
  <2>2. \A i, j \in 1..(len + 1) :
          directories'[i].fd = directories'[j].fd => i = j
    <3>1. \A i \in 1..(len + 1) : i \in 1..len \/ i = len + 1
      BY <1>1
    <3>2. \A i \in 1..len : directories'[i].fd # next.fd
      BY <1>2 DEF FDs, len
    <3>3. \A i, j \in 1..len : directories'[i].fd = directories'[j].fd => i = j
      BY <1>2 DEF FDInv, len
    <3>4. QED
      BY <1>2, <3>1, <3>2, <3>3
  <2>3. QED
    BY <1>2, <2>1, <2>2 DEF FDInv
<1>8. QED
  BY <1>5, <1>6, <1>7

-----------------------------------------------------------------------------
(* Steps of the walkers.                                                    *)

\* A step over one component, in either walker: what is behind it grows by that
\* component, and the kernel goes along.
LEMMA Advance ==
  ASSUME path \in Seq(STRING), Taken \in 0..Len(path),
         rest = SubSeq(path, Taken + 1, Len(path)), rest # <<>>,
         UNCHANGED <<class, path>>, rest' = Tail(rest)
  PROVE  /\ Head(rest) \in STRING
         /\ rest' \in Seq(STRING) /\ Taken' \in 0..Len(path)
         /\ rest' = SubSeq(path, Taken' + 1, Len(path))
         /\ At(Taken)' = Lead(At(Taken), Head(rest))
         /\ /\ Passed(Taken)
            /\ Head(rest) # ".." =>
                 /\ Class(Append(At(Taken), Head(rest))) \in Directory
                 /\ EntryAllowed(At(Taken), Append(At(Taken), Head(rest)))
            => Passed(Taken)'
<1>1. PICK n \in 0..Len(path) : n = Taken
  OBVIOUS
<1>2. /\ n + 1 \in 1..Len(path) /\ Head(rest) = path[n + 1]
      /\ rest' = SubSeq(path, n + 2, Len(path)) /\ rest' \in Seq(STRING)
      /\ Len(rest') = Len(path) - (n + 1)
  BY <1>1, Ahead
<1>3. Len(path) \in Nat /\ n \in Nat /\ (n + 1) - 1 = n /\ (n + 1) + 1 = n + 2
  OBVIOUS
<1>4. Taken' = n + 1
  <2>1. Taken' = Len(path) - (Len(path) - (n + 1))
    BY <1>2 DEF Taken
  <2>2. QED
    BY <1>3, <2>1
<1>5. At(Taken)' = At(n + 1)
  <2>1. At(Taken)' = At(n + 1)'
    BY <1>4 DEF At
  <2>2. At(n + 1)' = At(n + 1)
    BY SameWay
  <2>3. QED
    BY <2>1, <2>2
<1>6. At(n + 1) = Lead(At(n), path[n + 1])
  BY <1>2, <1>3, AtStep
<1>7. ASSUME Passed(n),
             path[n + 1] # ".." =>
               /\ Class(Append(At(n), path[n + 1])) \in Directory
               /\ EntryAllowed(At(n), Append(At(n), path[n + 1]))
      PROVE  Passed(Taken)'
  <2>1. \A k \in 1..(n + 1) : k \in 1..n \/ k = n + 1
    BY <1>3
  <2>2. Passed(n + 1)
    BY <1>3, <1>7, <2>1 DEF Passed
  <2>3. Passed(n + 1)'
    BY <2>2, SameWay
  <2>4. QED
    BY <1>4, <2>3 DEF Passed
<1>8. Head(rest) \in STRING /\ Taken' \in 0..Len(path)
  BY <1>2, <1>3, <1>4
<1>9. QED
  BY <1>1, <1>2, <1>3, <1>4, <1>5, <1>6, <1>7, <1>8

\* Nothing changes along the path.
LEMMA Stands ==
  ASSUME UNCHANGED <<class, path, rest>>
  PROVE  /\ Taken' = Taken /\ At(Taken)' = At(Taken)
         /\ Passed(Taken)' = Passed(Taken)
<1>1. Taken' = Taken
  BY DEF Taken
<1>2. PICK n : n = Taken
  OBVIOUS
<1>3. At(Taken)' = At(n)' /\ Passed(Taken)' = Passed(n)'
  BY <1>1, <1>2 DEF At, Passed
<1>4. QED
  BY <1>1, <1>2, <1>3, SameWay

\* An entry ahead that the checks refuse.
LEMMA EntryRefused ==
  ASSUME path \in Seq(STRING), Taken \in 0..Len(path),
         rest = SubSeq(path, Taken + 1, Len(path)),
         rest # <<>>, Head(rest) # "..",
         \/ Class(Append(At(Taken), Head(rest))) \notin Directory
         \/ ~EntryAllowed(At(Taken), Append(At(Taken), Head(rest)))
  PROVE  ~Verdict
<1>1. PICK n \in 0..Len(path) : n = Taken
  OBVIOUS
<1>2. n + 1 \in 1..Len(path) /\ Head(rest) = path[n + 1]
  BY <1>1, Ahead
<1>3. (n + 1) - 1 = n
  OBVIOUS
<1>4. QED
  BY <1>1, <1>2, <1>3 DEF Verdict, Passed

\* The end of the path.
LEMMA AtEnd ==
  ASSUME path \in Seq(STRING), Taken \in 0..Len(path),
         rest = SubSeq(path, Taken + 1, Len(path)), rest = <<>>, Passed(Taken)
  PROVE  /\ At(Taken) = KernelWalk(path)
         /\ Verdict <=> DirectoryAllowed(KernelWalk(path))
<1>1. Len(path) \in Nat /\ Taken = Len(path)
  BY DEF Taken
<1>2. QED
  BY <1>1, AtStep DEF Verdict

\* openDirectoryPath returns an error.
LEMMA GivesUp ==
  ASSUME ControlInv, wpc \in Walking, NEW closed, NEW f \in BOOLEAN,
         GiveUp(closed, f), open \ closed = {}, f \/ ~Verdict
  PROVE  ControlInv'
<1>1. /\ first' = Failed(f) /\ open' = {} /\ wpc' = "between"
      /\ UNCHANGED <<class, path, resolved, second>>
  BY DEF GiveUp
<1>2. first'.done /\ first'.ok = FALSE /\ first'.node = <<>> /\ first'.faulty = f
  BY <1>1 DEF Failed
<1>3. "between" \notin Walking
  BY DEF Walking
<1>4. Truthful(first)'
  <2>1. Verdict' = Verdict
    BY <1>1, SameWay
  <2>2. first'.faulty \/ ~Verdict'
    BY <1>2, <2>1
  <2>3. QED
    BY <1>2, <2>2 DEF Truthful
<1>5. Truthful(second)'
  BY <1>1, SameWay DEF ControlInv, SecondInv, Truthful
<1>6. FirstInv'
  BY <1>1, <1>2, <1>3, <1>4 DEF FirstInv
<1>7. SecondInv'
  BY <1>1, <1>3, <1>5 DEF ControlInv, SecondInv, Walking
<1>8. OpenInv'
  BY <1>1, <1>2 DEF OpenInv
<1>9. RestInv' /\ path' \in PIDPaths
  BY <1>1, <1>3 DEF RestInv, ControlInv
<1>10. QED
  BY <1>1, <1>3, <1>6, <1>7, <1>8, <1>9 DEF ControlInv

\* openRootAnchoredDirectoryPath returns.
LEMMA Returns ==
  ASSUME ControlInv, wpc = "names", NEW result, NEW fds, Return(result, fds),
         result.done, Truthful(result), fds = IF result.ok THEN {1} ELSE {}
  PROVE  ControlInv'
<1>1. /\ second' = result /\ open' = fds /\ wpc' = "done"
      /\ UNCHANGED <<class, path, resolved, first>>
  BY DEF Return
<1>2. "done" \notin Walking /\ "names" \notin Walking
  BY DEF Walking
<1>3. Truthful(result)'
  BY <1>1, StaysTruthful
<1>4. Truthful(second)'
  BY <1>1, <1>3 DEF Truthful
<1>5. Truthful(first)'
  BY <1>1, SameWay DEF ControlInv, FirstInv, Truthful
<1>6. FirstInv'
  BY <1>1, <1>2, <1>5 DEF ControlInv, FirstInv
<1>7. SecondInv'
  BY <1>1, <1>2, <1>4 DEF SecondInv
<1>8. OpenInv'
  BY <1>1 DEF OpenInv
<1>9. RestInv' /\ path' \in PIDPaths
  BY <1>1, <1>2 DEF RestInv, ControlInv
<1>10. QED
  BY <1>1, <1>2, <1>6, <1>7, <1>8, <1>9 DEF ControlInv

\* All descriptors of the stack but the top.
LEMMA FrontFDs ==
  ASSUME StackInv, FDInv
  PROVE  FDs(Front(directories)) = FDs(directories) \ {current.fd}
<1> DEFINE len == Len(directories)
<1>1. len \in Nat /\ len >= 1 /\ directories \in Seq(Entry)
  BY DEF StackInv, Entry
<1>2. /\ Len(Front(directories)) = len - 1
      /\ \A i \in 1..(len - 1) : Front(directories)[i] = directories[i]
  <2>1. len - 1 \in 0..Len(directories)
    BY <1>1
  <2>2. QED
    BY <1>1, <2>1, PrefixComponents DEF Front
<1>3. current = directories[len]
  BY DEF StackInv
<1> HIDE DEF len
<1>4. FDs(Front(directories)) = {directories[i].fd : i \in 1..(len - 1)}
  BY <1>2 DEF FDs
<1>5. FDs(directories) = {directories[i].fd : i \in 1..len}
  BY DEF FDs, len
<1>6. \A i \in 1..(len - 1) : directories[i].fd # directories[len].fd
  BY <1>1 DEF FDInv, len
<1>7. QED
  BY <1>1, <1>3, <1>4, <1>5, <1>6

\* What a step of openDirectoryPath keeps of the second walker.
LEMMA SecondKept ==
  ASSUME ControlInv, wpc \in Walking, wpc' \in Walking,
         UNCHANGED <<class, path, resolved, second>>
  PROVE  SecondInv'
<1>1. Truthful(second)'
  BY SameWay DEF ControlInv, SecondInv, Truthful
<1>2. QED
  BY <1>1 DEF ControlInv, SecondInv, Walking

\* The directory on top of the stack.
LEMMA TopFacts ==
  ASSUME StackInv
  PROVE  /\ Len(directories) \in Nat /\ Len(directories) >= 1
         /\ current = directories[Len(directories)]
         /\ Plain(current.node) /\ current.node \in Seq(STRING)
<1>1. /\ directories \in Seq(Entry) /\ Len(directories) >= 1
      /\ current = directories[Len(directories)]
      /\ \A i \in 1..Len(directories) : Plain(directories[i].node)
  BY DEF StackInv, Entry
<1>2. Len(directories) \in Nat /\ Len(directories) \in 1..Len(directories)
  BY <1>1
<1>3. Plain(current.node)
  BY <1>1, <1>2
<1>4. QED
  BY <1>1, <1>2, <1>3 DEF Plain

\* "..".
LEMMA DotDotStep ==
  ASSUME ControlInv, path \in Seq(STRING), DotDot
  PROVE  ControlInv'
<1>1. /\ wpc = "walk" /\ wpc' = "walk" /\ rest # <<>> /\ Head(rest) = ".."
      /\ rest' = Tail(rest)
      /\ UNCHANGED <<class, path, next, resolved, first, second>>
  BY DEF DotDot
<1>2. "walk" \in Walking
  BY DEF Walking
<1>3. /\ StackInv /\ FDInv /\ open = FDs(directories)
      /\ current.node = At(Taken) /\ Passed(Taken) /\ ~first.done
      /\ Taken \in 0..Len(path) /\ rest = SubSeq(path, Taken + 1, Len(path))
  BY <1>1, <1>2 DEF ControlInv, RestInv, FirstInv, OpenInv
<1>4. /\ rest' \in Seq(STRING) /\ Taken' \in 0..Len(path)
      /\ rest' = SubSeq(path, Taken' + 1, Len(path))
      /\ At(Taken)' = Lead(At(Taken), "..") /\ Passed(Taken)'
  BY <1>1, <1>3, Advance
<1>5. Plain(current.node)
  BY <1>3, TopFacts
<1>6. /\ StackInv' /\ FDInv' /\ open' = FDs(directories)'
      /\ current'.node = Lead(current.node, "..")
  <2>1. CASE Len(directories) > 1
    <3>1. /\ directories' = Front(directories) /\ current' = Last(directories')
          /\ open' = open \ {Last(directories).fd}
      BY <2>1 DEF DotDot
    <3>2. /\ StackInv' /\ FDInv'
          /\ FDs(directories)' = FDs(directories) \ {Last(directories).fd}
          /\ current.node # <<>> /\ current'.node = Front(current.node)
      BY <1>3, <2>1, <3>1, PopStack
    <3>3. QED
      BY <1>3, <1>5, <3>1, <3>2, PlainFacts DEF Lead
  <2>2. CASE ~(Len(directories) > 1)
    <3>1. UNCHANGED <<open, directories, current>>
      BY <2>2 DEF DotDot
    <3>2. Len(directories) = 1
      <4>1. PICK n \in Nat : n = Len(directories) /\ n >= 1
        BY <1>3, TopFacts
      <4>2. ~(n > 1)
        BY <2>2, <4>1
      <4>3. n = 1
        BY <4>1, <4>2
      <4>4. QED
        BY <4>1, <4>3
    <3>3. current.node = <<>>
      <4>1. current = directories[1]
        BY <1>3, <3>2, TopFacts
      <4>2. directories[1].node = <<>>
        BY <1>3 DEF StackInv
      <4>3. QED
        BY <4>1, <4>2
    <3>4. StackInv' /\ FDInv' /\ open' = FDs(directories)'
      BY <1>3, <3>1 DEF StackInv, FDInv, FDs, Plain
    <3>5. QED
      BY <1>5, <3>1, <3>3, <3>4, PlainFacts DEF Lead
  <2>3. QED
    BY <2>1, <2>2
<1>7. FirstInv'
  BY <1>1, <1>2, <1>3, <1>4, <1>6 DEF FirstInv, Truthful
<1>8. SecondInv'
  BY <1>1, <1>2, SecondKept
<1>9. RestInv' /\ OpenInv' /\ path' \in PIDPaths
  BY <1>1, <1>4, <1>6 DEF RestInv, OpenInv, ControlInv
<1>10. QED
  BY <1>1, <1>2, <1>6, <1>7, <1>8, <1>9 DEF ControlInv

\* The checks on an entry, and its opening.
LEMMA EntryStep ==
  ASSUME ControlInv, path \in Seq(STRING), StatEntry \/ OpenEntry
  PROVE  ControlInv'
<1>1. wpc \in {"walk", "open"} /\ rest # <<>> /\ Head(rest) # ".."
  BY DEF StatEntry, OpenEntry, ControlInv, FirstInv
<1>2. wpc \in Walking /\ "open" \in Walking /\ "opened" \in Walking
  BY <1>1 DEF Walking
<1>3. /\ StackInv /\ FDInv /\ open = FDs(directories)
      /\ current.node = At(Taken) /\ Passed(Taken) /\ ~first.done
      /\ rest \in Seq(STRING) /\ Taken \in 0..Len(path)
      /\ rest = SubSeq(path, Taken + 1, Len(path))
  BY <1>1, <1>2 DEF ControlInv, RestInv, FirstInv, OpenInv
<1> DEFINE node == Append(current.node, Head(rest))
<1>4. CASE GiveUp(FDs(directories), FALSE) /\
           (Class(node) \notin Directory \/ ~EntryAllowed(current.node, node))
  <2>1. ~Verdict
    BY <1>1, <1>3, <1>4, EntryRefused
  <2>2. QED
    BY <1>2, <1>3, <1>4, <2>1, GivesUp
<1>5. CASE /\ wpc' \in {"open", "opened"} /\ EntryAllowed(current.node, node)
           /\ UNCHANGED <<class, path, rest, directories, current, resolved,
                          first, second>>
           /\ wpc' = "open" => open' = open
           /\ wpc' = "opened" =>
                /\ Class(node) \in Directory
                /\ next' = [fd |-> Free(open), node |-> node]
                /\ open' = open \cup {next'.fd}
  <2>1. /\ Taken' = Taken /\ At(Taken)' = At(Taken)
        /\ Passed(Taken)' = Passed(Taken)
    BY <1>5, Stands
  <2>2. StackInv' /\ FDInv' /\ FDs(directories)' = FDs(directories)
    <3>1. directories' = directories /\ current' = current
      BY <1>5
    <3>2. FDs(directories)' = FDs(directories)
      BY <3>1 DEF FDs
    <3>3. FDInv'
      BY <1>3, <3>1, <3>2 DEF FDInv
    <3>4. StackInv'
      BY <1>3, <3>1 DEF StackInv, Plain
    <3>5. QED
      BY <3>2, <3>3, <3>4
  <2>3. Free(open) \in Nat /\ Free(open) \notin open
    BY <1>3, FreeIsFree DEF FDInv
  <2>4. node \in Seq(STRING)
    <3>1. current.node \in Seq(STRING) /\ Head(rest) \in STRING
      BY <1>1, <1>3, TopFacts
    <3>2. QED
      BY <3>1
  <2>5. wpc' = "opened" =>
          /\ next' \in [fd : Nat, node : Seq(STRING)] /\ next'.node = node
          /\ next'.fd \notin FDs(directories)
    <3> HIDE DEF node
    <3>1. SUFFICES ASSUME next' = [fd |-> Free(open), node |-> node]
                   PROVE  /\ next' \in [fd : Nat, node : Seq(STRING)]
                          /\ next'.node = node /\ next'.fd \notin open
      BY <1>3, <1>5
    <3>2. PICK n \in Nat : n = Free(open) /\ n \notin open
      BY <2>3
    <3>3. QED
      BY <2>4, <3>1, <3>2
  <2>6. OpenInv'
    BY <1>3, <1>5, <2>2, <2>5 DEF OpenInv
  <2>7. EntryAllowed(current.node, Append(current.node, Head(rest)))'
    BY <1>5 DEF EntryAllowed, Class
  <2>8. wpc' = "opened" => Class(next.node)' \in Directory'
    BY <1>5, <2>5 DEF Class, Directory
  <2>9. FirstInv'
    BY <1>1, <1>2, <1>3, <1>5, <2>1, <2>5, <2>7, <2>8
       DEF FirstInv, Truthful, Directory
  <2>10. SecondInv'
    BY <1>2, <1>5, SecondKept
  <2>11. RestInv' /\ path' \in PIDPaths
    BY <1>3, <1>5, <2>1 DEF RestInv, ControlInv
  <2>12. QED
    BY <1>2, <1>5, <2>2, <2>6, <2>9, <2>10, <2>11 DEF ControlInv
<1>6. CASE StatEntry
  <2>1. \/ /\ GiveUp(FDs(directories), FALSE)
           /\ Class(node) \notin Directory \/ ~EntryAllowed(current.node, node)
        \/ /\ wpc' = "open" /\ EntryAllowed(current.node, node)
           /\ UNCHANGED <<class, path, rest, walk1, open, resolved, first, second>>
    BY <1>6 DEF StatEntry, Directory
  <2> HIDE DEF node
  <2>2. QED
    BY <1>4, <1>5, <2>1 DEF walk1
<1>7. CASE OpenEntry
  <2>1. wpc = "open" /\ EntryAllowed(current.node, node)
    BY <1>7 DEF OpenEntry, ControlInv, FirstInv
  <2>2. \/ GiveUp(FDs(directories), FALSE) /\ Class(node) \notin Directory
        \/ /\ next' = [fd |-> Free(open), node |-> node]
           /\ open' = open \cup {next'.fd} /\ wpc' = "opened"
           /\ Class(node) \in Directory
           /\ UNCHANGED <<class, path, rest, directories, current, resolved,
                          first, second>>
    BY <1>7 DEF OpenEntry
  <2> HIDE DEF node
  <2>3. QED
    BY <1>4, <1>5, <2>1, <2>2
<1>8. QED
  BY <1>6, <1>7

\* An entry that has been opened and verified goes on the stack.
LEMMA PushStep ==
  ASSUME ControlInv, path \in Seq(STRING), Push
  PROVE  ControlInv'
<1>1. /\ wpc = "opened" /\ wpc' = "walk" /\ rest' = Tail(rest) /\ current' = next
      /\ directories' = Append(directories, next)
      /\ UNCHANGED <<class, path, open, resolved, first, second>>
  BY DEF Push
<1>2. "walk" \in Walking /\ "opened" \in Walking
  BY DEF Walking
<1>3. /\ StackInv /\ FDInv /\ open = FDs(directories) \cup {next.fd}
      /\ next \in Entry /\ next.fd \notin FDs(directories)
  BY <1>1, <1>2 DEF ControlInv, OpenInv, Entry
<1>4. /\ current.node = At(Taken) /\ Passed(Taken) /\ ~first.done
      /\ rest # <<>> /\ Head(rest) # ".."
      /\ EntryAllowed(current.node, Append(current.node, Head(rest)))
      /\ next.node = Append(current.node, Head(rest))
      /\ Class(next.node) \in Directory
  BY <1>1, <1>2 DEF ControlInv, FirstInv
<1>5. Taken \in 0..Len(path) /\ rest = SubSeq(path, Taken + 1, Len(path))
  BY <1>1, <1>2 DEF ControlInv, RestInv
<1>6. /\ Head(rest) \in STRING
      /\ rest' \in Seq(STRING) /\ Taken' \in 0..Len(path)
      /\ rest' = SubSeq(path, Taken' + 1, Len(path))
      /\ At(Taken)' = Lead(current.node, Head(rest)) /\ Passed(Taken)'
  BY <1>1, <1>4, <1>5, Advance
<1>7. /\ StackInv' /\ FDInv'
      /\ FDs(directories)' = FDs(directories) \cup {next.fd}
  BY <1>1, <1>3, <1>4, <1>6, PushStack
<1>8. Lead(current.node, Head(rest)) = next.node
  BY <1>3, <1>4, TopFacts, PlainFacts DEF Lead
<1>9. FirstInv'
  BY <1>1, <1>2, <1>4, <1>6, <1>8 DEF FirstInv, Truthful
<1>10. SecondInv'
  BY <1>1, <1>2, SecondKept
<1>11. RestInv' /\ OpenInv' /\ path' \in PIDPaths
  BY <1>1, <1>3, <1>6, <1>7 DEF RestInv, OpenInv, ControlInv
<1>12. QED
  BY <1>1, <1>2, <1>7, <1>9, <1>10, <1>11 DEF ControlInv

\* A call of openDirectoryPath fails.
LEMMA FaultStep ==
  ASSUME ControlInv, StackFault \/ OpenedFault
  PROVE  ControlInv'
<1>1. CASE StackFault
  <2>1. wpc \in Walking /\ open = FDs(directories) /\ GiveUp(FDs(directories), TRUE)
    BY <1>1 DEF StackFault, ControlInv, OpenInv, Walking
  <2>2. QED
    BY <2>1, GivesUp
<1>2. CASE OpenedFault
  <2>1. /\ wpc \in Walking /\ open = FDs(directories) \cup {next.fd}
        /\ GiveUp(FDs(directories) \cup {next.fd}, TRUE)
    BY <1>2 DEF OpenedFault, ControlInv, OpenInv, Walking
  <2>2. QED
    BY <2>1, GivesUp
<1>3. QED
  BY <1>1, <1>2

\* openDirectoryPath is at the end of the path.
LEMMA FinishStep ==
  ASSUME ControlInv, path \in Seq(STRING), Finish
  PROVE  ControlInv'
<1>1. wpc = "walk" /\ rest = <<>> /\ wpc \in Walking
  BY DEF Finish, Walking
<1>2. /\ StackInv /\ FDInv /\ open = FDs(directories)
      /\ current.node = At(Taken) /\ Passed(Taken)
      /\ Taken \in 0..Len(path) /\ rest = SubSeq(path, Taken + 1, Len(path))
  BY <1>1 DEF ControlInv, RestInv, FirstInv, OpenInv
<1>3. /\ current.node = KernelWalk(path)
      /\ Verdict <=> DirectoryAllowed(current.node)
  BY <1>1, <1>2, AtEnd
<1>4. CASE ~DirectoryAllowed(current.node)
  <2>1. GiveUp(FDs(directories), FALSE)
    BY <1>4 DEF Finish
  <2>2. QED
    BY <1>1, <1>2, <1>3, <1>4, <2>1, GivesUp
<1>5. CASE DirectoryAllowed(current.node)
  <2>1. /\ first' = Found(current.node) /\ open' = open \ FDs(Front(directories))
        /\ wpc' = "between" /\ UNCHANGED <<class, path, current, resolved, second>>
    BY <1>5 DEF Finish
  <2>2. current.fd \in FDs(directories)
    <3>1. Len(directories) \in 1..Len(directories)
      BY <1>2, TopFacts
    <3>2. QED
      BY <1>2, <3>1, TopFacts DEF FDs
  <2>3. open' = {current.fd}
    BY <1>2, <2>1, <2>2, FrontFDs
  <2>4. first'.done /\ first'.ok = TRUE /\ first'.node = current.node
    BY <2>1 DEF Found
  <2>5. "between" \notin Walking
    BY DEF Walking
  <2>6. Truthful(first)' /\ Truthful(second)'
    BY <1>3, <1>5, <2>1, <2>4, SameWay DEF Truthful, ControlInv, SecondInv
  <2>7. FirstInv' /\ SecondInv'
    BY <1>1, <2>1, <2>4, <2>5, <2>6 DEF FirstInv, SecondInv, ControlInv
  <2>8. RestInv' /\ OpenInv' /\ path' \in PIDPaths
    BY <2>1, <2>3, <2>4, <2>5 DEF RestInv, OpenInv, ControlInv
  <2>9. QED
    BY <2>1, <2>5, <2>7, <2>8 DEF ControlInv
<1>6. QED
  BY <1>4, <1>5

\* openRootAnchoredDirectoryPath starts on the same path.
LEMMA BeginStep ==
  ASSUME ControlInv, path \in Seq(STRING), Begin
  PROVE  ControlInv'
<1>1. /\ wpc = "between" /\ wpc' = "names" /\ rest' = path /\ open' = {1}
      /\ UNCHANGED <<class, path, resolved, first, second>>
  BY DEF Begin
<1>2. "between" \notin Walking /\ "names" \notin Walking
  BY DEF Walking
<1>3. resolved = <<>> /\ first.done /\ ~second.done
  BY <1>1, <1>2 DEF ControlInv, FirstInv, SecondInv
<1>4. Len(path) \in Nat /\ Taken' = 0
  BY <1>1 DEF Taken
<1>5. path = SubSeq(path, 0 + 1, Len(path))
  OBVIOUS
<1>6. At(Taken)' = <<>>
  <2>1. At(Taken)' = At(0)'
    BY <1>4 DEF At
  <2>2. QED
    BY <1>1, <2>1, SameWay, AtStep
<1>7. Passed(Taken)'
  BY <1>4 DEF Passed
<1>8. Plain(<<>>)
  BY DEF Plain
<1>9. Plain(resolved)'
  BY <1>1, <1>3, <1>8 DEF Plain
<1>10. Truthful(first)' /\ Truthful(second)'
  <2>1. Verdict' = Verdict /\ KernelWalk(path)' = KernelWalk(path)
    BY <1>1, SameWay
  <2>2. Truthful(first) /\ Truthful(second)
    BY DEF ControlInv, FirstInv, SecondInv
  <2>3. QED
    BY <1>1, <2>1, <2>2 DEF Truthful
<1>11. FirstInv' /\ SecondInv'
  BY <1>1, <1>2, <1>3, <1>6, <1>7, <1>9, <1>10 DEF FirstInv, SecondInv
<1>12. RestInv' /\ OpenInv' /\ path' \in PIDPaths
  BY <1>1, <1>2, <1>4, <1>5 DEF RestInv, OpenInv, ControlInv
<1>13. QED
  BY <1>1, <1>2, <1>11, <1>12 DEF ControlInv

\* A component of openRootAnchoredDirectoryPath.
LEMMA NameStep ==
  ASSUME ControlInv, path \in Seq(STRING), DropName \/ AddName
  PROVE  ControlInv'
<1>1. wpc = "names" /\ rest # <<>> /\ wpc \notin Walking
  BY DEF DropName, AddName, Walking
<1>2. /\ resolved = At(Taken) /\ Passed(Taken) /\ Plain(resolved)
      /\ first.done /\ ~second.done /\ open = {1}
  BY <1>1 DEF ControlInv, FirstInv, SecondInv, OpenInv
<1>3. Taken \in 0..Len(path) /\ rest = SubSeq(path, Taken + 1, Len(path))
  BY <1>1 DEF ControlInv, RestInv
<1> DEFINE node == Append(resolved, Head(rest))
<1>4. CASE /\ rest' = Tail(rest) /\ resolved' = Lead(resolved, Head(rest))
           /\ Plain(resolved')
           /\ Head(rest) # ".." =>
                Class(node) \in Directory /\ EntryAllowed(resolved, node)
           /\ UNCHANGED <<class, path, wpc, open, first, second>>
  <2>1. /\ rest' \in Seq(STRING) /\ Taken' \in 0..Len(path)
        /\ rest' = SubSeq(path, Taken' + 1, Len(path))
        /\ At(Taken)' = Lead(resolved, Head(rest)) /\ Passed(Taken)'
    BY <1>1, <1>2, <1>3, <1>4, Advance
  <2>2. Truthful(first)' /\ Truthful(second)'
    <3>1. Verdict' = Verdict /\ KernelWalk(path)' = KernelWalk(path)
      BY <1>4, SameWay
    <3>2. Truthful(first) /\ Truthful(second)
      BY DEF ControlInv, FirstInv, SecondInv
    <3>3. QED
      BY <1>4, <3>1, <3>2 DEF Truthful
  <2>3. Plain(resolved)'
    BY <1>4 DEF Plain
  <2>4. FirstInv'
    BY <1>1, <1>2, <1>4, <2>2 DEF FirstInv
  <2>5. SecondInv'
    BY <1>1, <1>2, <1>4, <2>1, <2>2, <2>3 DEF SecondInv
  <2>6. RestInv' /\ OpenInv' /\ path' \in PIDPaths
    BY <1>1, <1>2, <1>4, <2>1 DEF RestInv, OpenInv, ControlInv
  <2>7. QED
    BY <1>1, <1>4, <2>4, <2>5, <2>6 DEF ControlInv
<1>5. CASE DropName
  <2>1. /\ Head(rest) = ".." /\ rest' = Tail(rest)
        /\ resolved' = IF resolved = <<>> THEN resolved ELSE Front(resolved)
        /\ UNCHANGED <<class, path, wpc, open, first, second>>
    BY <1>5 DEF DropName
  <2>2. resolved' = Lead(resolved, "..") /\ Plain(resolved')
    BY <1>2, <2>1, PlainFacts DEF Lead
  <2> HIDE DEF node
  <2>3. QED
    BY <1>4, <2>1, <2>2
<1>6. CASE AddName
  <2>1. Head(rest) # ".."
    BY <1>6 DEF AddName
  <2>2. CASE Class(node) \notin Directory \/ ~EntryAllowed(resolved, node)
    <3>1. Return(Failed(FALSE), {})
      BY <1>6, <2>2 DEF AddName
    <3>2. ~Verdict
      BY <1>1, <1>2, <1>3, <2>1, <2>2, EntryRefused
    <3>3. Failed(FALSE).done /\ ~Failed(FALSE).ok /\ Truthful(Failed(FALSE))
      BY <3>2 DEF Failed, Truthful
    <3>4. QED
      BY <1>1, <3>1, <3>3, Returns
  <2>3. CASE Class(node) \in Directory /\ EntryAllowed(resolved, node)
    <3>1. /\ resolved' = node /\ rest' = Tail(rest)
          /\ UNCHANGED <<class, path, wpc, open, first, second>>
      BY <1>6, <2>3 DEF AddName
    <3>2. Lead(resolved, Head(rest)) = node
      BY <1>2, <2>1, <2>3, PlainFacts DEF Lead
    <3>3. Head(rest) \in STRING
      BY <1>1, <1>3, <3>1, Advance
    <3>4. Plain(node)
      BY <1>2, <2>1, <3>3, PlainEntry
    <3> HIDE DEF node
    <3>5. QED
      BY <1>4, <2>3, <3>1, <3>2, <3>4
  <2>4. QED
    BY <2>2, <2>3
<1>7. QED
  BY <1>5, <1>6

\* openRootAnchoredDirectoryPath returns.
LEMMA NamesStep ==
  ASSUME ControlInv, path \in Seq(STRING), Names \/ NamesFault
  PROVE  ControlInv'
<1>1. wpc = "names" /\ wpc \notin Walking
  BY DEF Names, NamesFault, Walking
<1>2. CASE NamesFault
  <2>1. Return(Failed(TRUE), {})
    BY <1>2 DEF NamesFault
  <2>2. Failed(TRUE).done /\ ~Failed(TRUE).ok /\ Truthful(Failed(TRUE))
    BY DEF Failed, Truthful
  <2>3. QED
    BY <1>1, <2>1, <2>2, Returns
<1>3. CASE Names
  <2>1. /\ rest = <<>> /\ open = {1} /\ resolved = At(Taken) /\ Passed(Taken)
        /\ Taken \in 0..Len(path) /\ rest = SubSeq(path, Taken + 1, Len(path))
    BY <1>1, <1>3 DEF Names, ControlInv, RestInv, SecondInv, OpenInv
  <2>2. resolved = KernelWalk(path) /\ (Verdict <=> DirectoryAllowed(resolved))
    BY <2>1, AtEnd
  <2>3. CASE DirectoryAllowed(resolved)
    <3>1. Return(Found(resolved), {1})
      BY <1>3, <2>1, <2>3 DEF Names
    <3>2. /\ Found(resolved).done /\ Found(resolved).ok
          /\ Truthful(Found(resolved))
      BY <2>2, <2>3 DEF Found, Truthful
    <3>3. QED
      BY <1>1, <3>1, <3>2, Returns
  <2>4. CASE ~DirectoryAllowed(resolved)
    <3>1. Return(Failed(FALSE), {})
      BY <1>3, <2>4 DEF Names
    <3>2. Failed(FALSE).done /\ ~Failed(FALSE).ok /\ Truthful(Failed(FALSE))
      BY <2>2, <2>4 DEF Failed, Truthful
    <3>3. QED
      BY <1>1, <3>1, <3>2, Returns
  <2>5. QED
    BY <2>3, <2>4
<1>4. QED
  BY <1>2, <1>3

\* Both walkers start at "/", with nothing walked.
LEMMA InitControlInv ==
  ASSUME ControlInit
  PROVE  ControlInv
<1>1. /\ path \in Seq(STRING) /\ wpc = "walk" /\ rest = path
      /\ directories = <<current>> /\ open = {1} /\ resolved = <<>>
      /\ first = Unknown /\ second = Unknown
  BY PIDPathsAssumption DEF ControlInit
<1>2. current = [fd |-> 1, node |-> <<>>]
  BY DEF ControlInit
<1>3. current \in Entry /\ current.fd = 1 /\ current.node = <<>>
  BY <1>2 DEF Entry
<1>4. Len(path) \in Nat /\ Taken = 0
  BY <1>1 DEF Taken
<1>5. RestInv
  <2>1. path = SubSeq(path, 0 + 1, Len(path))
    BY <1>1
  <2>2. QED
    BY <1>1, <1>4, <2>1 DEF RestInv
<1>6. FirstInv /\ SecondInv
  <2>1. At(Taken) = <<>> /\ Passed(Taken)
    BY <1>1, <1>4, AtStep DEF Passed
  <2>2. ~first.done /\ ~second.done
    BY <1>1 DEF Unknown
  <2>3. Truthful(first) /\ Truthful(second)
    BY <2>2 DEF Truthful
  <2>4. QED
    BY <1>1, <1>3, <2>1, <2>2, <2>3 DEF FirstInv, SecondInv, Walking
<1>7. /\ directories \in Seq(Entry) /\ Len(directories) = 1
      /\ directories[1] = current
  BY <1>1, <1>3
<1>8. StackInv
  <2>1. Plain(<<>>)
    BY DEF Plain
  <2>2. Plain(directories[1].node) /\ directories[1].node = <<>>
    BY <1>3, <1>7, <2>1
  <2>3. QED
    BY <1>7, <2>2 DEF StackInv, Entry
<1>9. FDs(directories) = {1}
  BY <1>3, <1>7 DEF FDs
<1>10. FDInv
  <2>1. IsFiniteSet({1}) /\ Cardinality({1}) = 1
    BY FS_Singleton
  <2>2. QED
    BY <1>7, <1>9, <2>1 DEF FDInv
<1>11. QED
  BY <1>1, <1>5, <1>6, <1>8, <1>9, <1>10 DEF ControlInv, OpenInv, Walking, ControlInit

\* Every step keeps the invariant.
LEMMA NextControlInv ==
  ASSUME ControlInv, [ControlNext]_controlVars
  PROVE  ControlInv'
<1>1. path \in Seq(STRING)
  BY PIDPathsAssumption DEF ControlInv
<1>2. CASE DotDot
  BY <1>1, <1>2, DotDotStep
<1>3. CASE StatEntry \/ OpenEntry
  BY <1>1, <1>3, EntryStep
<1>4. CASE Push
  BY <1>1, <1>4, PushStep
<1>5. CASE StackFault \/ OpenedFault
  BY <1>5, FaultStep
<1>6. CASE Finish
  BY <1>1, <1>6, FinishStep
<1>7. CASE Begin
  BY <1>1, <1>7, BeginStep
<1>8. CASE DropName \/ AddName
  BY <1>1, <1>8, NameStep
<1>9. CASE Names \/ NamesFault
  BY <1>1, <1>9, NamesStep
<1>10. CASE UNCHANGED controlVars
  <2>1. UNCHANGED <<class, path, wpc, rest, directories, current, next, open,
                    resolved, first, second>>
    BY <1>10 DEF controlVars
  <2>2. /\ At(Taken)' = At(Taken) /\ Passed(Taken)' = Passed(Taken)
        /\ Taken' = Taken
    BY <2>1, Stands
  <2>3. Truthful(first)' /\ Truthful(second)'
    <3>1. Verdict' = Verdict /\ KernelWalk(path)' = KernelWalk(path)
      BY <2>1, SameWay
    <3>2. Truthful(first) /\ Truthful(second)
      BY DEF ControlInv, FirstInv, SecondInv
    <3>3. QED
      BY <2>1, <3>1, <3>2 DEF Truthful
  <2>4. RestInv' /\ OpenInv'
    BY <2>1, <2>2 DEF ControlInv, RestInv, OpenInv, FDs
  <2>5. FirstInv'
    BY <2>1, <2>2, <2>3 DEF ControlInv, FirstInv, EntryAllowed, Class
  <2>6. SecondInv'
    BY <2>1, <2>2, <2>3 DEF ControlInv, SecondInv, Plain
  <2>7. wpc \in Walking => StackInv' /\ FDInv'
    BY <2>1 DEF ControlInv, StackInv, FDInv, FDs, Plain
  <2>8. QED
    BY <2>1, <2>4, <2>5, <2>6, <2>7 DEF ControlInv
<1>11. QED
  BY <1>2, <1>3, <1>4, <1>5, <1>6, <1>7, <1>8, <1>9, <1>10 DEF ControlNext, ControlDone

LEMMA AlwaysControlInv == ControlSpec => []ControlInv
<1>1. ControlInit => ControlInv
  BY InitControlInv
<1>2. ControlInv /\ [ControlNext]_controlVars => ControlInv'
  BY NextControlInv
<1>3. QED
  BY <1>1, <1>2, PTL DEF ControlSpec

-----------------------------------------------------------------------------
(* The theorems about the walkers.                                          *)

\* Whatever tree and path, openDirectoryPath returns the directory that its
\* path names, and refuses it only for a cause.
THEOREM WalkIsAlwaysExact == ControlSpec => []WalkIsExact
<1>1. ASSUME ControlInv PROVE WalkIsExact
  <2>1. path \in Seq(STRING) /\ Truthful(first)
    BY <1>1, PIDPathsAssumption DEF ControlInv, FirstInv
  <2>2. ~Verdict =>
          \/ KernelWalk(path) = Nowhere
          \/ \E n \in 0..Len(path) : Class(KernelWalk(SubSeq(path, 1, n))) # "tight"
    BY <2>1, RefusedForCause DEF At
  <2>3. QED
    BY <2>1, <2>2 DEF WalkIsExact, Truthful
<1>2. QED
  BY <1>1, AlwaysControlInv, PTL

\* The two walkers accept the same paths and find the same directory.
THEOREM WalkersAlwaysAgree == ControlSpec => []WalkersAgree
<1>1. ASSUME ControlInv PROVE WalkersAgree
  BY <1>1 DEF ControlInv, FirstInv, SecondInv, Truthful, WalkersAgree
<1>2. QED
  BY <1>1, AlwaysControlInv, PTL

\* No walk leaks a descriptor, whichever call of it fails.
THEOREM FDsAlwaysBalanced == ControlSpec => []FDsBalanced
<1>1. ASSUME ControlInv PROVE FDsBalanced
  <2>1. ASSUME wpc \in Walking
        PROVE  /\ current = Last(directories)
               /\ Cardinality(FDs(directories)) = Len(directories)
               /\ FDs(directories) \subseteq open
    BY <1>1, <2>1 DEF ControlInv, StackInv, FDInv, OpenInv, Walking, Last
  <2>2. QED
    BY <1>1, <2>1 DEF ControlInv, OpenInv, Walking, FDsBalanced
<1>2. QED
  BY <1>1, AlwaysControlInv, PTL

-----------------------------------------------------------------------------
(* The worker's command: the fold that Walk is.                             *)

\* The function that FoldLeft unfolds to, over the first k components.
IsLookupIter(g, d, s, k) ==
  g = [t \in SUBSET (1..k) |->
         IF t = {} THEN d
         ELSE Enter(g[t \ {Max(t)}], s[Max(t)])]

\* The directories that a walk comes through, one after the other.
IsLookup(v, d, s, k) ==
  v[0] = d /\ \A n \in 1..k : v[n] = Enter(v[n - 1], s[n])

\* There is one for every number of components.
LEMMA LookupIterExists ==
  ASSUME NEW d, NEW s
  PROVE  \A k \in Nat : \E g : IsLookupIter(g, d, s, k)
<1> DEFINE S == {k \in Nat : \E g : IsLookupIter(g, d, s, k)}
<1>1. 0 \in S
  <2>1. IsLookupIter([t \in SUBSET (1..0) |-> d], d, s, 0)
    BY DEF IsLookupIter
  <2>2. QED
    BY <2>1
<1>2. ASSUME NEW k \in Nat, k \in S PROVE k + 1 \in S
  <2>1. PICK g : IsLookupIter(g, d, s, k)
    BY <1>2
  <2> DEFINE G == [t \in SUBSET (1..(k + 1)) |->
                     IF k + 1 \in t THEN Enter(g[t \ {k + 1}], s[k + 1])
                     ELSE g[t]]
             Out(t) == IF t = {} THEN d
                       ELSE Enter(G[t \ {Max(t)}], s[Max(t)])
  <2>2. ASSUME NEW t \in SUBSET (1..(k + 1)) PROVE G[t] = Out(t)
    <3>1. CASE k + 1 \in t
      <4>1. Max(t) = k + 1
        BY <3>1, MaxOfTop
      <4>2. G[t \ {k + 1}] = g[t \ {k + 1}]
        OBVIOUS
      <4>3. QED
        BY <3>1, <4>1, <4>2
    <3>2. CASE k + 1 \notin t
      <4>1. t \in SUBSET (1..k)
        BY <3>2
      <4>2. G[t \ {Max(t)}] = g[t \ {Max(t)}]
        BY <3>2
      <4>3. g[t] = IF t = {} THEN d
                   ELSE Enter(g[t \ {Max(t)}], s[Max(t)])
        BY <2>1, <4>1 DEF IsLookupIter
      <4>4. QED
        BY <3>2, <4>2, <4>3
    <3>3. QED
      BY <3>1, <3>2
  <2>3. G = [t \in SUBSET (1..(k + 1)) |-> Out(t)]
    <3>1. G = [t \in SUBSET (1..(k + 1)) |-> G[t]]
      OBVIOUS
    <3> HIDE DEF G
    <3>2. QED
      BY <2>2, <3>1
  <2>4. IsLookupIter(G, d, s, k + 1)
    BY <2>3 DEF IsLookupIter
  <2>5. QED
    BY <2>4
<1> HIDE DEF S
<1>3. \A k \in Nat : k \in S
  BY <1>1, <1>2, SetInduction
<1>4. QED
  BY <1>3 DEF S

\* The walk ends where its trace does.
LEMMA LookupTrace ==
  ASSUME NEW d, NEW s, NEW k \in Nat, DOMAIN s = 1..k
  PROVE  \E v : IsLookup(v, d, s, k) /\ Walk(d, s) = v[k]
<1> DEFINE h == CHOOSE h : h = [t \in SUBSET (1..k) |->
                  IF t = {} THEN d
                  ELSE Enter(h[t \ {Max(t)}], s[Max(t)])]
           v == [n \in 0..k |-> h[1..n]]
<1>1. Walk(d, s) = h[1..k]
  BY DEF Walk, FoldLeft, MapThenFoldSet
<1>2. h = [t \in SUBSET (1..k) |->
             IF t = {} THEN d
             ELSE Enter(h[t \ {Max(t)}], s[Max(t)])]
  <2>1. PICK g : IsLookupIter(g, d, s, k)
    BY LookupIterExists
  <2>2. QED
    BY <2>1 DEF IsLookupIter
<1> HIDE DEF h
<1>3. v[0] = d
  BY <1>2
<1>4. ASSUME NEW n \in 1..k PROVE v[n] = Enter(v[n - 1], s[n])
  <2>1. Max(1..n) = n
    <3>1. n - 1 \in Nat /\ (n - 1) + 1 = n
      OBVIOUS
    <3>2. 1..n \in SUBSET (1..((n - 1) + 1)) /\ (n - 1) + 1 \in 1..n
      BY <3>1
    <3>3. QED
      BY <3>1, <3>2, MaxOfTop
  <2>2. (1..n) \ {n} = 1..(n - 1)
    <3>1. \A m : m \in (1..n) \ {n} <=> m \in 1..(n - 1)
      OBVIOUS
    <3>2. QED
      BY <3>1, Zenon
  <2>3. h[1..n] = Enter(h[1..(n - 1)], s[n])
    <3>1. n \in 1..n /\ \A m \in 1..n : m \in 1..k
      OBVIOUS
    <3>2. 1..n # {} /\ 1..n \in SUBSET (1..k)
      BY <3>1, Zenon
    <3>3. QED
      BY <1>2, <2>1, <2>2, <3>2
  <2>4. QED
    BY <2>3
<1>5. v[k] = h[1..k]
  OBVIOUS
<1> HIDE DEF v
<1>6. IsLookup(v, d, s, k)
  BY <1>3, <1>4 DEF IsLookup
<1>7. QED
  BY <1>1, <1>5, <1>6

\* Two traces of a walk are the same.
LEMMA LookupUnique ==
  ASSUME NEW d, NEW s, NEW k \in Nat, NEW u, NEW v,
         IsLookup(u, d, s, k), IsLookup(v, d, s, k)
  PROVE  u[k] = v[k]
<1> DEFINE S == {n \in Nat : n <= k => u[n] = v[n]}
<1>1. 0 \in S
  BY DEF IsLookup
<1>2. ASSUME NEW n \in Nat, n \in S PROVE n + 1 \in S
  <2> SUFFICES ASSUME n + 1 <= k PROVE u[n + 1] = v[n + 1]
    OBVIOUS
  <2>1. u[n] = v[n] /\ n + 1 \in 1..k /\ (n + 1) - 1 = n
    BY <1>2
  <2>2. /\ u[n + 1] = Enter(u[n], s[n + 1])
        /\ v[n + 1] = Enter(v[n], s[n + 1])
    BY <2>1 DEF IsLookup
  <2>3. QED
    BY <2>1, <2>2
<1> HIDE DEF S
<1>3. \A n \in Nat : n \in S
  BY <1>1, <1>2, SetInduction
<1>4. QED
  BY <1>3 DEF S

LEMMA LookupEnds ==
  ASSUME NEW d, NEW s, NEW k \in Nat, DOMAIN s = 1..k, NEW v, IsLookup(v, d, s, k)
  PROVE  Walk(d, s) = v[k]
  BY LookupTrace, LookupUnique

\* A walk over two lists of components is two walks.
LEMMA WalkTwice ==
  ASSUME NEW S, NEW d, NEW a \in Seq(S), NEW b \in Seq(S)
  PROVE  Walk(d, a \o b) = Walk(Walk(d, a), b)
<1>1. PICK k \in Nat, m \in Nat : k = Len(a) /\ m = Len(b)
  OBVIOUS
<1>2. DOMAIN a = 1..k /\ DOMAIN b = 1..m
  BY <1>1
<1>3. PICK u : IsLookup(u, d, a, k) /\ Walk(d, a) = u[k]
  BY <1>2, LookupTrace
<1>4. PICK w : IsLookup(w, u[k], b, m) /\ Walk(u[k], b) = w[m]
  BY <1>2, LookupTrace
<1>5. DOMAIN (a \o b) = 1..(k + m) /\ k + m \in Nat
  BY <1>1
<1>6. /\ \A n \in 1..k : (a \o b)[n] = a[n]
      /\ \A n \in (k + 1)..(k + m) : (a \o b)[n] = b[n - k]
  BY <1>1
<1> DEFINE v == [n \in 0..(k + m) |-> IF n <= k THEN u[n] ELSE w[n - k]]
<1>7. /\ \A n \in 0..k : v[n] = u[n]
      /\ \A n \in k..(k + m) : v[n] = w[n - k]
  <2>1. ASSUME NEW n \in 0..k PROVE v[n] = u[n]
    BY <1>1
  <2>2. ASSUME NEW n \in k..(k + m) PROVE v[n] = w[n - k]
    <3>1. CASE n = k
      <4>1. v[n] = u[k] /\ n - k = 0
        BY <1>1, <3>1
      <4>2. w[0] = u[k]
        BY <1>4 DEF IsLookup
      <4>3. QED
        BY <4>1, <4>2
    <3>2. CASE n # k
      BY <1>1, <3>2
    <3>3. QED
      BY <3>1, <3>2
  <2>3. QED
    BY <2>1, <2>2
<1> HIDE DEF v
<1>8. v[0] = d
  <2>1. 0 \in 0..k /\ u[0] = d
    BY <1>3 DEF IsLookup
  <2>2. QED
    BY <1>7, <2>1
<1>9. ASSUME NEW n \in 1..(k + m) PROVE v[n] = Enter(v[n - 1], (a \o b)[n])
  <2>1. CASE n \in 1..k
    <3>1. n \in 0..k /\ n - 1 \in 0..k
      BY <2>1
    <3>2. u[n] = Enter(u[n - 1], a[n])
      BY <1>3, <2>1 DEF IsLookup
    <3>3. QED
      BY <1>6, <1>7, <2>1, <3>1, <3>2
  <2>2. CASE n \in (k + 1)..(k + m)
    <3>1. /\ n \in k..(k + m) /\ n - 1 \in k..(k + m) /\ n - k \in 1..m
          /\ (n - 1) - k = (n - k) - 1
      BY <2>2
    <3>2. w[n - k] = Enter(w[(n - k) - 1], b[n - k])
      BY <1>4, <3>1 DEF IsLookup
    <3>3. v[n] = w[n - k] /\ v[n - 1] = w[(n - k) - 1]
      BY <1>7, <3>1
    <3>4. QED
      BY <1>6, <2>2, <3>2, <3>3
  <2>3. n \in 1..k \/ n \in (k + 1)..(k + m)
    OBVIOUS
  <2>4. QED
    BY <2>1, <2>2, <2>3
<1>10. IsLookup(v, d, a \o b, k + m)
  BY <1>8, <1>9 DEF IsLookup
<1>11. v[k + m] = w[m]
  <2>1. k + m \in k..(k + m) /\ (k + m) - k = m
    OBVIOUS
  <2>2. QED
    BY <1>7, <2>1
<1>12. Walk(d, a \o b) = v[k + m]
  BY <1>5, <1>10, LookupEnds
<1>13. QED
  BY <1>3, <1>4, <1>11, <1>12

\* No components lead nowhere else.
LEMMA WalkNothing ==
  ASSUME NEW d
  PROVE  Walk(d, <<>>) = d
<1>1. DOMAIN <<>> = 1..0 /\ 0 \in Nat
  OBVIOUS
<1>2. PICK v : IsLookup(v, d, <<>>, 0) /\ Walk(d, <<>>) = v[0]
  BY <1>1, LookupTrace
<1>3. QED
  BY <1>2 DEF IsLookup

\* From nowhere, no components lead anywhere.
LEMMA WalkNowhere ==
  ASSUME NEW S, NEW parts \in Seq(S)
  PROVE  Walk(None, parts) = None
<1>1. PICK k \in Nat : k = Len(parts)
  OBVIOUS
<1>2. DOMAIN parts = 1..k
  BY <1>1
<1>3. PICK v : IsLookup(v, None, parts, k) /\ Walk(None, parts) = v[k]
  BY <1>2, LookupTrace
<1> DEFINE T == {n \in Nat : n <= k => v[n] = None}
<1>4. 0 \in T
  BY <1>3 DEF IsLookup
<1>5. ASSUME NEW n \in Nat, n \in T PROVE n + 1 \in T
  <2> SUFFICES ASSUME n + 1 <= k PROVE v[n + 1] = None
    OBVIOUS
  <2>1. v[n] = None /\ n + 1 \in 1..k /\ (n + 1) - 1 = n
    BY <1>5
  <2>2. v[n + 1] = Enter(v[n], parts[n + 1])
    BY <1>3, <2>1 DEF IsLookup
  <2>3. QED
    BY <2>1, <2>2 DEF Enter
<1> HIDE DEF T
<1>6. \A n \in Nat : n \in T
  BY <1>4, <1>5, SetInduction
<1>7. QED
  BY <1>3, <1>6 DEF T

\* The directory that a file of a joined path is in.
LEMMA FrontOfJoin ==
  ASSUME NEW S, NEW a \in Seq(S), NEW b \in Seq(S), b # <<>>
  PROVE  Front(a \o b) = a \o Front(b) /\ Front(b) \in Seq(S)
<1>1. PICK k \in Nat, m \in Nat : k = Len(a) /\ m = Len(b) /\ m >= 1
  OBVIOUS
<1>2. /\ Front(b) = SubSeq(b, 1, m - 1)
      /\ Front(a \o b) = SubSeq(a \o b, 1, (k + m) - 1)
  BY <1>1 DEF Front
<1>3. SubSeq(b, 1, m - 1) \in Seq(S) /\ Len(SubSeq(b, 1, m - 1)) = m - 1
  BY <1>1
<1>4. SubSeq(a \o b, 1, (k + m) - 1) = a \o SubSeq(b, 1, m - 1)
  BY <1>1, <1>3
<1>5. QED
  BY <1>2, <1>3, <1>4

\* The file that the path of a command in a directory names is the file that
\* the command names after a change to the directory.
LEMMA JoinedFile ==
  ASSUME NEW S, NEW c \in [abs : BOOLEAN, parts : Seq(S)],
         c.parts # <<>>, NEW p \in [abs : BOOLEAN, parts : Seq(S)], ~c.abs
  PROVE  FileAt(cwd, [abs |-> p.abs, parts |-> p.parts \o c.parts])
           = FileAt(Walk(IF p.abs THEN Root ELSE cwd, p.parts), c)
<1>1. PICK d : d = IF p.abs THEN Root ELSE cwd
  OBVIOUS
<1>2. FileAt(cwd, [abs |-> p.abs, parts |-> p.parts \o c.parts])
        = Walk(d, Front(p.parts \o c.parts))
  BY <1>1 DEF FileAt
<1>3. FileAt(Walk(d, p.parts), c) = Walk(Walk(d, p.parts), Front(c.parts))
  BY DEF FileAt
<1>4. p.parts \in Seq(S) /\ c.parts \in Seq(S)
  OBVIOUS
<1>5. /\ Front(p.parts \o c.parts) = p.parts \o Front(c.parts)
      /\ Front(c.parts) \in Seq(S)
  BY <1>4, FrontOfJoin
<1>6. Walk(d, p.parts \o Front(c.parts)) = Walk(Walk(d, p.parts), Front(c.parts))
  BY <1>4, <1>5, WalkTwice
<1>7. QED
  BY <1>1, <1>2, <1>3, <1>5, <1>6

\* A path is not a bare name once it has been joined to a directory.
LEMMA NotBare ==
  ASSUME NEW S, NEW c \in [abs : BOOLEAN, parts : Seq(S)],
         c.parts # <<>>, NEW p \in [abs : BOOLEAN, parts : Seq(S)], ~NoDir(p)
  PROVE  ~Bare([abs |-> p.abs, parts |-> p.parts \o c.parts])
<1>1. PICK k \in Nat, m \in Nat : k = Len(p.parts) /\ m = Len(c.parts) /\ m >= 1
  OBVIOUS
<1>2. Len(p.parts \o c.parts) = k + m
  BY <1>1
<1>3. p.abs \/ k >= 1
  BY <1>1 DEF NoDir
<1>4. QED
  BY <1>1, <1>2, <1>3 DEF Bare

\* NewStarter and execve look at the same file.
LEMMA SameFile ==
  ASSUME NEW S, NEW c \in [abs : BOOLEAN, parts : Seq(S)],
         c.parts # <<>>, NEW p \in [abs : BOOLEAN, parts : Seq(S)]
  PROVE  LookPath(commandForValidation(c, p))
           = FileAt(Walk(IF p.abs THEN Root ELSE cwd, p.parts),
                    IF Bare(c) THEN PATH ELSE c)
<1>1. CASE Bare(c)
  <2>1. commandForValidation(c, p) = c
    BY <1>1 DEF commandForValidation
  <2>2. PATH.abs
    BY DEF PATH
  <2>3. QED
    BY <1>1, <2>1, <2>2 DEF LookPath, FileAt
<1>2. CASE ~Bare(c) /\ c.abs
  <2>1. commandForValidation(c, p) = c
    BY <1>2 DEF commandForValidation
  <2>2. QED
    BY <1>2, <2>1 DEF LookPath, FileAt
<1>3. CASE ~Bare(c) /\ ~c.abs /\ NoDir(p)
  <2>1. commandForValidation(c, p) = c
    BY <1>3 DEF commandForValidation
  <2>2. Walk(IF p.abs THEN Root ELSE cwd, p.parts) = cwd
    BY <1>3, WalkNothing DEF NoDir
  <2>3. QED
    BY <1>3, <2>1, <2>2 DEF LookPath
<1>4. CASE ~Bare(c) /\ ~c.abs /\ ~NoDir(p)
  <2>1. commandForValidation(c, p) = [abs |-> p.abs, parts |-> p.parts \o c.parts]
    BY <1>4 DEF commandForValidation
  <2>2. ~Bare(commandForValidation(c, p))
    BY <1>4, <2>1, NotBare
  <2>3. QED
    BY <1>4, <2>1, <2>2, JoinedFile DEF LookPath
<1>5. QED
  BY <1>1, <1>2, <1>3, <1>4

\* In a directory that is missing, a relative command is not found.
LEMMA NotFoundNowhere ==
  ASSUME NEW S, NEW c \in [abs : BOOLEAN, parts : Seq(S)],
         c.parts # <<>>, ~c.abs
  PROVE  FileAt(None, c) = None
<1>1. c.parts \in Seq(S) /\ <<>> \in Seq(S)
  OBVIOUS
<1>2. Front(c.parts) \in Seq(S)
  BY <1>1, FrontOfJoin
<1>3. QED
  BY <1>2, WalkNowhere DEF FileAt

\* It holds at first.
LEMMA InitCommandInv ==
  ASSUME CommandInit
  PROVE  CommandInv
<1>1. \E p \in CommandPaths : command = [p EXCEPT !.parts = Append(@, "w")]
  BY DEF CommandInit
<1>2. dir \in CommandPaths /\ cpc = "new"
  BY DEF CommandInit
<1>3. QED
  BY <1>1, <1>2 DEF CommandInv, ValidatedIsExecuted

LEMMA LongerPath ==
  ASSUME NEW S, NEW s \in Seq(S), NEW T, S \subseteq T, NEW name \in T
  PROVE  /\ s \in Seq(T) /\ Append(s, name) \in Seq(T)
         /\ Append(s, name) # <<>>
<1>1. s \in Seq(T)
  OBVIOUS
<1>2. Append(s, name) \in Seq(T) /\ Len(Append(s, name)) = Len(s) + 1
  BY <1>1
<1>3. Len(s) \in Nat /\ Len(<<>>) = 0
  OBVIOUS
<1>4. QED
  BY <1>1, <1>2, <1>3

\* A command has a last component.
LEMMA CommandIsPath ==
  ASSUME CommandInv
  PROVE  LET T == STRING \cup {"w"}
         IN  /\ command \in [abs : BOOLEAN, parts : Seq(T)]
             /\ command.parts # <<>>
             /\ dir \in [abs : BOOLEAN, parts : Seq(T)]
<1>1. PICK p \in CommandPaths : command = [p EXCEPT !.parts = Append(@, "w")]
  BY DEF CommandInv
<1>2. PICK S, T : S = STRING /\ T = STRING \cup {"w"}
  OBVIOUS
<1>3. /\ p \in [abs : BOOLEAN, parts : Seq(S)]
      /\ dir \in [abs : BOOLEAN, parts : Seq(S)]
  BY <1>2, CommandPathsAssumption DEF CommandInv
<1>4. S \subseteq T /\ "w" \in T
  BY <1>2
<1>5. p.parts \in Seq(S) /\ dir.parts \in Seq(S)
  BY <1>3
<1>6. /\ dir.parts \in Seq(T) /\ Append(p.parts, "w") \in Seq(T)
      /\ Append(p.parts, "w") # <<>>
  BY <1>4, <1>5, LongerPath
<1>7. /\ command = [abs |-> p.abs, parts |-> Append(p.parts, "w")]
      /\ dir = [abs |-> dir.abs, parts |-> dir.parts]
      /\ p.abs \in BOOLEAN /\ dir.abs \in BOOLEAN
  BY <1>1, <1>3
<1>8. /\ command \in [abs : BOOLEAN, parts : Seq(T)] /\ command.parts # <<>>
      /\ dir \in [abs : BOOLEAN, parts : Seq(T)]
  BY <1>6, <1>7
<1>9. QED
  BY <1>2, <1>8

LEMMA SameLookup ==
  ASSUME UNCHANGED <<entry, cwd, dir, command>>
  PROVE  /\ LookPath(commandForValidation(command, dir))'
              = LookPath(commandForValidation(command, dir))
         /\ WorkDir' = WorkDir
<1>1. ASSUME NEW d, NEW parts PROVE Walk(d, parts)' = Walk(d, parts)
  BY DEF Walk, FoldLeft, MapThenFoldSet, Enter
<1>2. commandForValidation(command, dir)' = commandForValidation(command, dir)
  BY DEF commandForValidation
<1>3. QED
  BY <1>1, <1>2 DEF LookPath, FileAt, WorkDir

LEMMA NextCommandInv ==
  ASSUME CommandInv, [CommandNext]_commandVars
  PROVE  CommandInv'
<1>1. UNCHANGED <<entry, cwd, dir, command>>
  BY DEF CommandNext, NewStarter, Start, Inspect, CommandDone, commandVars
<1>2. /\ LookPath(commandForValidation(command, dir))'
           = LookPath(commandForValidation(command, dir))
      /\ WorkDir' = WorkDir
      /\ (command.abs \/ Bare(command))' = (command.abs \/ Bare(command))
  BY <1>1, SameLookup DEF Bare
<1>3. CASE NewStarter
  <2>1. /\ validated' = LookPath(commandForValidation(command, dir))
        /\ cpc' = "rejected" \/ (cpc' = "start" /\ validated' # None)
    BY <1>3 DEF NewStarter
  <2>2. QED
    BY <1>1, <1>2, <2>1 DEF CommandInv, ValidatedIsExecuted
<1>4. CASE Start
  <2>1. PICK T : /\ command \in [abs : BOOLEAN, parts : Seq(T)]
                 /\ command.parts # <<>>
                 /\ dir \in [abs : BOOLEAN, parts : Seq(T)]
    BY CommandIsPath, Zenon
  <2>2. LookPath(commandForValidation(command, dir))
          = FileAt(WorkDir, IF Bare(command) THEN PATH ELSE command)
    BY <2>1, SameFile DEF WorkDir
  <2>3. /\ cpc = "start" /\ validated' = validated
        /\ validated = LookPath(commandForValidation(command, dir)) /\ validated # None
    BY <1>4 DEF Start, CommandInv
  <2>4. CASE WorkDir # None
    <3>1. executed' = validated /\ cpc' = "started"
      BY <1>4, <2>2, <2>3, <2>4 DEF Start
    <3>2. QED
      BY <1>1, <1>2, <2>3, <3>1 DEF CommandInv, ValidatedIsExecuted
  <2>5. CASE WorkDir = None
    <3>1. cpc' = "unstarted"
      BY <1>4, <2>5 DEF Start
    <3>2. command.abs \/ Bare(command)
      <4>1. SUFFICES ASSUME ~command.abs, ~Bare(command) PROVE FALSE
        OBVIOUS
      <4>2. FileAt(None, command) = None
        BY <2>1, <4>1, NotFoundNowhere
      <4>3. QED
        BY <2>2, <2>3, <2>5, <4>1, <4>2
    <3>3. QED
      BY <1>1, <1>2, <2>5, <3>1, <3>2 DEF CommandInv, ValidatedIsExecuted
  <2>6. QED
    BY <2>4, <2>5
<1>5. CASE Inspect
  <2>1. cpc = "started" /\ cpc' = "inspected" /\ UNCHANGED <<validated, executed>>
    BY <1>5 DEF Inspect
  <2>2. QED
    BY <1>1, <1>2, <2>1 DEF CommandInv, ValidatedIsExecuted
<1>6. CASE UNCHANGED commandVars
  <2>1. UNCHANGED <<cpc, validated, executed>>
    BY <1>6 DEF commandVars
  <2>2. QED
    BY <1>1, <1>2, <2>1 DEF CommandInv, ValidatedIsExecuted
<1>7. QED
  BY <1>3, <1>4, <1>5, <1>6 DEF CommandNext, CommandDone

\* The invariant holds throughout, for paths that are lists of names.
LEMMA AlwaysCommandInv == CommandSpec => []CommandInv
<1>1. CommandInit => CommandInv
  BY InitCommandInv
<1>2. CommandInv /\ [CommandNext]_commandVars => CommandInv'
  BY NextCommandInv
<1>3. QED
  BY <1>1, <1>2, PTL DEF CommandSpec

-----------------------------------------------------------------------------
(* The theorem about the command.                                           *)

\* The file that commandForValidation leads exec.LookPath to is the file that
\* execve finds after the change of directory, if that succeeds; it can only fail
\* for a command that is not looked up in the directory.
THEOREM ValidatedIsAlwaysExecuted == CommandSpec => []ValidatedIsExecuted
<1>1. CommandInv => ValidatedIsExecuted
  BY DEF CommandInv
<1>2. QED
  BY <1>1, AlwaysCommandInv, PTL

-----------------------------------------------------------------------------
(* The composition.                                                         *)

\* A step of an invocation is a step of each component, or leaves it alone.
LEMMA StepOfEach ==
  ASSUME [InvocationNext]_invocationVars
  PROVE  /\ [Next]_vars
         /\ [CommandNext]_commandVars
         /\ [ControlNext]_controlVars
<1>1. CASE Configure
  BY <1>1 DEF Configure, Next, commandVars, controlVars
<1>2. CASE CreateStarter
  BY <1>2 DEF CreateStarter, Next, controlVars, CommandNext
<1>3. CASE StartWorker
  BY <1>3 DEF StartWorker, controlVars, CommandNext
<1>4. CASE OpenControlDirectory
  BY <1>4 DEF OpenControlDirectory, commandVars
<1>5. CASE UNCHANGED invocationVars
  BY <1>5 DEF invocationVars, commandVars, controlVars
<1>6. QED
  BY <1>1, <1>2, <1>3, <1>4, <1>5 DEF InvocationNext, Over

\* An invocation behaves, towards its settings, towards the command and towards
\* the pid file's directory, as the component does on its own.
THEOREM InvocationComposes ==
  InvocationSpec => Spec /\ CommandSpec /\ ControlSpec
<1>1. InvocationInit => Init /\ CommandInit /\ ControlInit
  BY DEF InvocationInit
<1>2. [InvocationNext]_invocationVars =>
        /\ [Next]_vars
        /\ [CommandNext]_commandVars
        /\ [ControlNext]_controlVars
  BY StepOfEach
<1>3. QED
  BY <1>1, <1>2, PTL DEF InvocationSpec, Spec, CommandSpec, ControlSpec

-----------------------------------------------------------------------------
(* The properties of the composition.                                       *)

\* The interval that a supervisor is given is usable.
THEOREM InvocationIntervalUsable == InvocationSpec => []IntervalUsable
  BY InvocationComposes, IntervalAlwaysUsable, PTL

\* The file that NewStarter has found is the file that the worker executes, or
\* the configured directory of an absolute or bare command is missing.
THEOREM InvocationValidates == InvocationSpec => []ValidatedIsExecuted
  BY InvocationComposes, ValidatedIsAlwaysExecuted, PTL

\* The walk to the pid file ends in the directory that its path names, and is
\* refused only for a cause.
THEOREM InvocationWalkIsExact == InvocationSpec => []WalkIsExact
  BY InvocationComposes, WalkIsAlwaysExact, PTL

\* openDirectoryPath and openRootAnchoredDirectoryPath accept the same paths.
THEOREM InvocationWalkersAgree == InvocationSpec => []WalkersAgree
  BY InvocationComposes, WalkersAlwaysAgree, PTL

\* A walk leaves open the descriptor that it returns, and no other.
THEOREM InvocationFDsBalanced == InvocationSpec => []FDsBalanced
  BY InvocationComposes, FDsAlwaysBalanced, PTL
=============================================================================
